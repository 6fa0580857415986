-------------------------------- MODULE Ext2 --------------------------------
(***************************************************************************)
(* The ext2 driver of src/src/fs/ext2.c on one disk: bitmaps, counts,      *)
(* inodes and blocks; the nodes and slots it keeps in memory while it is   *)
(* mounted; and the plug pulled between any two writes to the disk.        *)
(* Blocks hold directory entries, pointers, or one value, the number of    *)
(* the file that wrote it; sizes count blocks. A call is computed with the *)
(* disk after each of its writes in `log`: it ends with the last of them,  *)
(* a power cut leaves any of them.                                         *)
(***************************************************************************)
EXTENDS Naturals, Sequences, FiniteSets, SequencesExt

CONSTANTS BlocksCount, PerGroup, FirstBlock, InodesPerGroup, BgCount,
          Meta,          \* blocks of bitmaps, inode tables and padding
          NDirect,       \* direct pointers of an inode: 12
          PtrMax,        \* pointers in a block
          DirCap,        \* directory entries in a block
          SlotMax,       \* EXT2_FILE_SLOTS
          FileMax,       \* bound: blocks of a file
          FileName       \* bound: names

ASSUME Ext2Assumption ==
    /\ {PerGroup, InodesPerGroup, NDirect, PtrMax, SlotMax} \subseteq Nat \ {0}
    /\ DirCap \in Nat \ {0, 1, 2}
    /\ FileMax <= NDirect + PtrMax + PtrMax * PtrMax

VARIABLES disk, bgds, mounted, nodes, slots,
          shadow, torn, cut, apart    \* history, see the properties

ext2Vars == <<disk, bgds, mounted, nodes, slots, shadow, torn, cut, apart>>

RootIno == 2
Ino == 1..(InodesPerGroup * BgCount)
Hole == 0
EndPtr == NDirect + 1        \* i_block[13]; the last two are indirect
NoInode == [mode |-> "none", links |-> 0, size |-> 0, blocks |-> 0,
            ptr |-> [i \in 0..EndPtr |-> 0]]
ZeroBlock == [ents |-> <<>>, ptrs |-> [i \in 0..(PtrMax - 1) |-> 0], val |-> Hole]
Entry(ino, name, len) == [ino |-> ino, name |-> name, len |-> len]
DotBlock(ino, up) ==
    [ZeroBlock EXCEPT !.ents = <<Entry(ino, ".", 1), Entry(up, "..", DirCap - 1)>>]
DirInode(b) == [NoInode EXCEPT !.mode = "dir", !.links = 2, !.size = 1, !.blocks = 1, !.ptr[0] = b]

\* The numbers a group's bitmap stands for; the last one of the last group may
\* lie beyond the disk and is marked from the start (Meta).
GroupBlocks(g) == {g * PerGroup + i + FirstBlock : i \in {j \in 0..(PerGroup - 1) : j + g * PerGroup < BlocksCount}}
GroupInodes(g) == {g * InodesPerGroup + i + 1 : i \in 0..(InodesPerGroup - 1)}
Group == 0..(BgCount - 1)
Members == [bmap |-> [g \in Group |-> GroupBlocks(g)], imap |-> [g \in Group |-> GroupInodes(g)]]
Count == [bmap |-> "freeBlocks", imap |-> "freeInodes"]
Block == 1..(BlocksCount + FirstBlock)
Least(S) == CHOOSE x \in S : \A y \in S : x <= y

---------------------------------------------------------------------------
(* Calls: [disk, bgds, inode, out, log], computed write by write            *)

Begin(inode) == [disk |-> disk, bgds |-> bgds, inode |-> inode, out |-> 0,
                 log |-> <<disk>>]
Put(s, d) == [s EXCEPT !.disk = d, !.log = Append(@, d)]
PutBlock(s, b, x) == Put(s, [s.disk EXCEPT !.blk[b] = x])
PutInode(s, i, x) == Put(s, [s.disk EXCEPT !.inode[i] = x])

\* A bitmap, then the group descriptors, then the superblock are written.
PutMap(s, map, bits, gs, total) ==
    LET marked == [s.disk EXCEPT ![map] = bits]
        grouped == [marked EXCEPT !.bgds = gs]
        whole == [grouped EXCEPT !.sb[Count[map]] = total]
    IN  [s EXCEPT !.disk = whole, !.bgds = gs, !.log = @ \o <<marked, grouped, whole>>]

\* The first clear bit of the first group whose count is not 0. out = 0: no space.
AllocIn(s, map, g, x) ==
    [PutMap(s, map, s.disk[map] \union {x}, [s.bgds EXCEPT ![g][Count[map]] = @ - 1],
            IF s.disk.sb[Count[map]] > 0 THEN s.disk.sb[Count[map]] - 1 ELSE 0) EXCEPT !.out = x]

OpenGroups(s, map) == {g \in Group : s.bgds[g][Count[map]] # 0 /\ Members[map][g] \ s.disk[map] # {}}

AllocFrom(s, map, open) ==
    IF open = {} THEN [s EXCEPT !.out = 0]
    ELSE AllocIn(s, map, Least(open), Least(Members[map][Least(open)] \ s.disk[map]))

AllocBlock(s) == AllocFrom(s, "bmap", OpenGroups(s, "bmap"))
AllocInode(s) == AllocFrom(s, "imap", OpenGroups(s, "imap"))

Release(s, map, x) ==
    LET g == CHOOSE h \in Group : x \in Members[map][h] IN
    PutMap(s, map, s.disk[map] \ {x}, [s.bgds EXCEPT ![g][Count[map]] = @ + 1],
           s.disk.sb[Count[map]] + 1)

FreeBlock(s, b) == Release(s, "bmap", b)
FreeInode(s, i) == Release(s, "imap", i)

\* Which pointers lead to block i of a file: in the inode, then in blocks.
Way(i) ==
    LET j == i - NDirect
        k == j - PtrMax
    IN  CASE i < NDirect -> <<i>>
          [] i >= NDirect /\ j < PtrMax -> <<NDirect, j>>
          [] OTHER -> <<EndPtr, k \div PtrMax, k % PtrMax>>

ReachedBy(d, inode, way) ==
    FoldLeft(LAMBDA b, k : IF b = 0 THEN 0 ELSE d.blk[b].ptrs[k], inode.ptr[Head(way)], Tail(way))
FileBlock(d, inode, i) == ReachedBy(d, inode, Way(i))

\* A new block, zeroed on the disk before anything points to it.
Zeroed(a) ==
    IF a.out = 0 THEN a
    ELSE [PutBlock(a, a.out, ZeroBlock) EXCEPT !.inode.blocks = @ + 1]
PointedAt(z, b, k) == IF z.out = 0 THEN z ELSE PutBlock(z, b, [z.disk.blk[b] EXCEPT !.ptrs[k] = z.out])
InodeAt(z, k) == [z EXCEPT !.inode.ptr[k] = z.out]

EnsureTop(s, k) ==
    IF s.inode.ptr[k] # 0 THEN [s EXCEPT !.out = s.inode.ptr[k]] ELSE InodeAt(Zeroed(AllocBlock(s)), k)

EnsureIn(s, b, k) ==
    CASE b = 0 -> s
      [] b # 0 /\ s.disk.blk[b].ptrs[k] # 0 -> [s EXCEPT !.out = s.disk.blk[b].ptrs[k]]
      [] OTHER -> PointedAt(Zeroed(AllocBlock(s)), b, k)

EnsureFileBlock(s, way) ==
    FoldLeft(LAMBDA t, k : EnsureIn(t, t.out, k), EnsureTop(s, Head(way)), Tail(way))

\* All blocks of an inode, in the order in which they are freed.
BlocksOf(d, inode) ==
    LET In(b) == IF b = 0 THEN <<>> ELSE [k \in 1..PtrMax |-> d.blk[b].ptrs[k - 1]]
        With(b) == In(b) \o <<b>>
    IN  SelectSeq([k \in 1..NDirect |-> inode.ptr[k - 1]] \o With(inode.ptr[NDirect])
                  \o FlattenSeq([k \in DOMAIN In(inode.ptr[EndPtr]) |-> With(In(inode.ptr[EndPtr])[k])])
                  \o <<inode.ptr[EndPtr]>>, LAMBDA b : b # 0)

FreeInodeBlocks(s) ==
    [FoldLeft(FreeBlock, s, BlocksOf(s.disk, s.inode))
        EXCEPT !.inode.ptr = NoInode.ptr, !.inode.blocks = 0]

\* The direct blocks of a directory, up to the first pointer that is 0.
DirBlocks(inode) ==
    LET full == {n \in 0..NDirect : \A k \in 0..(n - 1) : inode.ptr[k] # 0}
        n == CHOOSE n \in full : \A m \in full : m <= n
    IN  [k \in 1..n |-> inode.ptr[k - 1]]

\* In the slack of the last entry of a block, else in a new block. out = 0: no room.
AddInBlock(s, b, ino, name) ==
    LET ents == s.disk.blk[b].ents
        last == ents[Len(ents)] IN
    [PutBlock(s, b, [s.disk.blk[b] EXCEPT !.ents =
                        Append([@ EXCEPT ![Len(ents)].len = 1], Entry(ino, name, last.len - 1))])
        EXCEPT !.out = b]

LinkUnwritten(a, dir, k, ino, name) ==    \* mutant: the new block is not noted in the inode
    IF a.out = 0 THEN a
    ELSE PutBlock(a, a.out, [ZeroBlock EXCEPT !.ents = <<Entry(ino, name, DirCap)>>])

LinkKept(a, dir, k, ino, name) ==    \* mutant: the block that cannot be linked is not freed
    CASE a.out = 0 -> a
      [] a.out # 0 /\ k = NDirect -> [a EXCEPT !.out = 0]
      [] OTHER -> PutInode(PutBlock(a, a.out, [ZeroBlock EXCEPT !.ents = <<Entry(ino, name, DirCap)>>]),
                           dir, [a.disk.inode[dir] EXCEPT !.ptr[k] = a.out, !.size = @ + 1, !.blocks = @ + 1])

LinkNewBlock(a, dir, k, ino, name) ==
    CASE a.out = 0 -> a
      [] a.out # 0 /\ k = NDirect -> [FreeBlock(a, a.out) EXCEPT !.out = 0]
      [] OTHER -> PutInode(PutBlock(a, a.out, [ZeroBlock EXCEPT !.ents = <<Entry(ino, name, DirCap)>>]),
                           dir, [a.disk.inode[dir] EXCEPT !.ptr[k] = a.out, !.size = @ + 1, !.blocks = @ + 1])

Roomy(d, bs) == {i \in DOMAIN bs : LET e == d.blk[bs[i]].ents IN e # <<>> /\ e[Len(e)].len > 1}

AddTo(s, dir, bs, roomy, ino, name) ==
    IF roomy # {} THEN AddInBlock(s, bs[Least(roomy)], ino, name)
    ELSE LinkNewBlock(AllocBlock(s), dir, Len(bs), ino, name)

AddDirEntry(s, dir, ino, name) ==
    LET bs == DirBlocks(s.disk.inode[dir]) IN AddTo(s, dir, bs, Roomy(s.disk, bs), ino, name)

---------------------------------------------------------------------------
(* The nodes in memory *)

FreeSlots(ss) == {i \in 1..SlotMax : ~ss[i].used}
NoSlots == [i \in 1..SlotMax |-> [used |-> FALSE, ino |-> 0, inode |-> NoInode]]
NewNode(up, name, ino, dir, slot) == [up |-> up, name |-> name, ino |-> ino, dir |-> dir, slot |-> slot]

\* ext2_make_vfs_node and ext2_add_file: a file that finds no slot gets no node.
AddNode(m, up, name, ino, inode) ==
    LET slot == Least(FreeSlots(m.slots)) IN
    CASE inode.mode = "dir" -> [m EXCEPT !.nodes = Append(@, NewNode(up, name, ino, TRUE, 0))]
      [] inode.mode = "file" /\ FreeSlots(m.slots) # {} ->
            [nodes |-> Append(m.nodes, NewNode(up, name, ino, FALSE, slot)),
             slots |-> [m.slots EXCEPT ![slot] = [used |-> TRUE, ino |-> ino, inode |-> inode]]]
      [] OTHER -> m

EntriesOf(d, dir) ==
    SelectSeq(FlattenSeq([i \in DOMAIN DirBlocks(d.inode[dir]) |-> d.blk[DirBlocks(d.inode[dir])[i]].ents]),
              LAMBDA e : e.ino # 0 /\ e.name \notin {".", ".."})

\* ext2_walk_dir: what a directory names, each name followed by what is below it.
\* Every file and directory gets its node in this order when the disk is mounted.
WalkDir(d) ==
    LET below[dir \in Ino, depth \in 0..Cardinality(Ino)] ==
            LET ents == EntriesOf(d, dir)
                Name(e) == [up |-> dir, name |-> e.name, ino |-> e.ino]
                Under(e) == IF depth = 0 \/ d.inode[e.ino].mode # "dir" THEN <<>>
                            ELSE below[e.ino, depth - 1]
            IN  FlattenSeq([i \in DOMAIN ents |-> <<Name(ents[i])>> \o Under(ents[i])])
    IN  below[RootIno, Cardinality(Ino)]

Walked(d) ==
    FoldLeft(LAMBDA m, x : AddNode(m, x.up, x.name, x.ino, d.inode[x.ino]),
             [nodes |-> <<>>, slots |-> NoSlots], WalkDir(d))

InTree(dir) == dir = RootIno \/ \E i \in DOMAIN nodes : nodes[i].ino = dir /\ nodes[i].dir
FileNamed(dir, name) ==
    {i \in DOMAIN nodes : nodes[i].up = dir /\ nodes[i].name = name /\ ~nodes[i].dir}

ValueAt(d, b) == IF b = 0 THEN Hole ELSE d.blk[b].val
FileContents(d, inode) ==
    [i \in 0..(FileMax - 1) |-> IF i >= inode.size THEN Hole ELSE ValueAt(d, FileBlock(d, inode, i))]

---------------------------------------------------------------------------
(* Operations *)

\* mke2fs: an empty root directory on its first block that is not Meta.
NewDisk ==
    LET b == Least(GroupBlocks(0) \ Meta)
        bmap == Meta \union {b}
        gs == [g \in Group |-> [freeBlocks |-> Cardinality(GroupBlocks(g) \ bmap),
                                freeInodes |-> Cardinality(GroupInodes(g) \ {1, RootIno})]]
    IN  [bmap |-> bmap, imap |-> {1, RootIno}, bgds |-> gs,
         sb |-> [freeBlocks |-> Cardinality(UNION {GroupBlocks(g) : g \in Group} \ bmap),
                 freeInodes |-> Cardinality(Ino) - 2],
         inode |-> [i \in Ino |-> IF i = RootIno THEN DirInode(b) ELSE NoInode],
         blk |-> [x \in Block |-> IF x = b THEN DotBlock(RootIno, RootIno) ELSE ZeroBlock]]

Ext2Init ==
    /\ disk = NewDisk /\ bgds = disk.bgds
    /\ mounted = TRUE /\ nodes = <<>> /\ slots = NoSlots
    /\ shadow = [i \in Ino |-> [k \in 0..(FileMax - 1) |-> Hole]]
    /\ torn = FALSE /\ cut = FALSE /\ apart = FALSE

Forget == mounted' = FALSE /\ nodes' = <<>> /\ slots' = NoSlots /\ apart' = FALSE

\* The call s on the file ino is complete, or the power fails during it; then
\* nothing is known of that file but what the disk holds.
Finish(s, memory, known) ==
    /\ disk' = s.disk /\ bgds' = s.bgds
    /\ nodes' = memory.nodes /\ slots' = memory.slots
    /\ shadow' = known
    /\ UNCHANGED <<mounted, torn, cut>>

PowerCut(log, ino, truncates) ==
    /\ \E d \in Range(log) \ {log[1], log[Len(log)]} :
          /\ disk' = d
          /\ shadow' = [shadow EXCEPT ![ino] = FileContents(d, d.inode[ino])]
    /\ torn' = (torn \/ truncates) /\ cut' = TRUE
    /\ Forget /\ UNCHANGED bgds

InMemory == [nodes |-> nodes, slots |-> slots]
Holes == [k \in 0..(FileMax - 1) |-> Hole]

SlotsKept(ino, inode) == slots    \* mutant: the slot still shows the blocks that were freed

\* Truncation (O_TRUNC): blocks are freed before the inode forgets them; then
\* the first slot of the file is brought up to date.
TruncatedSlots(ino, inode) ==
    LET hits == {k \in 1..SlotMax : slots[k].used /\ slots[k].ino = ino}
    IN  IF hits = {} THEN slots ELSE [slots EXCEPT ![Least(hits)].inode = inode]

TruncateCall(freed, ino) == PutInode(freed, ino, [freed.inode EXCEPT !.size = 0])

TruncateFile(ino) ==
    \E s \in {TruncateCall(FreeInodeBlocks(Begin(disk.inode[ino])), ino)} :
      \/ /\ Finish(s, [InMemory EXCEPT !.slots = TruncatedSlots(ino, s.disk.inode[ino])],
                   [shadow EXCEPT ![ino] = Holes])
         /\ UNCHANGED apart
      \/ PowerCut(s.log, ino, TRUE)

\* A new file: its inode is marked and written before the entry names it. The
\* file stays on the disk when there is no slot left for its node.
FileInode == [NoInode EXCEPT !.mode = "file", !.links = 1]
Undone(w, ino) == IF w.out = 0 THEN FreeInode(w, ino) ELSE w
NewFileCall(a, dir, name) == AddDirEntry(PutInode(a, a.out, FileInode), dir, a.out, name)

CreateFile(dir, name) ==
    \E a \in {AllocInode(Begin(NoInode))} : a.out # 0 /\
    \E w \in {NewFileCall(a, dir, name)} : \E s \in {Undone(w, a.out)} :
      \/ /\ Finish(s, IF w.out # 0 THEN AddNode(InMemory, dir, name, a.out, FileInode) ELSE InMemory,
                   [shadow EXCEPT ![a.out] = Holes])
         /\ apart' = (apart \/ (w.out # 0 /\ FreeSlots(slots) = {}))
      \/ PowerCut(s.log, a.out, FALSE)

\* A new directory; nothing looks for the name among the entries there are.
NewDirCall(b, ino, dir, name) ==
    IF b.out = 0 THEN b
    ELSE AddDirEntry(PutInode(PutBlock(b, b.out, DotBlock(ino, dir)), ino, DirInode(b.out)), dir, ino, name)
Linked(w, dir) == PutInode(w, dir, [w.disk.inode[dir] EXCEPT !.links = @ + 1])
UndoneDir(w, ino, b) ==
    IF w.out = 0 THEN FreeInode(IF b = 0 THEN w ELSE FreeBlock(w, b), ino) ELSE w

MakeDir(dir, name) ==
    \E a \in {AllocInode(Begin(NoInode))} : a.out # 0 /\
    \E b \in {AllocBlock(a)} : \E w \in {NewDirCall(b, a.out, dir, name)} :
    \E s \in {IF w.out = 0 THEN UndoneDir(w, a.out, b.out) ELSE Linked(w, dir)} :
      \/ /\ Finish(s, IF w.out # 0 THEN AddNode(InMemory, dir, name, a.out, DirInode(b.out)) ELSE InMemory,
                   shadow)
         /\ UNCHANGED apart
      \/ PowerCut(s.log, a.out, FALSE)

\* n blocks from block i on, one after the other, as far as there is space; the
\* inode is written once, at the end, when its size or its pointers changed.
WriteOne(e, ino, i) ==
    IF e.out = 0 THEN [e EXCEPT !.stop = TRUE]
    ELSE [PutBlock(e, e.out, [e.disk.blk[e.out] EXCEPT !.val = ino])
             EXCEPT !.done = @ + 1, !.inode.size = IF i >= @ THEN i + 1 ELSE @]

WriteBlocks(slot, i, n) ==
    FoldLeft(LAMBDA s, k : IF s.stop THEN s
                           ELSE WriteOne(EnsureFileBlock(s, Way(i + k)), slots[slot].ino, i + k),
        Begin(slots[slot].inode) @@ [stop |-> FALSE, done |-> 0], [k \in 1..n |-> k - 1])

Synced(w, ino, old) == IF w.inode = old THEN w ELSE PutInode(w, ino, w.inode)

WriteFile(slot, i, n) ==
    \E s \in {Synced(WriteBlocks(slot, i, n), slots[slot].ino, slots[slot].inode)} :
      \/ /\ Finish(s, [InMemory EXCEPT !.slots[slot].inode = s.inode],
                   [shadow EXCEPT ![slots[slot].ino] = [k \in DOMAIN @ |->
                        IF k \in i..(i + s.done - 1) THEN slots[slot].ino ELSE @[k]]])
         /\ UNCHANGED apart
      \/ PowerCut(s.log, slots[slot].ino, FALSE)

\* vfs_rename: the nodes move, the disk does not hear of it.
Ext2Rename(j, dir, name) ==
    LET target == {k \in DOMAIN nodes : nodes[k].up = dir /\ nodes[k].name = name}
        rest == SelectSeq(nodes, LAMBDA x : x # nodes[j] /\ \A k \in target : x # nodes[k]) IN
    /\ ~(nodes[j].up = dir /\ nodes[j].name = name)
    /\ nodes[j].dir => dir # nodes[j].ino
                       /\ \A k \in DOMAIN nodes : nodes[k].ino = dir => nodes[k].up # nodes[j].ino
    /\ \A k \in target : nodes[k].dir /\ nodes[j].dir /\ \A l \in DOMAIN nodes : nodes[l].up # nodes[k].ino
    /\ nodes' = Append(rest, [nodes[j] EXCEPT !.up = dir, !.name = name])
    /\ apart' = TRUE
    /\ UNCHANGED <<disk, bgds, mounted, slots, shadow, torn, cut>>

Ext2Mount ==
    /\ ~mounted /\ mounted' = TRUE
    /\ bgds' = disk.bgds
    /\ nodes' = Walked(disk).nodes /\ slots' = Walked(disk).slots
    /\ UNCHANGED <<disk, shadow, torn, cut, apart>>

Ext2Umount ==
    /\ mounted /\ Forget
    /\ UNCHANGED <<disk, bgds, shadow, torn, cut>>

Ext2Next ==
    \/ /\ mounted
       /\ \/ \E i \in DOMAIN nodes : ~nodes[i].dir /\
                \/ TruncateFile(nodes[i].ino)
                \/ \E k \in 0..(FileMax - 1), n \in 1..2 : k + n <= FileMax /\ WriteFile(nodes[i].slot, k, n)
          \/ \E dir \in Ino, name \in FileName : InTree(dir) /\
                \/ FileNamed(dir, name) = {} /\ CreateFile(dir, name)
                \/ MakeDir(dir, name)
                \/ \E i \in DOMAIN nodes : Ext2Rename(i, dir, name)
    \/ Ext2Mount \/ Ext2Umount

Ext2Spec == Ext2Init /\ [][Ext2Next]_ext2Vars

---------------------------------------------------------------------------
(* Properties *)

OnDisk == Range(Walked(disk).nodes)
Live == {RootIno} \union {x.ino : x \in Range(WalkDir(disk))}
AllBlocks(live) == FlattenSeq([i \in 1..Cardinality(Ino) |->
                IF i \in live THEN BlocksOf(disk, disk.inode[i]) ELSE <<>>])

\* No block belongs to two files or twice to one, and every block of a file is
\* marked in the bitmap: after calls that ran out of space half-way, and after
\* any power cut but one in the middle of a truncation, whatever nodes there are
\* in memory. Without power cuts no block and no inode is lost either, and the
\* counts in memory and on the disk are exact.
BlocksOwnedOnce ==
    ~torn =>
    \E live \in {Live} : \E all \in {AllBlocks(live)} :
    /\ IsInjective(all) /\ Range(all) \subseteq disk.bmap \ Meta
    /\ live \subseteq disk.imap
    /\ ~cut =>
          /\ disk.bmap = Meta \union Range(all) /\ disk.imap = {1} \union live
          /\ bgds = disk.bgds
          /\ disk.sb.freeBlocks = Cardinality(UNION {GroupBlocks(g) : g \in Group} \ disk.bmap)
          /\ \A g \in Group : bgds[g].freeBlocks = Cardinality(GroupBlocks(g) \ disk.bmap)
                              /\ bgds[g].freeInodes = Cardinality(GroupInodes(g) \ disk.imap)

\* Every file reads as what was last written to it, through the inode in its slot
\* or, after a mount, from the disk: whatever is written to other files, and even
\* if the power fails during that.
FilesKeepContents ==
    ~torn => \A x \in IF mounted THEN Range(nodes) ELSE OnDisk :
        x.dir \/ FileContents(disk, IF mounted THEN slots[x.slot].inode ELSE disk.inode[x.ino]) = shadow[x.ino]

\* A mount shows what was there before the umount: the nodes in memory are those
\* that a walk of the disk would make now. A rename and a file for which no slot
\* was left set memory and disk apart.
RemountShowsTree == mounted /\ ~apart /\ ~torn =>
    {<<x.up, x.name, x.ino>> : x \in Range(nodes)} = {<<x.up, x.name, x.ino>> : x \in OnDisk}
=============================================================================
