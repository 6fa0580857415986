------------------------------ MODULE MCKernel ------------------------------
(***************************************************************************)
(* Components of the kernel that share no state, side by side: kernel      *)
(* memory, the address spaces, the ring of a pipe, the tree of files and   *)
(* the ext2 driver. Which of them runs is chosen at the start, and the     *)
(* others stay as they are. The tree and the disk are followed for the     *)
(* first calls.                                                            *)
(***************************************************************************)
EXTENDS KernelMemory, AddressSpace, PipeRing, Vfs, Ext2, TLC

CONSTANTS Components,                             \* that a run looks at
          VfsCalls, Ext2Calls, GrownCalls         \* bounds: calls of a run

VARIABLES part, calls

MCSlots == [c \in Classes |-> 2]

MCArchive == << [path |-> <<"a">>, dir |-> TRUE], [path |-> <<"a", "b">>, dir |-> FALSE] >>
MCDevDir == <<"t">>
MCDevices == <<"d">>
Path(abs, segs) == [abs |-> abs, segs |-> segs]
MCInputs == {Path(TRUE, <<>>), Path(TRUE, <<"a">>), Path(TRUE, <<"t">>),
             Path(FALSE, <<"b">>), Path(FALSE, <<"..", "a">>)}

\* The first calls of the part "grown": a directory, three files, of which the
\* last gets no slot but is the first to get one when the disk is mounted again.
MCGrowth ==
    CASE calls = 0 -> MakeDir(RootIno, "a") /\ ~cut'
      [] calls = 1 -> CreateFile(RootIno, "b") /\ ~cut'
      [] calls = 2 -> WriteFile(1, 0, 1) /\ ~cut'
      [] calls = 3 -> CreateFile(RootIno, "a") /\ ~cut'
      [] OTHER -> CreateFile(3, "a") /\ ~cut'
GrowthCalls == 5

\* The components that do not run start in one state, so that none is multiplied.
Still(p, start) == part # p => start

MCInit ==
    /\ part \in Components /\ calls = 0
    /\ KernelInit /\ SpaceInit /\ RingInit /\ VfsInit /\ Ext2Init
    /\ Still("ring", head = 0 /\ buf = [i \in 0..BufSize - 1 |-> CHOOSE b \in Byte : TRUE]
                         /\ read_byte = CHOOSE b \in Byte : TRUE)
    /\ Still("spaces", contents = [f \in UserFrame |-> CHOOSE v \in Value : TRUE])

Others(p) ==
    /\ part = p /\ UNCHANGED part
    /\ p # "memory" => UNCHANGED kernelVars
    /\ p # "spaces" => UNCHANGED spaceVars
    /\ p # "ring" => UNCHANGED ringVars
    /\ p # "vfs" => UNCHANGED vfsVars
    /\ p \notin {"ext2", "grown"} => UNCHANGED ext2Vars
Call == calls' = calls + 1
NoCall == calls' = calls

MCNext ==
    \/ Others("memory") /\ NoCall /\ KernelNext
    \/ Others("spaces") /\ NoCall /\ SpaceNext
    \/ Others("ring") /\ NoCall /\ RingNext
    \/ Others("vfs") /\ Call /\ VfsNext
    \/ Others("ext2") /\ Call /\ Ext2Next
    \/ Others("grown") /\ Call /\ IF calls < GrowthCalls THEN MCGrowth ELSE Ext2Next

mcVars == <<part, calls, kernelVars, spaceVars, ringVars, vfsVars, ext2Vars>>
MCSpec == MCInit /\ [][MCNext]_mcVars

MCBound ==
    CASE part = "vfs" -> calls < VfsCalls
      [] part = "ext2" -> calls < Ext2Calls
      [] part = "grown" -> calls < GrowthCalls + GrownCalls
      [] OTHER -> TRUE

\* pmm_alloc_frame looks for the first free frame; and after a power cut the next
\* call is a mount.
MCFirstFit ==
    \A f \in bitmap' \ bitmap : \A g \in UserFrame \ (bitmap \union bitmap') : f < g
MCRemount == cut => disk' = disk \/ mounted'

\* The address spaces up to the names of frames: what each page holds, and with
\* which pages it shares a frame. What free frames hold is left out.
MCSpaces ==
    [t \in Task |-> [p \in Page |->
        LET f == pte[t][p] IN
        IF f = Unmapped THEN <<>>
        ELSE <<perm[t][p], contents[f], refcounts[f], f \in bitmap,
               {uq \in Task \X Page : pte[uq[1]][uq[2]] = f}, leaked[f]>>]]
MCBreaks == [t \in Task |-> IF Mapped(t) = {} THEN ImageEnd ELSE brk[t]]

\* The tree up to the numbers of its nodes. Sizes and offsets are left out, and
\* of a descriptor only the kind of its node is kept.
RECURSIVE Tree(_, _)
Tree(n, depth) ==
    IF n = Nil \/ depth = 0 THEN <<>>
    ELSE LET x == vfs.node[n] IN
         [kind |-> x.kind, ro |-> x.readonly, fs |-> x.fs, heap |-> n > PoolSize,
          mounts |-> {i \in DOMAIN vfs.mounts : vfs.mounts[i].at = n},
          root |-> Tree(x.root, depth - 1),
          kids |-> {<<vfs.node[k].name, vfs.node[k].parent = n, Tree(k, depth - 1)>> :
                       k \in Range(x.kids)}]
MCVfs ==
    <<Tree(BareRoot, PoolSize), Len(vfs.free), vfs.used,
      [i \in DOMAIN vfs.mounts |-> vfs.mounts[i].path],
      [i \in DOMAIN fds |-> IF fds[i].open THEN vfs.node[fds[i].node].kind ELSE ""], cwd, spoilt>>

\* In kernel memory nothing but the cached translations depends on them and on cr3.
MCView ==
    CASE part = "memory" -> <<part, ranges, heap, stacks>>
      [] part = "spaces" -> <<part, MCSpaces, MCBreaks, Cardinality(bitmap)>>
      [] part = "ring" -> <<part, ringVars>>
      [] part = "vfs" -> <<part, MCVfs>>
      [] OTHER -> <<part = "grown" /\ calls < GrowthCalls, ext2Vars>>
=============================================================================
