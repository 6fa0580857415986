-------------------------------- MODULE Vfs --------------------------------
(***************************************************************************)
(* The tree of files of src/src/kernel/vfs.c with its two memory           *)
(* filesystems, tmpfs.c and initrd.c, and the system calls on paths and    *)
(* descriptors. Calls run with interrupts disabled, one after the other;   *)
(* a call that fails changes nothing and is no step.                       *)
(* A path is a sequence of names, the root is <<>>. A node is a number, a  *)
(* file is its size. What ext2 does is in module Ext2.                     *)
(***************************************************************************)
EXTENDS Naturals, Sequences, FiniteSets, SequencesExt

CONSTANTS PoolSize,      \* VFS_NODE_POOL_SIZE
          HeapNodes,     \* bound: nodes that kmalloc gives beyond the pool
          RawMax,        \* names that fit VFS_PATH_MAX
          SegMax,        \* names that vfs_resolve keeps
          MountMax,      \* VFS_MOUNT_MAX
          SizeMax,       \* bound: cells of a file
          FdMax,         \* VFS_FD_MAX
          Archive,       \* entries of the cpio archive: [path, dir]
          TmpDir,        \* name of /tmp
          DevDir, Devices,    \* path of /dev, names of the device nodes in it
          Inputs         \* paths that programs pass: [abs, segs]

ASSUME VfsAssumption ==
    /\ {PoolSize, RawMax, SegMax, MountMax, FdMax} \subseteq Nat \ {0}
    /\ {HeapNodes, SizeMax} \subseteq Nat
    /\ TmpDir \in STRING /\ DevDir \in Seq(STRING) /\ Devices \in Seq(STRING)
    /\ Inputs \subseteq [abs : BOOLEAN, segs : Seq(STRING)]

\* What lies above an entry of the archive is a directory.
ASSUME ArchiveAssumption ==
    /\ Archive \in Seq([path : Seq(STRING) \ {<<>>}, dir : BOOLEAN])
    /\ \A i, j \in DOMAIN Archive :
          IsStrictPrefix(Archive[i].path, Archive[j].path) => Archive[i].dir

VARIABLES vfs, fds, cwd, spoilt

vfsVars == <<vfs, fds, cwd, spoilt>>

VNode == 1..(PoolSize + HeapNodes)
Nil == 0
BareRoot == 1
Blank == [name |-> "", kind |-> "none", parent |-> Nil, kids |-> <<>>, root |-> Nil,
          fs |-> "none", readonly |-> FALSE, writable |-> FALSE, size |-> 0]
DirNode == [Blank EXCEPT !.kind = "dir"]
IsDir(v, n) == n # Nil /\ v.node[n].kind = "dir"

---------------------------------------------------------------------------
(* The pool of nodes *)

\* The node that vfs_alloc_node hands out: the last one freed, then the rest of
\* the pool, then the heap.
NextNode(v) ==
    LET heap == {n \in VNode : n > PoolSize /\ v.node[n].kind = "none"} IN
    CASE v.free # <<>> -> Head(v.free)
      [] v.free = <<>> /\ v.used < PoolSize -> v.used + 1
      [] v.free = <<>> /\ v.used = PoolSize /\ heap # {} -> Min(heap)
      [] OTHER -> Nil

TakeNode(v, rec) ==
    [v EXCEPT !.node[NextNode(v)] = rec,
              !.free = IF @ = <<>> THEN @ ELSE Tail(@),
              !.used = IF v.free = <<>> /\ @ < PoolSize THEN @ + 1 ELSE @]

FreeNode(v, n) ==
    [v EXCEPT !.node[n] = Blank, !.free = IF n <= PoolSize THEN <<n>> \o @ ELSE @]

Attach(v, d, n) == [v EXCEPT !.node[d].kids = Append(@, n), !.node[n].parent = d]

NewChild(v, d, rec) == Attach(TakeNode(v, rec), d, NextNode(v))

\* The loop that looks for the child ends without it when it is not there.
Without(kids, n) ==
    LET found == {i \in DOMAIN kids : kids[i] = n}
    IN  IF found = {} THEN kids ELSE RemoveAt(kids, Min(found))

Detach(v, d, n) == [v EXCEPT !.node[d].kids = Without(@, n), !.node[n].parent = Nil]

\* The nodes below n and n itself in the order in which they are freed. No tree
\* is deeper than there are nodes.
PostOrder(v, n) ==
    LET order[depth \in 0..Cardinality(VNode)] ==
            IF depth = 0 THEN [x \in VNode |-> <<>>]
            ELSE [x \in VNode |->
                     FlattenSeq([i \in DOMAIN v.node[x].kids |-> order[depth - 1][v.node[x].kids[i]]])
                         \o <<x>>]
    IN  order[Cardinality(VNode)][n]

FreeTree(v, n) ==
    LET nodes == PostOrder(v, n)
        freed[i \in 0..Len(nodes)] == IF i = 0 THEN v ELSE FreeNode(freed[i - 1], nodes[i])
    IN  freed[Len(nodes)]

---------------------------------------------------------------------------
(* Paths *)

DirChild(v, d, name) ==
    LET found == {i \in DOMAIN v.node[d].kids : v.node[v.node[d].kids[i]].name = name}
    IN  IF found = {} THEN Nil ELSE v.node[d].kids[Min(found)]

Follow(v, n) == IF n # Nil /\ v.node[n].root # Nil THEN v.node[n].root ELSE n

\* Where vfs_lookup is after each name of the path; Nil from where it fails on.
Walk(v, path) ==
    LET cur[i \in 0..Len(path)] ==
            IF i = 0 THEN Follow(v, BareRoot)
            ELSE IF IsDir(v, cur[i - 1]) THEN Follow(v, DirChild(v, cur[i - 1], path[i]))
            ELSE Nil
    IN  cur

Lookup(v, path) == Walk(v, path)[Len(path)]

\* vfs_resolve: a path that is too long is cut, "." skipped, ".." drops a name.
KeepName(out, s) ==
    CASE s = "." -> out
      [] s = ".." -> IF out = <<>> THEN out ELSE Front(out)
      [] OTHER -> IF Len(out) < SegMax THEN Append(out, s) ELSE out

Resolve(dir, p) ==
    LET raw == IF p.abs THEN p.segs ELSE dir \o p.segs
        n == Min({Len(raw), RawMax})
        kept[i \in 0..n] == IF i = 0 THEN <<>> ELSE KeepName(kept[i - 1], raw[i])
    IN  kept[n]

\* The directory that may be given an entry for the last name of the path.
EntryDir(v, path) == Lookup(v, Front(path))
MayAdd(v, path) ==
    path # <<>> /\ IsDir(v, EntryDir(v, path)) /\ ~v.node[EntryDir(v, path)].readonly

---------------------------------------------------------------------------
(* Mounting *)

\* The parser of the archive puts new entries in front.
AddFront(v, d, rec) ==
    [TakeNode(v, [rec EXCEPT !.parent = d]) EXCEPT !.node[d].kids = <<NextNode(v)>> \o @]

\* find_or_create; at: the node that was found or created, Nil without one.
FindOrCreate(s, rec) ==
    LET old == DirChild(s.v, s.at, rec.name)
        n == NextNode(s.v)
    IN  CASE s.at = Nil -> s
          [] s.at # Nil /\ (old # Nil \/ n = Nil) -> [s EXCEPT !.at = old]
          [] OTHER -> [v |-> AddFront(s.v, s.at, rec), at |-> n]

\* ensure_dir: the directories on the way to an entry of the archive.
EnsureDirs(v, root, path) ==
    LET made[i \in 0..(Len(path) - 1)] ==
            IF i = 0 THEN [v |-> v, at |-> root]
            ELSE FindOrCreate(made[i - 1], [DirNode EXCEPT !.name = path[i]])
    IN  made[Len(path) - 1]

AddEntry(v, root, e) ==
    FindOrCreate(EnsureDirs(v, root, e.path),
                 [Blank EXCEPT !.name = Last(e.path), !.kind = IF e.dir THEN "dir" ELSE "file",
                               !.size = IF e.dir THEN 0 ELSE 1]).v

Parsed(v, root) ==
    LET parsed[i \in 0..Len(Archive)] ==
            IF i = 0 THEN v ELSE AddEntry(parsed[i - 1], root, Archive[i])
    IN  parsed[Len(Archive)]

\* A node for the root of what is mounted at mp, and under it the archive.
TmpfsMount(v, mp) ==
    [TakeNode(v, [DirNode EXCEPT !.name = v.node[mp].name, !.parent = v.node[mp].parent,
                                 !.fs = "tmpfs"])
        EXCEPT !.node[mp].root = NextNode(v)]

InitrdMount(v, mp) ==
    LET root == NextNode(v)
        full == Parsed(TakeNode(v, [DirNode EXCEPT !.name = "/", !.parent = root]), root)
    IN  [full EXCEPT !.node[root].readonly = TRUE, !.node[root].fs = "initrd",
                     !.node[mp].root = root]

DoMount(v, path, type) ==
    LET mp == Lookup(v, path)
        w  == IF type = "tmpfs" THEN TmpfsMount(v, mp) ELSE InitrdMount(v, mp)
    IN  [w EXCEPT !.mounts = Append(@, [path |-> path, at |-> mp])]

MayMount(v, path) ==
    /\ IsDir(v, Lookup(v, path)) /\ v.node[Lookup(v, path)].root = Nil
    /\ Len(v.mounts) < MountMax /\ NextNode(v) # Nil

\* kernel_main: a bare root, the archive on it, /tmp, the devices.
BareTree == [node |-> [n \in VNode |-> IF n = BareRoot
                                       THEN [DirNode EXCEPT !.name = "/", !.parent = BareRoot]
                                       ELSE Blank],
             free |-> <<>>, used |-> 1, mounts |-> <<>>]

RootFs == DoMount(BareTree, <<>>, "initrd")
WithTmp == IF Lookup(RootFs, <<TmpDir>>) # Nil THEN RootFs
           ELSE NewChild(RootFs, Lookup(RootFs, <<>>), [DirNode EXCEPT !.name = TmpDir])
WithMounts == DoMount(WithTmp, <<TmpDir>>, "tmpfs")

\* vfs_register_dev: without /dev or a node for it there is no device node.
AddDev(v, name) ==
    LET d == Lookup(v, DevDir) IN
    IF d = Nil \/ NextNode(v) = Nil THEN v
    ELSE NewChild(v, d, [Blank EXCEPT !.name = name, !.kind = "dev"])

BootTree ==
    LET tree[i \in 0..Len(Devices)] ==
            IF i = 0 THEN WithMounts ELSE AddDev(tree[i - 1], Devices[i])
    IN  tree[Len(Devices)]

\* The kernel panics when there is no node for /tmp, or a mount fails.
Boots ==
    /\ MayMount(BareTree, <<>>)
    /\ Lookup(RootFs, <<TmpDir>>) = Nil => NextNode(RootFs) # Nil
    /\ MayMount(WithTmp, <<TmpDir>>)

\* The names of devices are their own, and /dev is a directory if it is there.
ASSUME DeviceAssumption ==
    /\ IsInjective(Devices)
    /\ LET d == Lookup(WithMounts, DevDir) IN
       Boots /\ d # Nil =>
          /\ IsDir(WithMounts, d)
          /\ \A i \in DOMAIN Devices : DirChild(WithMounts, d, Devices[i]) = Nil

NoFd == [open |-> FALSE, append |-> FALSE, node |-> Nil, offset |-> 0, dir_idx |-> 0]

VfsInit ==
    /\ Boots
    /\ vfs = BootTree
    /\ fds = [i \in 1..FdMax |-> NoFd]
    /\ cwd = <<>>
    /\ spoilt = FALSE

Mount(path, type) ==
    /\ MayMount(vfs, path)
    /\ vfs' = DoMount(vfs, path, type)
    /\ UNCHANGED <<fds, cwd, spoilt>>

\* "/" is a prefix that the test on the next character rejects.
Below(path, q) == IF path = <<>> THEN q = <<>> ELSE IsPrefix(path, q)

\* spoilt: the tree that is freed holds the directory of another mount.
UmountAnyway(path) ==               \* mutant: clears no mounted_root
    \E i \in DOMAIN vfs.mounts :
        LET m == vfs.mounts[i]
            root == vfs.node[m.at].root IN
        /\ m.path = path /\ \A j \in 1..(i - 1) : vfs.mounts[j].path # path
        /\ \A j \in DOMAIN vfs.mounts \ {i} : ~Below(path, vfs.mounts[j].path)
        /\ root # Nil /\ vfs.node[root].fs # "none"
        /\ vfs' = [FreeTree(vfs, root) EXCEPT !.mounts = RemoveAt(@, i)]
        /\ spoilt' = (\E j \in DOMAIN vfs.mounts \ {i} :
                         vfs.mounts[j].at \in Range(PostOrder(vfs, root)))
        /\ UNCHANGED <<fds, cwd>>

Umount(path) ==
    \E i \in DOMAIN vfs.mounts :
        LET m == vfs.mounts[i]
            root == vfs.node[m.at].root IN
        /\ m.path = path /\ \A j \in 1..(i - 1) : vfs.mounts[j].path # path
        /\ \A j \in DOMAIN vfs.mounts \ {i} : ~Below(path, vfs.mounts[j].path)
        /\ root # Nil /\ vfs.node[root].fs # "none"
        /\ vfs' = [FreeTree(vfs, root) EXCEPT !.node[m.at].root = Nil, !.mounts = RemoveAt(@, i)]
        /\ spoilt' = (\E j \in DOMAIN vfs.mounts \ {i} :
                         vfs.mounts[j].at \in Range(PostOrder(vfs, root)))
        /\ UNCHANGED <<fds, cwd>>

---------------------------------------------------------------------------
(* Descriptors *)

FreeFd == {i \in 1..FdMax : ~fds[i].open}

\* fd_alloc: the lowest free descriptor; without one the call fails after the
\* file was made.
OpenOn(v, n, append) ==
    /\ vfs' = v
    /\ fds' = IF FreeFd = {} THEN fds
              ELSE [fds EXCEPT ![Min(FreeFd)] =
                       [NoFd EXCEPT !.open = TRUE, !.append = append, !.node = n,
                                    !.offset = IF append THEN v.node[n].size ELSE 0]]
    /\ UNCHANGED <<cwd, spoilt>>

\* The file at the path is emptied, whatever the access mode (O_TRUNC).
OpenTruncate(path) ==
    LET n == DirChild(vfs, EntryDir(vfs, path), Last(path)) IN
    /\ MayAdd(vfs, path) /\ n # Nil /\ ~IsDir(vfs, n)
    /\ OpenOn([vfs EXCEPT !.node[n].size = 0, !.node[n].writable = TRUE], n, FALSE)

\* A new file; with O_CREAT alone only when the path names nothing.
OpenNew(path, append, trunc) ==
    /\ append => ~trunc
    /\ MayAdd(vfs, path) /\ NextNode(vfs) # Nil
    /\ DirChild(vfs, EntryDir(vfs, path), Last(path)) = Nil
    /\ trunc \/ Lookup(vfs, path) = Nil
    /\ OpenOn(NewChild(vfs, EntryDir(vfs, path),
                       [Blank EXCEPT !.name = Last(path), !.kind = "file", !.writable = TRUE]),
              NextNode(vfs), append)

OpenExisting(path, append, writes) ==
    LET n == Lookup(vfs, path) IN
    /\ n # Nil /\ FreeFd # {} /\ (append => writes)
    /\ writes => vfs.node[n].kind = "dev" \/ vfs.node[n].writable
    /\ OpenOn(vfs, n, append)

\* What a closed descriptor holds is set anew by fd_alloc.
CloseFd(i) ==
    /\ fds[i].open
    /\ fds' = [fds EXCEPT ![i] = NoFd]
    /\ UNCHANGED <<vfs, cwd, spoilt>>

\* One cell at the offset, or at the end (O_APPEND).
WriteFd(i) ==
    LET n == vfs.node[fds[i].node]
        end == (IF fds[i].append THEN n.size ELSE fds[i].offset) + 1 IN
    /\ fds[i].open /\ n.kind = "file" /\ n.writable /\ end <= SizeMax
    /\ n.parent # Nil => ~vfs.node[n.parent].readonly
    /\ vfs' = [vfs EXCEPT !.node[fds[i].node].size = IF end > @ THEN end ELSE @]
    /\ fds' = [fds EXCEPT ![i].offset = end]
    /\ UNCHANGED <<cwd, spoilt>>

ReadFd(i) ==
    LET n == vfs.node[fds[i].node] IN
    /\ fds[i].open /\ n.kind = "file" /\ fds[i].offset < n.size
    /\ fds' = [fds EXCEPT ![i].offset = @ + 1]
    /\ UNCHANGED <<vfs, cwd, spoilt>>

\* A position beyond the end becomes the end; devices stay at 0.
Lseek(i, off) ==
    LET n == vfs.node[fds[i].node] IN
    /\ fds[i].open /\ n.kind = "file"
    /\ fds' = [fds EXCEPT ![i].offset = IF off > n.size THEN n.size ELSE off]
    /\ UNCHANGED <<vfs, cwd, spoilt>>

Readdir(i) ==
    LET n == fds[i].node IN
    /\ fds[i].open /\ IsDir(vfs, n) /\ fds[i].dir_idx < Len(vfs.node[n].kids)
    /\ fds' = [fds EXCEPT ![i].dir_idx = @ + 1]
    /\ UNCHANGED <<vfs, cwd, spoilt>>

---------------------------------------------------------------------------
(* Changes of the tree *)

Mkdir(path) ==
    /\ MayAdd(vfs, path) /\ NextNode(vfs) # Nil
    /\ DirChild(vfs, EntryDir(vfs, path), Last(path)) = Nil
    /\ vfs' = NewChild(vfs, EntryDir(vfs, path), [DirNode EXCEPT !.name = Last(path)])
    /\ UNCHANGED <<fds, cwd, spoilt>>

Unlink(path) ==
    LET n == Lookup(vfs, path)
        d == vfs.node[n].parent IN
    /\ n # Nil /\ vfs.node[n].kind = "file" /\ d # Nil /\ ~vfs.node[d].readonly
    /\ vfs' = FreeNode(Detach(vfs, d, n), n)
    /\ UNCHANGED <<fds, cwd, spoilt>>

\* spoilt: the call moved or replaced the root of a mounted filesystem, which
\* lookups return for the path of its mount point.
MountedRoots(v) == {v.node[n].root : n \in VNode} \ {Nil}

MayRename(old, new, ro) ==
    LET n == Lookup(vfs, old)
        d == EntryDir(vfs, new)
        t == Lookup(vfs, new) IN
    /\ n # Nil /\ vfs.node[n].parent \notin {Nil, n} /\ old # new
    /\ IsDir(vfs, n) => ~IsPrefix(old, new)
    /\ MayAdd(vfs, new) /\ (ro => ~vfs.node[vfs.node[n].parent].readonly)
    /\ t # Nil => /\ vfs.node[t].kind # "dev" /\ (IsDir(vfs, t) <=> IsDir(vfs, n))
                  /\ vfs.node[t].kids = <<>>

Moved(v, n, d, name) == Attach([Detach(v, v.node[n].parent, n) EXCEPT !.node[n].name = name], d, n)

RenameFrom(old, new, ro) ==
    LET n == Lookup(vfs, old)
        d == EntryDir(vfs, new)
        t == Lookup(vfs, new)
        cleared == IF t = Nil THEN vfs ELSE FreeNode(Detach(vfs, d, t), t) IN
    /\ MayRename(old, new, ro)
    /\ vfs' = Moved(cleared, n, d, Last(new))
    /\ spoilt' = ({n, t} \cap MountedRoots(vfs) # {})
    /\ UNCHANGED <<fds, cwd>>

RenameAny(old, new) == RenameFrom(old, new, FALSE)  \* mutant: takes from any directory
Rename(old, new) == RenameFrom(old, new, TRUE)

Chdir(path) ==
    /\ IsDir(vfs, Lookup(vfs, path))
    /\ cwd' = path
    /\ UNCHANGED <<vfs, fds, spoilt>>

\* The tree is followed up to the first operation that spoils it.
VfsNext ==
    /\ ~spoilt
    /\ \/ \E p \in Inputs :
            LET path == Resolve(cwd, p) IN
            \/ \E type \in {"tmpfs", "initrd"} : Mount(path, type)
            \/ Umount(path)
            \/ OpenTruncate(path)
            \/ \E append \in BOOLEAN :
                  \/ \E trunc \in BOOLEAN : OpenNew(path, append, trunc)
                  \/ \E writes \in BOOLEAN : OpenExisting(path, append, writes)
            \/ Mkdir(path)
            \/ Unlink(path)
            \/ \E q \in Inputs : Rename(path, Resolve(cwd, q))
            \/ Chdir(path)
       \/ \E i \in 1..FdMax :
            \/ CloseFd(i) \/ WriteFd(i) \/ ReadFd(i) \/ Readdir(i)
            \/ \E off \in 0..SizeMax : Lseek(i, off)

VfsSpec == VfsInit /\ [][VfsNext]_vfsVars

---------------------------------------------------------------------------
(* Properties *)

Links(n) == {d \in VNode : n \in Range(vfs.node[d].kids)}
RootLinks(n) == {d \in VNode : n = vfs.node[d].root}

\* Each node in use is linked from exactly one directory in use, as an entry
\* that points back to it under a name of its own, or as the root of what is
\* mounted there; free nodes are linked from nowhere; each entry of the table of
\* mounts names a node with something mounted. Nodes are reused at once, so a
\* link to a freed node would soon be a second name of another file.
\* It holds until a rename takes or replaces the root of a mount, or an umount
\* frees the mount point of another: the two places where the code lacks a test.
TreeSound ==
    ~spoilt =>
    /\ \A n \in VNode : Cardinality(Links(n)) + Cardinality(RootLinks(n)) =
          IF n # BareRoot /\ vfs.node[n].kind # "none" THEN 1 ELSE 0
    /\ \A d \in VNode : LET kids == vfs.node[d].kids IN
          /\ \A i \in DOMAIN kids : vfs.node[kids[i]].parent = d
          /\ \A i, j \in DOMAIN kids : i # j => vfs.node[kids[i]].name # vfs.node[kids[j]].name
    /\ \A n \in Range(vfs.free) : vfs.node[n].kind = "none"
    /\ IsInjective(vfs.free)
    /\ \A i \in DOMAIN vfs.mounts : vfs.node[vfs.mounts[i].at].root # Nil

\* The entries of a read-only directory stay what they are as long as it is
\* mounted, through creations, renames from and into it, and removals.
ReadOnlyKept ==
    [][\A n \in VNode : vfs.node[n].readonly /\ vfs'.node[n].readonly /\ ~spoilt'
            => vfs'.node[n].kids = vfs.node[n].kids]_vfsVars
=============================================================================
