# A verification development for luminary

luminary is a small 32-bit x86 kernel with a preemptive scheduler, processes,
pipes, a VFS with ext2, a window server and a userland. This directory models
its logic in TLA+, checks the models with TLC and proves theorems about them
with TLAPS. Paths below are relative to the repository's root, and a file is
named without its directory: `task.c:555` is `src/kernel/task.c`, line 555.

## 1. The system

One processor, one kernel stack per task. Every gate of the IDT clears the
interrupt flag, so a system call, an interrupt and a fault handler run to their
end without preemption, with these exceptions, which the models keep apart:

- a call that blocks executes `sti; hlt; cli` in a loop (waitpid, pipe reads
  and writes, stdin) and is preempted there;
- `task_fork` ends with `sti`, on success (task.c:731) and when it finds no room
  for a kernel stack (task.c:663), and what `sys_fork` does after that is
  preemptible;
- `sys_kill` ends with `sti` (syscall.c:192);
- `task_kill` does not return when its victim is the running task, whatever
  activations of it are below on the stack;
- the compositor is a kernel task: the flag is set when it starts (task.c:154), it
  clears it at the end of each turn of its loop (gui.c:1250), and a composite sets it
  again while it scales a background. So its first pass can be preempted anywhere, and
  a later one only while it scales.

| component | state | operations | hard parts | what makes it correct |
|---|---|---|---|---|
| Scheduler (`sched.c`) | `sched_queue`, `running_task`, static and dynamic priorities | tick, insertion, unlinking, suspension, wake-up, reset | ageing makes priorities cross; waiters are "suspended" by a priority that every reset raises again | the list stays sorted and ends in idle; idle is a last resort; each cycle gives each task its share; nobody starves |
| Tasks (`task.c`, task calls of `syscall.c`) | pids, parents, wait fields, kernel stacks | create, fork, waitpid, exit, kill, respawn of init | recursive kill cascades, the struct of init written over while it is being killed, lost wake-ups | a woken waiter returns with the right status; every queued task owns its stack; cascades end |
| Pipes and descriptors (`pipe.c`, `syscall.c`, `dev.c`) | slot table, ring buffers, reference counts, descriptor tables | pipe, open, dup2, close, read, write, fork, kill | blocking with a pointer to a shared struct; counts kept in step by four files; partial failures | counts follow descriptors; end of file and broken pipe exactly when true; first in, first out |
| Frames and address spaces (`pmm.c`, `vmm.c`, `elf.c`) | frame counts, page tables | load, clone, copy-on-write fault, destroy, brk | frames shared through several forks, faults, execs and kills | counts are those of the sharers; each task reads what it wrote; what brk loses is all that is lost |
| Kernel memory (`vmm.c`, `heap.c`, stacks of `task.c`) | kernel ranges and their free list, slabs, large blocks, translations | alloc, free, kmalloc, kfree, stacks | bounded tables, coalescing, stale translations | a page belongs to one owner; a frame backs one page |
| VFS (`vfs.c`, `tmpfs.c`, `initrd.c`) | node tree and pool, mounts, descriptors, working directory | lookup, creat, mkdir, unlink, rename, mount, umount | stacked mounts, nodes in use that are freed, paths cut | the tree stays a tree; what is read-only does not change |
| ext2 (`fs/ext2.c`) | bitmaps, inodes, blocks; nodes and slots in memory | mount, creat, mkdir, write, truncate, umount | order of the writes to the disk, power cuts | every block has one owner; files read back what was written; a remount shows the same tree |
| Block devices (`ata.c`, `part.c`, `blkdev.c`) | drives, partitions, device table | probe, read and write by byte and by sector | errors of a shared channel, partial sectors | what was acknowledged is stored |
| Keyboard, mouse (`keyboard.c`, `mouse.c`) | rings, modifier flags, packet assembly | interrupts, reads | prefixes and packets cut by lost bytes | no modifier sticks; the mouse recovers |
| Window server (`gui.c`) | windows, order, focus, event queues, compositor task | client calls, interrupts, compositor passes | a compositor that ends while windows open, calls in the middle of its first pass, drags, queues at their limit, partial redraws | keys reach the top window; the screen shows the windows |
| Terminals (`termemu.c`, `fbcon.c`, `term.c`) | ring of lines, cursor, dirty rows, shadow of the screen | printing, control sequences, scrolling back, taking and giving up the screen | only dirty rows are drawn; the screen is shared with the window server | the screen shows the lines |
| Line editor, shell (`readline.c`, `sh.c`) | line, history ring; pipelines, jobs, descriptors | keys; pipelines, redirections, jobs | closing every pipe end in every process; failures half-way | editing and history as the user sees them; pipelines close down; jobs are those of live children |
| Traps (`cpu.c`, `traps.S`) | fault counter, trap frames | faults | one counter for all tasks | only a faulting task is killed |

The rest (boot, PCI, VGA, serial, printk, symbol table, small programs) is
straight-line or output code; `PROJECT.json` lists every part with its status
and every hazard at its line.

## 2. The modules

    SchedQueue <- Sched <- Tasks <- MCTasks             SchedProofs, TasksProofs
                    ^                                   (<- SeqLemmas)
                    `-- SchedCycle                      SchedProofs
    Fifo <= PipeRing        -.                          PipesProofs
    PrivateMemory <= AddressSpace -> MCKernel           MemoryProofs
    KernelMemory            -'                          MemoryProofs
    Vfs, Ext2               -'                          FileProofs (Vfs)
    Pipes -> MCPipes                                    PipesProofs
    Desktop, Input, Console, Shell, BlockDevices,       DeviceProofs (all but Shell)
    LineEditor <= Readline -> MCDesktop                 UserlandProofs (Readline, Shell)
                                        (<- extends, <= implements)

**SchedQueue** is the queue as data: the doubly linked list is a sequence, and
the operators are `insert_task_sorted`, the unlinking of `task_kill`,
`reset_all_priorities` and the loop at the label `pick`. The loop is given by
the position it stops at: the first task that is not suspended and whose
successor has no higher dynamic priority; then the tie break.

**Sched** makes them happen: one action per place in the kernel that touches
the queue, a priority or `running_task`. A tick is one step, with its `goto
pick`. `irq` is the interrupt flag. Left out: tick and CPU accounting, and the
check of the list's magic numbers, which the invariant `QueueInv` replaces.

**SchedCycle** lets Sched run freely, then lets the tasks settle (only ticks
from there on), and counts who runs: the cycle of the comment at the head of
`sched.c`.

**Tasks** is the life of tasks. A system call is one step. `task_kill` is not:
the variable `kills` is the stack of its activations, with one step for each
stage (respawn, wake and collect, one recursive call per child, return or
switch), so that what an activation reads after a nested one has run is what
that left. A kernel stack is named by the pid it was allocated for. `exited` is
a history variable. Branches of a call that return without changing anything
(`WNOHANG`, a pid that is no child, idle as a target) are no actions. A fault
that kills its task is a `Kill` of the running task. Every action that touches
the scheduler does so by an action of Sched, and the property `ImplementsSched`
says so of the whole module, which is how the two are composed.

**PipeRing** is the buffer of a pipe with its free-running 32-bit indices;
**Fifo** is what it promises, under the refinement mapping `Contents`. The 32-bit
counters are cut to `IndexMod`, a multiple of the buffer's size, and start
anywhere, so that their wrap is met.

**Pipes** is everything else about pipes, with contents reduced to a number of
bytes: the slot table, the reference counts as numbers modulo `RefMod`
(`uint8_t`), the descriptor tables, the blocked calls (`call`), and the loops
over descriptors of fork, its undoing and kill (`loop`), one descriptor a step.
In the undo loop with interrupts enabled a decrement is a load and a store: the
kernel is built without optimisation and `read_refs--` is not atomic against
the other tasks. Any live task may take the next step, which allows every
schedule the kernel has. A read or a write that returns at once without moving
a byte is no step. Nodes come from the pool that pipes share with everything
else; only pipes take nodes here.

**AddressSpace** is the user half of page directories as functions from pages to
frames, with the rights of each entry (`ro`, `rw`, `cow`), the reference counts,
the bitmap of frames and what each frame holds. Loading a program, fork, both
branches of the copy-on-write fault, brk, destruction, and the stores of programs
and of the kernel are its actions; `WriteProtect` is the bit CR0.WP, which decides
whether a store of the kernel obeys read-only entries. A break is the page it lies in
and whether it is inside that page, which is all its loop depends on; a brk of several
pages is several turns of the loop, a step each. From inside a page the loop maps that
page again: the entry is overwritten, the frame keeps its count, and the history
variable `leaked` says how many entries of a frame went that way. What the
processor's cached translations add is left out: after such a brk the task may read the
old frame until the entry is next loaded, and only then the new one.
**PrivateMemory** is what address spaces promise: each task has pages of its own and a
fork copies them; the last page of a heap that grows may be replaced, no other.

**KernelMemory** is the memory the kernel takes for itself: the ranges of
`vmm_alloc_pages` with the bounded free list and its coalescing, frames behind
them, the slabs and large blocks of `kmalloc` with the cache of the latter, the
stacks with their guard page, and the translations the processor keeps (`tlb`)
for the directory that is loaded (`cr3`). Ranges the full list drops are `lost`.

**Vfs** is the tree: nodes with kind, parent, children and mounted root, the pool
they come from, the table of mounts by path string, open descriptors and the
working directory. Calls run with interrupts disabled and are one step each.
`spoilt` marks a tree that a rename of a mounted root has corrupted.

**Ext2** is the driver on one disk. A call is computed with the list of the disks
it leaves after each of its writes (`log`); a power cut leaves any one of them,
and the next call is a mount. `shadow` (what was written to each file), `torn`,
`cut` and `apart` are history variables the properties refer to.

**BlockDevices** goes from the probe of the drives through the partitions to byte
access with its read-modify-write of partial sectors; `stuck` is the error bit of a
channel whose selected drive showed an error, which the driver polls before its
next command.

**Input** is the path from the bytes of the PS/2 controller to the rings: scan codes
with prefixes, the modifier flags, mouse packets and how the driver finds back to
their start after lost or foreign bytes. What was typed and is not taken yet is on
the line (`kbLine`, `mouseLine`).

**Desktop** is the window server: windows in order, focus, the event queue of each,
drags, resizing with a background that takes long to scale, the compositor task with
its start, its passes and its end, and `stdin` reads while windows are open. What
reaches the screen is kept per row: which window drew it last, and with what.
A pass is one step (`CompositorTask`), or two around the scaling of a background, except
the first one after a start, which runs with interrupts enabled: `first` is how far it is,
and calls and interrupts come between any two of its steps (`FirstPass`). These are an
event of the mouse, a key, the look at the pointer, the drawing of the scene and the reset
of `scene_dirty` after it; `focus_window` and `gui_window_destroy` are cut once each, where
the list lacks the window (`Midway`): between `win_list_remove` and `win_list_push_front`
(gui.c:953-954), and where the list has been looked at and the focus, or the keyboard, is
not passed on yet (gui.c:1358). `torn` remembers that a call changed the windows there,
or that a window to be raised had been closed before it was.

**Console** is the terminal emulator and the two programs around it. The ring of
lines, the visible part when scrolled back, cursor and dirty rows are those of
`struct termemu`; `con` is where the loop of fbcon or term is (start, poll, console,
shell, keys, yield), since the window server may take or give back the screen, and
programs print, between any two of its steps; `shown` is the screen and the shadow
that keeps fbrender from drawing what is there already. A row of the screen is its
text and its cursor.

**Readline** is the editor over an array of cells and a ring of history lines,
**LineEditor** what its user sees: the text left and right of the cursor and the
lines that can be recalled.

**Shell** is `sh.c` from a parsed line on: the descriptors of the shell and of every
child, the pipes between them, redirections with their save slots, the failures half
way of pipe and fork, waiting, the table of jobs and `fg`.

The modules MCKernel and MCDesktop put components that share no state side by
side; the first state chooses which of them runs (`part`). They do so to keep one
configuration for many small models.

| module | code |
|---|---|
| SchedQueue, Sched, SchedCycle | `sched.c`, list surgery of `task.c` |
| Tasks | `task_fork`, `task_kill`, `respawn_init`, `sys_fork`, `sys_waitpid`, `sys_exit_task`, `sys_kill` |
| PipeRing | the inner loops of `PIPE_SLOT` and `pipe_write_nb` |
| Pipes | `pipe.c`, `sys_pipe`, `sys_open`, `sys_close`, `sys_dup2`, `sys_fork`, `sys_read`, `sys_write`, the head of `task_kill`, `task_open_std_fds`, the console pipe of `dev.c` |
| AddressSpace | `vmm_clone_page_dir`, `vmm_cow_fault`, `vmm_destroy_page_dir`, counts of `pmm.c`, `elf_load`, `sys_brk` |
| KernelMemory | `vmm_alloc_pages`, `vmm_free_pages`, mapping and flushing, `heap.c`, `kstack_alloc` |
| Vfs | `vfs.c`, `tmpfs.c`, `initrd.c`, the calls on paths of `syscall.c` |
| Ext2 | `fs/ext2.c` |
| BlockDevices | `drivers/ata.c`, `part.c`, `blkdev.c` |
| Input | `drivers/keyboard.c`, `drivers/mouse.c` |
| Desktop | `gui.c`, the stdin of `dev.c` |
| Console | `userland/libc/termemu.c`, `fbrender.h`, `userland/fbcon.c`, `userland/term.c` |
| Readline | `userland/libc/readline.c` |
| Shell | `userland/sh.c` |

## 3. The runs

Properties that hold:

| run | instance | what it shows |
|---|---|---|
| MCSched | idle and 3 tasks, priorities 1..4 (the code: 10) | `QueueInv`; a tick idles only when alone (`TickIdlesOnlyAlone`) and passes over the suspended (`TickSkipsSuspended`); from every state Sched reaches, once the tasks settle each further cycle runs each task exactly its static priority's number of times (`CycleRunsEqualStaticPriority`), in order of priority (`NoPriorityInversion`), and nobody starves (`NoStarvation`) |
| MCTasks | init and 3 structs, 5 pids, 2 statuses | no lost wake-up, stacks owned, a returning kill leaves no child, the right status for a child that exits, `ImplementsSched` |
| MCTasksLive | init and 2 structs, 3 pids | cascades end, queued tasks run, woken waiters return |
| MCKernel | memory: 8 pages and 8 frames of kernel space, 2 free ranges, one size class; spaces: 3 tasks, 3 pages, one of them heap, 5 frames, 2 overwritten entries a frame, 2 values; ring: 4 cells, indices modulo 8, 3 bytes; tree: an archive of a directory and a file, /tmp with a device, 9 nodes, 3 mounts, 7 calls; disk: 10 blocks in 2 groups, 8 inodes, 2 direct pointers and up to twice indirect ones, 2 slots, 4 calls, or 3 after a directory and three files have been made | a kernel page belongs to one range, stack, slab or cached block (`PagesInOnePlace`) and a frame to one page (`FramesPrivate`); counts of frames are numbers of sharers and of entries brk overwrote (`CountsMatchSharers`), writable pages are unshared (`WritableUnshared`), each task reads what it wrote but for the page its break is inside of when it asks for more (`ImplementsPrivateMemory`); `ImplementsFifo`; the tree stays a tree with each node in it once (`TreeSound`), what was read-only is unchanged (`ReadOnlyKept`); no block has two owners and what is used is marked used (`BlocksOwnedOnce`), also after a power cut at any write; files read back (`FilesKeepContents`); a remount shows the tree that was there (`RemountShowsTree`) |
| MCPipes | 3 tasks, 2 descriptors each, the console and one more pipe, capacity 1, transfers of 2 | counts follow descriptors; a blocked call keeps its pipe; end of file and broken pipe only when true |
| MCPipesLive | 2 tasks, 3 slots, an odd number of nodes | descriptors resolve; a hang-up is noticed; the undo loop of a failed fork |
| MCDesktop | windows: 2 of them on 4 rows, event queues of 2, 3 calls, also from a drag whose window was closed and its slot given to another, and from two windows before the first pass of the compositor; keyboard: ring of 3, 4 bytes on the line; mouse: 4 bytes; terminal: 2 by 2 with 3 lines, 3 events; editor: 4 cells, history of 2, 7 keys; shell: 5 pids, 3 pipes, 8 descriptors, 3 lines of 9; disks: 2 positions, 3 sectors of 2 bytes, 3 calls | keys go to the focused window that is on top (`KeysReachTop`, up to the call that MCDesktopFirst is about), when the compositor has nothing left to do the screen is right (`ScreenCurrent`), and so for the terminals `ConsoleCurrent`; no modifier is stuck (`NoStuckModifier`), the mouse finds back to the packets (`MouseRecovers`); children of a pipeline hold no end they do not use (`PipesCloseDown`), a job is there as long as its processes (`JobEndsWithProcesses`); bytes acknowledged are on the disk (`StoredAsAcknowledged`); `ImplementsEditor` |

Why the bounds are enough. Three tasks beside idle give a suspended one, a
picked one and one that its ageing lets pass, and four levels let two
priorities cross twice. Three structs beside init give a grandchild that kills
its grandparent while a sibling waits. Three address spaces give a parent, a child and
a grandchild of one frame, three pages one that is only read, one that is written and
one of brk, and five frames let each of them fault beside the text and a heap page
lost to a second brk. Two free ranges of kernel space let
the list fill up, and a third range be dropped or joined on both sides. Three tasks
with pipes give a reader, a writer and
a third who forks, closes or kills; two descriptors give both ends of a pipe, or a
pipe end and the console; a transfer longer than the capacity makes a writer
block half-way. With `RefMod` 16 and 8 the counts cannot wrap, since that many
descriptors do not exist. On the disk two groups give a full one and a next one, a
file of three blocks reaches every kind of pointer, and two slots let a third open
file evict. Two windows give one above the other, and one to close while the other is raised, two rows of text a scroll, a third
line a line in the ring that is not on the screen. Five pids let a pipeline of three
and a background job live at once, and three lines make the second start while the
first's job is there and the third meet what both left.

How states are cut down, each without hiding a case from the properties of the run:
symmetry between the structs (MCTasks) and between the forked tasks and the nodes
(MCPipes); views that forget names of frames (`MCSpaces`), numbers of tree nodes
(`MCVfs`), translations that nothing else depends on (MCKernel) and the counters of
calls (with breadth-first search a state is first met with the fewest calls);
`MCFirstFit`, which takes the first free frame as the code does; `PrintedLate`, which
lets programs print just before the terminal looks; `MCRemount`, which makes a mount the
call after a power cut. Bounds of the models are named constants: `MaxPid` (forks and
respawns), one `ForkNoStack` in Pipes, `VirtMax` and `FrameMax`, `FileMax`, `SizeMax`,
`HeapNodes`, `PressMax`, `ParamMax`, `LineMax`, `TypedMax`, `PacketMax`, and the numbers
of calls (`VfsCalls`, `Ext2Calls`, `GrownCalls`, `GuiCalls`, `ConsoleCalls`, `KeysTyped`,
`ShellLines`, `BlockCalls`): for the tree and the disk in MCKernel and for the parts of
MCDesktop the properties are shown for that many calls from each initial state, not for
all. `MCStackFound` cuts a behaviour where a
fork fails for want of a stack, because the properties of Pipes are stated up to that
point (`~stackless`); `MCUndoToEnd` follows the undo loop to its end, while the
other tasks neither block nor fork.

Deadlock is checked where the timer ticks, in the runs of Sched and Tasks. In Pipes
tasks may all be blocked, each on a pipe it holds both ends of: the kernel is not stuck
then, it ticks. The other runs stop when a table is full, or after the last call.

Fairness. The timer is a device and does not stop: weak fairness of the tick.
The code of a cascade, of the loops over descriptors and of the start of init
runs on when nothing can interrupt it: weak fairness of those steps. A task in
an `sti; hlt; cli` loop repeats its test each time it is resumed, and it is
resumed again and again (`QueuedTaskRuns`); a tick may strike between `hlt` and
`cli` again, but not for ever, as it comes once in a millisecond: strong
fairness of the step that leaves the loop. No user code is assumed to be fair:
no task need ever fork, read, close or exit.

Properties that do not hold, each with the line it is taken from; TLC's trace
shows why:

| run | the source says | the code does |
|---|---|---|
| MCKernelTlb (`TranslationsCurrent`) | "Flush TLB if this is the currently loaded page directory" (vmm.c:85), a "fresh contiguous" range (vmm.h:31) | `vmm_free_pages` unmaps in the static directory; with a task's directory loaded the translation stays, and the next range at that address is reached through the old frame |
| MCKernelWrite (`ImplementsPrivateMemory`) | "a page-fault on either side triggers a copy" (architecture.md:96), "copied on the first write" (vmm.h:42) | CR0.WP is not set (vmm.c:546), so a store of the kernel into a copy-on-write page takes no fault and shows in every sharer |
| MCDesktopQuit (`CompositorServesWindows`) | "Exits [...] when the last window is closed", "Restarted by the next `gui_window_create()`" (docs/gui.md:57-58) | a window created between the last close and the end of the compositor starts none and is served by none (gui.c:1182) |
| MCDesktopFirst (`KeyboardHeld`) | "Release keyboard ownership when last window closes" (gui.c:1362), "sets it when the first window opens and clears it when the last window closes" (docs/gui.md:118) | in the first pass a call can come in the middle of `gui_window_destroy` and `focus_window`: a window opened after the list was found empty (gui.c:1358) loses the keyboard it has just taken (gui.c:1364) |
| MCReadlineHistory (`HistoryInOrder`) | "Up — prev history" (readline.c:133) | once the ring is full the history index is used as a slot of the ring (readline.c:103), and Up shows another line first |

Each property that holds also has a mutant: a plausible slip in the code, kept beside
the definition it mutates and marked so, under which TLC finds the property violated.

### Met while modelling, without a run

Other places where the code does not do what it, a comment or a document says. The
models have each of them as the code has it; the properties are stated around them.

- Tasks. The walk of the scheduler stops at the first local maximum of a queue sorted by
  static priority (sched.c:166), not at "the task with the highest dynamic priority"
  (sched.c:6-7). A cascade ends where it reaches the running task more than one level
  down, and the other children survive (task.c:570; roadmap.md:76); at most 64 children
  are followed (task.c:560). The status of a child that exits before its parent calls
  waitpid is lost (syscall.c:402). The stacks of the outer victims of a cascade that ends
  in a self-kill are never freed; after a self-kill with everything else suspended idle
  runs, since its priority is -1 and not 0 (task.c:584); a waiter's own `exit_status` is
  overwritten by its child's (task.c:549). Faults are counted for all tasks together
  (cpu.c:298). The page directory of a task that kills itself is freed while it is
  loaded (task.c:532).
- Pipes. A `sys_pipe` without two free descriptors leaves a pipe that counts descriptors
  that do not exist (syscall.c:549). The loop that undoes the counts of a failed fork
  runs with interrupts enabled and may be cut short or overwrite another task's change
  (syscall.c:369). The counts are 8 bits wide, and 8 tasks with 32 descriptors reach 256
  (pipe.c:186).
- Memory. `brk` from an address inside a page maps that page again and loses what the
  task had there (syscall.c:866, vmm.c:67); the frame keeps its count without an owner
  (pmm.c:41) and is never free again. It does not clear what it maps, and a break
  that ends inside the next page leaves that one unmapped. Its limit is one page below
  the top of the stack although the stack has 16 (syscall.c:863, elf.c:143-150); the
  model's heap ends below the stack, since a real one would need some 3 GB to get there.
  `vmm_map_page_in` makes private copies of shared kernel
  page tables; `kstack_alloc` leaks the frame of the guard page (task.c:87);
  `pmm_alloc_frame` panics when there is none left, so that its callers' failure paths are
  never taken; exec changes the name of the task even when it fails; the entry of the
  cache of large blocks that is given up is not the oldest.
- VFS. unlink, rename and umount free nodes that descriptors still refer to, against the
  comment at `vfs_free_node`. rename of or over a mounted root corrupts the tree. Stacked
  mounts can be made and never unmounted; mounts below "/" do not keep it from being
  unmounted, since nested mounts are found by string. The initrd is read-only in its root
  directory only. `vfs_resolve` cuts long paths. A listing by index skips entries when one
  before is removed.
- ext2. `vfs_mkdir` and creat make a second entry of the same name, against "NULL if the
  path already exists"; a create without a free slot fails and leaves the file on disk;
  files can never be unlinked and a rename is in memory only; a second mount writes over
  the globals of the first; truncation frees blocks before it writes the inode, so that a
  power cut between leaves blocks with two owners once they are used again (`torn`).
  Results of sector reads and writes are ignored.
- Disks. The error bit is polled before the next command and before the drive is
  selected, so that one error, or a CD drive as second on a channel, disables the channel
  for good. A sector lost in the data phase is acknowledged when it is the last. Partition
  entries are not compared with the size of the disk; 8 devices are fewer than 4 drives
  with 4 partitions each; byte offsets are 32 bits wide; a rewritten table is not probed
  again.
- Windows. A dirty window below others is drawn over them and over the status bar; a press
  that raises a window does not redraw it; a background set while another is scaled is
  lost or mixed; RESIZE events are dropped when the queue is full; drags and resizes
  keep the slot of a window that is gone, and drag on the next one that is opened in it;
  any client may name any window. What asks for a redraw of the scene while the first pass
  draws it is forgotten (gui.c:716): a window that is shown then gets no button in the
  status bar until the next redraw of the scene (`ScreenCurrent` excuses it).
- Terminals. CSI A and B shift the screen though "existing rows are unchanged"
  (termemu.c:61); nothing in the tree prints them. A window server that comes and goes
  between two looks of fbcon leaves its picture (fbcon.c:134-141), and one that starts
  while fbcon draws is drawn over. What the shell prints between the last read and its end
  is lost (fbcon.c:196, term.c:183). The shell and its terminal can wait for each other,
  each in a write.
- Shell. `cd x 2> f` leaves stderr in the file (its save slot 32 is beyond the table); a
  failure in a later segment returns without waiting for the children; `last_exit` is
  always 0; a full table of jobs leaves a job untracked; a read without wait during
  `wait` swallows input; a here-document at the end of input never ends.

And some that the models leave out, so that the runs say nothing about them:

- Windows. While a window is being resized, drawing clips and strides with its new size
  and the backbuffer still has the old one: the store misses it (`bb_fill_rect`,
  gui.c:361-369; `WinDraw`). A compositor that is killed leaves `compositor_task_ptr`
  behind. In the first pass a call can come at more places than the model has: between
  the reset of `compositor_task_ptr` and the end of the task, which starts another one in
  the same struct (gui.c:1193-1196); inside the operations on the list and on the heap, so
  that the list can lose windows or run into itself and a block can be given out twice;
  between a look at `win_list` or the number or place of a window and their use, where the
  window may be gone (NULL at gui.c:1159 and 1168). One cut stands for all points inside
  `focus_window`, and one for those inside `gui_window_destroy`. The flip of a window that
  is off the list at that moment is lost, as its number is not found.
- Terminals. CSI P with a count larger than the row starts its second loop below column 0
  and writes before the row (termemu.c:122-125). In Console it blanks the row, as it
  should.
- ext2. A hole ends a read that runs into it (`if (!phys0) break`), where it should read
  as zeros; the files of the model are written from their start and have no holes.

## 4. The proofs

Each theorem holds for every value of the constants that satisfies the named
assumptions of the module it is about (its `ASSUME`s, which TLC evaluates in every
run) and the hypotheses written in the theorem. All proofs have the same shape: an
inductive invariant, of which TLC was first asked whether it holds on the run's
instance, one lemma or step per action, and a last step in temporal logic.

**SchedProofs**, about `SchedSpec`, for any tasks and any number of levels (idle is
a task and there is a level):

- `SchedInvariant`: the invariant `SchedInv` is `SchedTypeOK` and `QueueInv` together;
  neither is inductive without the other (the order of the queue needs priorities
  that are integers, their range needs a list without duplicates). The lemma
  `InvMeaning` restates it as facts about a list (`ListOK`: no duplicate, sorted, idle
  last) and ranges (`InRange`), the form in which each action's lemma carries it;
  insertion and unlinking rest on lemmas about the order of pairs in a list with one
  element more or less (`SeqLemmas`).
- `SchedTypeCorrect` and `QueueCorrect` follow from it.
- `IdlesOnlyAlone`: the walk reaches idle only if everyone else is at level 0; a
  reset then lifts them all and the walk stops at the head.
- `SkipsSuspended`: likewise for suspended tasks.

Its second half is about `CycleSpec`: once the tasks have settled, a cycle runs each as
often as its static priority says (`CycleIsFair`), and at no point of it has a task run
less often than one of a lower static priority (`HigherPriorityRunsMore`). `CycleInv`
adds to `SchedInv` that for each queued task the runs so far and the dynamic priority
left add up to the static one (`Balanced`); the second theorem needs in addition that the
walk passes over a task only for one that is further behind (`PassedOverIsBehind`). That
a tick takes one level from the task it runs and nothing from the others is
`CycleTickTrades`.

**TasksProofs** shows that `TaskSpec` implements `SchedSpec` (`TasksImplementSched`)
step by step, and so inherits `QueueInv` (`TasksQueueCorrect`). The conjunct
`RunningQueued` is what needs care: in a cascade the running task is unlinked while
interrupts are off, and only a switch, or a return to `sys_kill` of another task,
turns them on again.

Its second half is about the stack of activations of `task_kill`. `StacksOwned` and
`NoLostWakeup` speak of tasks that are alive; in the middle of a cascade what they
promise is owed by an activation somewhere on that stack. `LifeOK` says who owes what:
besides types and fresh pids, each activation holds the kernel stack it will free, which
no task and no other activation has (`StacksHeld`), a waiter whose child is gone is
covered by an activation that has yet to wake it (`WaitersCovered`), and the activations
are nested as the code nests them (`CascadeOK`). The steps fall into four kinds, each
with its lemma: those that leave the life of tasks alone, creations, the entry of an
activation, its advance. `LifeInvariant`, and from it `StacksStayOwned` and
`WakeupsNotLost`, for any number of tasks and any depth.

Two more invariants are about what a parent and its children leave each other. `ExitOK`
follows the status of a child into the call of its parent: pids of tasks with a struct are
distinct (`PidsDistinct`), a waiter does nothing else (`WaitersQuiet`), and once the
waiter has been told of its child, the child is dead and the status to be copied is the one
it left, if it left one (`StatusHeld`); from it `StatusesDelivered`. `KidsOK` says that while an
activation is at its children, every queued child of its victim is in its array; from it
`VictimsLeaveNoChild`. That theorem has a hypothesis, `ChildrenFit`:
no task has more children in the queue than the array of `task_kill` holds (64), because
the code kills the first 64 only and forgets the rest. `Children` is a recursive function
over the queue; the lemmas `FirstOfRuns` to `FirstOfFew` say what it collects.

**PipesProofs** has two parts. For the ring buffer, `RingInv` says that
`tail + Used - head` is a multiple of `IndexMod`. The provers know little of `%`, so a
few lemmas about remainders and multiples come first. `RingIsQueue`: with a range of the
indices that is a multiple of the buffer's size (2^32 and 4096 in the code) the buffer
implements `Fifo`.

For the pipes, `PipesInv` is that until a fork fails for want of a stack (`~stackless`)
`PipesOK` holds: types, where a loop over descriptors stands (`LoopOK`), tasks without a
struct hold nothing (`DeadHoldNothing`), a blocked call is served by the pipe it was
made on (`CallsServed`), and counts (`CountInv`). The last is the delicate one, since the
loops of fork and kill run one descriptor at a time: the count of a pipe is the number of
references that are open or still owed by a loop under way, or else the pipe is an
orphan of a failed `sys_pipe` that nobody has open. The lemmas about the table say what
one increment, decrement or creation does to it (`LowerKeeps`, `RaiseKeeps`,
`CreateKeeps`), those about counting how a set of references changes with one
assignment or one step of a loop (`AssignRefs`, `LoopRefs`, `ChildRefs`). From
`PipesInvariant` follow `CountsMatchDescriptors`, `DescriptorsResolve`,
`BlockedCallsKeepPipes`, `EofIsTrue` and `BrokenIsTrue`. They have one hypothesis,
`CountsFit`: finitely many tasks, and room in a count for all of their descriptors and
two more. It is not idle: `uint8_t` has room for 255, and 8 tasks with 32 descriptors
each are 256.

**MemoryProofs** has two parts as well. For address spaces, `SpaceInv` has types, the count of each
frame as the number of its sharers and of the entries for it that brk overwrote, the
bitmap as the frames with a count, that sharers have a frame at the same page
(`SamePage`), that a writable page has one sharer, and that the heap a task has lies
below its break (`HeapBelowBreak`), so that the page a brk replaces is the last. It
is needed as a whole: that a store stays private rests on the last part, the branch of
the fault that keeps the frame on the count being exact, and the count being exact on
the loops of clone and destroy meeting a frame once, which `SamePage` gives.
`CountsAreRight` and `WritablePagesUnshared` need nothing more; `SpacesArePrivate`, the
refinement of `PrivateMemory`, has the hypothesis that `WriteProtect` is TRUE. The code
has it FALSE, and the run MCKernelWrite is what then happens. With the bit set, the
theorem says, one way is left for a task to lose what it wrote: a brk from inside a page,
which `PrivateMemory` allows to replace that page. `CountsAreRight` says the same of
frames: what brk overwrites is all that is lost.

For the kernel's own pages, the proof sees the ranges, wherever they are kept (the free
list, the ranges a full list dropped, the cache, the overflow table, slabs, stacks), as
one set of blocks with a tag each. `KernelInv` says that the blocks tile the pages below
`kvirt_next` (`Tiles`), that no free range ends where another begins (`FarApart`), that
the cache, a sequence, holds no block twice, and that the pages held, guards aside, are
those that have a frame, each its own (`FramesOK`). Each action replaces a few blocks by
others over the same pages, or by one that also takes those up to the new `kvirt_next`,
and the lemma `Replace` says that this keeps the tiling. `FarApart` is what makes a free
merge right: a range has at most one free neighbour on either side (`CoalescedIs`), so
the one merged entry covers what the entries it replaces covered; and merging in both
directions keeps `FarApart`. `FoundIs` is what `pmm_alloc_frame` promises. From
`KernelInvariant` follow `PagesStayInPlace` and `FramesStayPrivate`, for any sizes of the
space and of the tables. Nothing is proved about translations: `TranslationsCurrent` is
violated (MCKernelTlb).

**DeviceProofs** has five parts. The keyboard: `NoStuckModifier` compares flags and keys
when the line is empty, and with bytes on the line it is false. `KeyboardInv` says what
the bytes on the line account for: a prefix stands right before the codes that need one,
and at the end of no line (`Paired`); and a flag that is on with no byte of its keys left
to come, or that the last such byte on the line will turn on, has one of its keys held
(`FlagFollows`, for shift, ctrl and alt each). From it `ModifiersNeverStick`.

The mouse: `MouseRecovers` bounds the wrong events by the bytes lost and the noises (bytes
of a movement that look like a first byte), but that sum is no invariant, because what
was paid for may show later. `MouseInv` numbers the bytes in the order they are sent
(`Serial`); the driver's packet is ascending, the line is the last bytes sent without a
gap, and `wrong`, plus the noises still in packet or line, plus one if the packet misses a byte
behind its first one (`Missed`), is at most `lost + noisy` (`Paid`). A wrong event uses up
the gap of its packet or the noise that stands at its start. From it `MouseGetsInStep`.

Disks: `WritesStay` needs to know that an error sticks. A sector whose write the drive
dropped is `Unknown` to its callers, and `LostSectorsStick` says that its channel then
takes no more commands, so that no partial write copies the unknown into bytes that were
acknowledged before.

The window server: `FocusOnTop` (`KeysReachTop`). `DeskOK` adds what the calls rely on:
a window in use is on the list, once, and one that is not in use is not, so that what a
click hits, what Alt-F4 closes and what a dead client leaves can be found there. Most
operators leave the list, the numbers and the focus alone (`SameKeeps`); those that do
not are `FocusKeeps`, `OpenKeeps` and `DestroyKeeps`. A pass takes the events of the mouse
and then the keys, up to the one that closes the window on top (`TakenIs`); these loops
are recursive functions (`EventLoopRuns`). Inside the first pass the list of windows is
half changed, and the invariant speaks of the windows as they will be when `focus_window`
or `gui_window_destroy` is over (`Completed`, `KeptBy`): each step of the pass either does
what it says, or makes it true (`PassServed`, `ClosingKeeps`, `ContinueKeeps`). A call that
changes the windows then sets `torn`, and nothing is claimed after it; MCDesktopFirst shows
that nothing could be.

What it shows: `ScreenShowsWindows` (`ScreenCurrent`). The property speaks of a compositor
that is at rest, and no step of the server is a step between such states; so the invariant
`SceneOK` says, of every state that is not excused, what a redraw will still do. Each row of
the screen shows what it should (`Fits`), or a window lies on it that is marked to be drawn
(`Awaits`), or the whole scene is to be drawn there (`InScene`: in the rows of the band, if
nothing but a drag asked for it); and the same holds of the backbuffer, over which marked
windows are drawn alone. What rests has nothing marked (`RestIsDone`), and a compositor that
is not there will start with everything (`OffIsWhole`), since nobody draws until then.
In its first pass the scene stays asked for until it is drawn, and what a step of that
pass leaves unserved is excused (`FirstOK`, `Unserved`). Steps are of three kinds: they ask for a redraw of everything
(`AskedOK`), or change nothing that is shown (`AlikeOK`), or change one window, whose rows
they mark (`RepaintOK`) or add to the band (`PlaceOK`: `DragScene` and `ResizeScene` show
that the band takes in the rows left and the rows entered, `WidenDoes` that clipping it to
the screen loses none). The redraw itself is `Painted`: drawn from the lowest window on, a
row ends up with the topmost of those drawn there, which is the one that a click hits
(`HitTop`). `FullDraws` and `PartialDraws` follow; the second needs that no marked window is
covered, as the code draws it over those on top of it. A picture that is being scaled is the
one that is wanted unless another came in (`PictureFollows`). `SceneOK` was checked by TLC,
as an invariant, before it was proved.

The terminal: `ScreenShowsPaper` (`ConsoleCurrent`). Its invariant `ConsoleInv` relates
three things. The ring holds the lines that were printed, and the cursor is in the last
one (`TermOK`; `NewLineIs` and `SetLineFollows` find each cell of the ring again after
the remainder). The emulator marks what it changes: a row that is clean after a character,
a tab, a wrap, an escape sequence or a whole text shows the line it showed before, and
loses no place where the cursor may have been drawn (`Follows`, `CharFollows`,
`FeedFollows`). A clean row is up to date on the screen, and with fbcon in the shadow,
unless the window server came since the program last asked (`ScreenFresh`); and rows that
are dirty are about to be drawn (`DirtyIsDrawn`), so none are when a pass is over. As in
the model, a program that moves the cursor up or down ends the claim, and what a count of
CSI P beyond the row would write before the row is left out.

**UserlandProofs**: `ReadlineIsEditor`, the refinement of LineEditor by Readline. `RlInv`
has the line and its cursor within the array (`GoodLine`) and the ring of lines: `SlotOf`
gives the slot of the n-th line pushed, and `RingOK` that it holds that line. Each key of the editor is a step of the abstract one (`Edits`,
`KeyEdits`); what a push does to the ring, and what is recalled, are `PushIs`, `KeptIs`
and `RecalledWasEntered`. `JobsEndWithProcesses` rests on `JobInv`, whose
conjunct `FgJob` says what the loop of `fg` knows half-way: it waits for the processes of
the job it will clear, and those before its index are done.

`EndsOfPipesClose` rests on `ShellInv`, which speaks of the middle of a line too. There
the shell holds standard descriptors and one end more at most, `prev`, which the next child
will read (`ShellTable`). A child that has not yet taken its place holds what fork gave
it, the end of its neighbour's included (`Outfitted`); so the invariant counts for each
child the ends it has or will have (`WillHold`), and says that an end is with one
child at most, and with none as long as the shell keeps it for the next (`OneHolder`).
The pipe of a new call is one that nobody has open (`NewPipeIs`), and a command in the
shell's own process gives back what it redirects, but for standard error (`GivenBack`).

**FileProofs** is about `VfsSpec`: `TreeStaysSound` (`TreeSound`) and `ReadOnlyStays`
(`ReadOnlyKept`), for any size of the pool, of the table of mounts and of the buffers of
paths, any archive and any paths that programs pass. What an archive is, is an assumption
of Vfs: what lies above an entry of it is a directory (`ArchiveAssumption`); and devices
have names of their own in a /dev that is a directory if it is there
(`DeviceAssumption`), which the drivers see to and `vfs_register_dev` does not check.

`VfsInv` says that the tree is one until it is spoilt (`TreeOK`), and that descriptors
hold numbers of nodes (`FdsOK`), freed ones included. `TreeOK` has types and five parts:
nodes that may be handed out are empty, each once (`PoolOK`); entries point back and have
names of their own (`KidsOK`); what is mounted is a directory with no other link
(`RootsOK`); no node is lost (`LinksOK`); and the table of mounts has each mount point
once (`MountsOK`). Except in `LinksOK`, `TreeSound` is a way of counting this. The
parts lean on each other: that the node handed out next is linked from nowhere needs that
entries are in use, and that the name of a new entry is new needs that walks are what they
were. In the middle of a call there are nodes in use that are not linked yet, or no more,
and `LinksOK` names them: `TreeOK(v, X)` with X = {} between calls, and the lemmas say how
each operation of the code changes X (`TakeKeeps`, `LinkKeeps`, `DetachKeeps`,
`FreeKeeps`, `RelabelKeeps`, `MountKeeps`).

Four things need more. *Lookups*: a rename detaches by the parent it found and asks for
the old path not to be above the new one, as strings. That this keeps the tree a tree
rests on `WalksApart`: two walks meet at a node only after the same names, whatever is
mounted on the way; and a longer walk passes where a shorter one ends (`WalkPrefix`). *umount* frees a tree node by node in an order that is computed before.
`PostOrderIs` says that this order has each node below the root once and no others, and
`FreeTreeIs` that freeing them in turn is freeing them all. *The parser* of the archive is a loop over entries with a loop over the names of
each, which may run out of nodes anywhere. `ParsedTo` follows it with a map from the nodes
made so far to their paths, from which it follows that the directory an entry is put in is
one (`FindOrCreateKeeps`, `EnsureDirsKeeps`, `AddEntryKeeps`, `ParsedKeeps`). *The start*:
the mounts on the bare root and on /tmp, with or without a directory of that name in the
archive, and a node for each device (`BootTreeIs`). `UmountKeeps` and `RenameKeeps` have the
hypothesis that the call does not spoil the tree; that a program can do so is a flaw of
the code (section 3), not of the proof.

**SeqLemmas** has what `InsertAt`, `RemoveAt`, `Min` and `Max` return, where the index
of a ring wraps (`WrapsOnce`), and `CountingUp`, induction along an interval for a fixed
set, derived from the well-foundedness of `<` on Nat. The library's induction theorems
take the statement as an operator, which the provers cannot instantiate; with
`CountingUp` a set takes its place, and so the recursive functions of the models
(`FirstOf`) can be reasoned about: a finite run of the recursion exists, hence the
function obeys its equation. A loop over an index, written as such a function, comes
often: `LoopRuns` says that it exists and obeys its equation, `LoopKeeps` that it keeps what
each of its steps keeps. `ConcatIs` and `FlattenIs` say what is in a concatenation, and
when it has no duplicates.

Only model-checked:

- liveness (`NoStarvation`, `CascadeEnds`, `QueuedTaskRuns`, `WokenWaiterReturns`,
  `HangupIsNoticed`), which like ENABLED is out of the prover's reach;
- Ext2 (`BlocksOwnedOnce`, `FilesKeepContents`, `RemountShowsTree`): within reach of the
  prover, but not proved. The argument has to follow every write of a call, since a
  power cut may come after any of them.

## 5. Not modelled, and what remains

Left out on purpose:

- Boot, the start of the kernel and its reports, the drivers that only print or copy
  (VGA, serial, framebuffer, PCI, the network card), the symbol table: straight-line
  code, or output. Their order matters only in that the initial states are what they
  leave.
- `printf` and `malloc` of the user library, `init.c` and the small programs:
  sequential code over memory of their own.
- ATAPI and the identification of drives; the waiting for a drive that never answers.
- The screen below the row: columns, pixels, glyphs, the cursor sprite.
- Page tables as frames, the window through which the kernel edits foreign
  directories, the zones and contiguous runs of the frame allocator.
- Trap frames and their layout, the count of consecutive faults, the accounting of
  ticks and processor time.
- `sys_stat`, the ioctls of stdin and the devices, the environment.
- From the shell the parsing of words, globs and variables; from ext2 indirect blocks of
  directories and the unused space inside an entry; from the mouse and keyboard the
  start of their controller.

Three hazards in `PROJECT.json` have no property, because what the code does there is
what a property would have to forbid: a cascade that loses its rest when it reaches the
running task (task.c:570), the status of a child that exits first (syscall.c:402), and
descriptors of nodes that umount or unlink have freed (vfs.c:164). The models do as the
code does, and the properties of those modules are worded around it.

The mapped definitions stand for about a third of the lines of the implementation; a
good part of the rest is fonts, tables, output and start-up.

What would come next: a proof of `BlocksOwnedOnce`, for which Ext2 already writes its
recursion as functions (the missing part is an invariant of the loops that write and free
the blocks of a file, carried through every write of a call); more calls than now for
the tree, the disk and the parts of MCDesktop, each bounded by a number of calls; and trap
frames with the counter of faults, which would make the Traps component complete.
