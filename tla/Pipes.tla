------------------------------- MODULE Pipes -------------------------------
(***************************************************************************)
(* Anonymous pipes (src/kernel/pipe.c) and the file descriptors that keep  *)
(* them alive (src/kernel/syscall.c, src/kernel/task.c): creation, dup2,   *)
(* close, inheritance by fork, the closing of everything by task_kill, and *)
(* the calls that block in a hlt loop.  A pipe's content is a number of    *)
(* bytes here; PipeRing says which bytes.                                  *)
(*                                                                         *)
(* Which task runs is the business of Sched and Tasks: here any live task  *)
(* may take the next step unless one of them is in a loop over its         *)
(* descriptors with interrupts disabled (the variable loop).  A task that  *)
(* waits in read or write is resumed now and then; the only other place    *)
(* where a task is preempted inside the kernel is the undo loop of a fork  *)
(* that found no room for a stack, because task_fork enabled interrupts.   *)
(***************************************************************************)
EXTENDS Integers, FiniteSets, SequencesExt

CONSTANTS Proc,         \* tasks
          Init,         \* the task that is respawned when it dies
          NFd,          \* VFS_FD_MAX
          NStd,         \* descriptors task_open_std_fds opens
          NSlot,        \* PIPE_MAX
          Node,         \* the vfs nodes there is room for
          ConsoleRead, ConsoleWrite,   \* the nodes of the console pipe
          File,         \* any node that is not a pipe's
          Null,
          Capacity,     \* PIPE_BUF_SIZE - 1
          RefMod,       \* 2^8, the range of read_refs and write_refs
          Length        \* the lengths tasks pass to read and write

ASSUME ProcAssumption == Init \in Proc
ASSUME FdAssumption == NFd \in Nat /\ NStd \in 0 .. NFd
ASSUME NSlotAssumption == NSlot \in Nat \ {0}
ASSUME NodeAssumption ==
    /\ ConsoleRead \in Node /\ ConsoleWrite \in Node
    /\ ConsoleRead # ConsoleWrite
    /\ File \notin Node /\ Null \notin Node /\ File # Null
ASSUME CapacityAssumption == Capacity \in Nat \ {0}
ASSUME RefModAssumption == RefMod \in Nat /\ RefMod > 1
ASSUME LengthAssumption == Length \subseteq Nat \ {0}

Fd   == 0 .. NFd - 1
Slot == 0 .. NSlot - 1

ConsoleSlot == 0

VARIABLES alive,        \* the tasks in the queue
          fds,          \* fds[p][f]: the node of an open descriptor, else Null
          pipe_table,
          used,         \* pipe_used
          leaked,       \* nodes nobody will ever free
          call,         \* what a task is doing inside the kernel, if anything
          loop,         \* the loop over descriptors with interrupts disabled
          stackless     \* history: a fork has failed for want of a stack

vars == <<alive, fds, pipe_table, used, leaked, call, loop, stackless>>

\* The entry of a slot whose p is NULL.
NoPipe == [read_node |-> Null, write_node |-> Null,
           read_refs |-> 0, write_refs |-> 0]

\* len: bytes left to read or write; fd: where a loop over the descriptors
\* is; held: the count the undo loop has loaded and not stored yet.
InUser == [op |-> "user"]

NoLoop == [op |-> "none"]

StdFds == [f \in Fd |-> IF f < NStd THEN File ELSE Null]

\* After init_devfs, which makes the console pipe and keeps one reference to
\* each of its ends, and after the first spawn of init.
PipesInit ==
    /\ alive = {Init}
    /\ fds = [p \in Proc |-> IF p = Init THEN StdFds ELSE [f \in Fd |-> Null]]
    /\ pipe_table = [s \in Slot |->
                        IF s = ConsoleSlot
                        THEN [read_node |-> ConsoleRead, write_node |-> ConsoleWrite,
                              read_refs |-> 1, write_refs |-> 1]
                        ELSE NoPipe]
    /\ used = [s \in Slot |-> 0]
    /\ leaked = {}
    /\ call = [p \in Proc |-> InUser]
    /\ loop = NoLoop
    /\ stackless = FALSE

-----------------------------------------------------------------------------
(* The slot table.                                                         *)

InUse(table) == {s \in Slot : table[s] # NoPipe}

EndsOf(s) == {pipe_table[s].read_node, pipe_table[s].write_node}

\* What vfs_alloc_node can hand out.
FreeNodes == Node \ (leaked \cup UNION {EndsOf(s) : s \in Slot})

\* The slots a node belongs to; at most one.
Owners(table, n) ==
    {s \in InUse(table) : n \in {table[s].read_node, table[s].write_node}}

Lowered(n) == IF n > 0 THEN n - 1 ELSE 0

Raised(n) == (n + 1) % RefMod

\* The count of the end that n is, after a close or a fork has changed it.
Recounted(e, n, Change(_)) ==
    IF n = e.read_node
    THEN [e EXCEPT !.read_refs = Change(@)]
    ELSE [e EXCEPT !.write_refs = Change(@)]

KeptIfBoth(e) ==             \* mutant: one closed end is enough
    IF e.read_refs = 0 \/ e.write_refs = 0 THEN NoPipe ELSE e

\* The pipe goes when both ends are closed.
Kept(e) == IF e.read_refs = 0 /\ e.write_refs = 0 THEN NoPipe ELSE e

\* pipe_notify_close; a node that is no pipe's is passed over.
NotifyClose(table, n) ==
    [s \in Slot |-> IF s \in Owners(table, n)
                    THEN Kept(Recounted(table[s], n, Lowered))
                    ELSE table[s]]

ForkFdReadOnly(table, n) ==  \* mutant: counts readers only
    [s \in Slot |-> IF s \in Owners(table, n) /\ n = table[s].read_node
                    THEN Recounted(table[s], n, Raised)
                    ELSE table[s]]

\* pipe_fork_fd.
ForkFd(table, n) ==
    [s \in Slot |-> IF s \in Owners(table, n)
                    THEN Recounted(table[s], n, Raised)
                    ELSE table[s]]

-----------------------------------------------------------------------------
(* System calls that do not block.                                         *)

MayCall(p) == loop = NoLoop /\ p \in alive /\ call[p] = InUser

FreeFds(p) == {f \in Fd : fds[p][f] = Null}

\* sys_pipe when pipe_create finds a slot and two nodes.  With fewer than two
\* free descriptors the call fails and the pipe stays.
CreatePipe(p, rn, wn) ==
    /\ MayCall(p)
    /\ {rn, wn} \subseteq FreeNodes /\ rn # wn
    /\ InUse(pipe_table) # Slot
    /\ LET s == Min(Slot \ InUse(pipe_table))
       IN  /\ pipe_table' = [pipe_table EXCEPT ![s] =
                                [read_node |-> rn, write_node |-> wn,
                                 read_refs |-> 1, write_refs |-> 1]]
           /\ used' = [used EXCEPT ![s] = 0]
    /\ IF Cardinality(FreeFds(p)) < 2
       THEN UNCHANGED fds
       ELSE LET rfd == Min(FreeFds(p))
                wfd == Min(FreeFds(p) \ {rfd})
            IN  fds' = [fds EXCEPT ![p][rfd] = rn, ![p][wfd] = wn]
    /\ UNCHANGED <<alive, leaked, call, loop, stackless>>

\* pipe_create with room for one node only: the struct is freed, the node is
\* not.
CreatePipeOneNode(p) ==
    /\ MayCall(p)
    /\ InUse(pipe_table) # Slot
    /\ Cardinality(FreeNodes) = 1
    /\ leaked' = leaked \cup FreeNodes
    /\ UNCHANGED <<alive, fds, pipe_table, used, call, loop, stackless>>

\* sys_open of /dev/console.
OpenConsole(p) ==
    /\ MayCall(p)
    /\ FreeFds(p) # {}
    /\ fds' = [fds EXCEPT ![p][Min(FreeFds(p))] = ConsoleRead]
    /\ pipe_table' = ForkFd(pipe_table, ConsoleRead)
    /\ UNCHANGED <<alive, used, leaked, call, loop, stackless>>

\* sys_close.
Close(p, f) ==
    /\ MayCall(p)
    /\ fds[p][f] # Null
    /\ fds' = [fds EXCEPT ![p][f] = Null]
    /\ pipe_table' = NotifyClose(pipe_table, fds[p][f])
    /\ UNCHANGED <<alive, used, leaked, call, loop, stackless>>

Dup2Uncounted(p, old, new) ==    \* mutant: the copy is not counted
    /\ MayCall(p)
    /\ fds[p][old] # Null /\ old # new
    /\ fds' = [fds EXCEPT ![p][new] = fds[p][old]]
    /\ pipe_table' = NotifyClose(pipe_table, fds[p][new])
    /\ UNCHANGED <<alive, used, leaked, call, loop, stackless>>

\* sys_dup2: what the new descriptor held is closed first.
Dup2(p, old, new) ==
    /\ MayCall(p)
    /\ fds[p][old] # Null /\ old # new
    /\ fds' = [fds EXCEPT ![p][new] = fds[p][old]]
    /\ pipe_table' = ForkFd(NotifyClose(pipe_table, fds[p][new]), fds[p][old])
    /\ UNCHANGED <<alive, used, leaked, call, loop, stackless>>

-----------------------------------------------------------------------------
(* Loops over the descriptors of a task with interrupts disabled.          *)

\* sys_fork begins by counting the descriptors the child will inherit.
BeginFork(p) ==
    /\ MayCall(p)
    /\ loop' = [op |-> "bump", proc |-> p, fd |-> 0]
    /\ UNCHANGED <<alive, fds, pipe_table, used, leaked, call, stackless>>

\* sys_kill or sys_exit_task: task_kill begins by closing every descriptor
\* of its victim, which may be blocked in a pipe.
BeginKill(victim) ==
    /\ loop = NoLoop
    /\ victim \in alive
    /\ \E p \in alive : MayCall(p)
    /\ loop' = [op |-> "close", proc |-> victim, fd |-> 0]
    /\ UNCHANGED <<alive, fds, pipe_table, used, leaked, call, stackless>>

LoopAt(op) == loop.op = op /\ loop.fd < NFd
LoopOver(op) == loop.op = op /\ loop.fd = NFd
LoopFd == fds[loop.proc][loop.fd]

LoopNext == loop' = [loop EXCEPT !.fd = @ + 1]

CloseStepKeepsCount ==       \* mutant: the kill does not notify the pipe
    /\ LoopAt("close")
    /\ LoopNext
    /\ fds' = [fds EXCEPT ![loop.proc][loop.fd] = Null]
    /\ UNCHANGED <<alive, pipe_table, used, leaked, call, stackless>>

CloseStep ==
    /\ LoopAt("close")
    /\ LoopNext
    /\ fds' = [fds EXCEPT ![loop.proc][loop.fd] = Null]
    /\ pipe_table' = NotifyClose(pipe_table, LoopFd)
    /\ UNCHANGED <<alive, used, leaked, call, stackless>>

\* The victim is gone; a new init starts with fresh descriptors.
EndKill ==
    /\ LoopOver("close")
    /\ IF loop.proc = Init
       THEN fds' = [fds EXCEPT ![Init] = StdFds] /\ UNCHANGED alive
       ELSE alive' = alive \ {loop.proc} /\ UNCHANGED fds
    /\ call' = [call EXCEPT ![loop.proc] = InUser]
    /\ loop' = NoLoop
    /\ UNCHANGED <<pipe_table, used, leaked, stackless>>

BumpStep ==
    /\ LoopAt("bump")
    /\ LoopNext
    /\ pipe_table' = ForkFd(pipe_table, LoopFd)
    /\ UNCHANGED <<alive, fds, used, leaked, call, stackless>>

\* task_fork copies the struct, descriptors and all.
ForkChild(c) ==
    /\ LoopOver("bump")
    /\ c \in Proc \ alive
    /\ alive' = alive \cup {c}
    /\ fds' = [fds EXCEPT ![c] = fds[loop.proc]]
    /\ loop' = NoLoop
    /\ UNCHANGED <<pipe_table, used, leaked, call, stackless>>

\* task_fork finds no memory for the struct: interrupts stay disabled.
ForkNoMemory ==
    /\ LoopOver("bump")
    /\ loop' = [loop EXCEPT !.op = "undo", !.fd = 0]
    /\ UNCHANGED <<alive, fds, pipe_table, used, leaked, call, stackless>>

UndoStep ==
    /\ LoopAt("undo")
    /\ LoopNext
    /\ pipe_table' = NotifyClose(pipe_table, LoopFd)
    /\ UNCHANGED <<alive, fds, used, leaked, call, stackless>>

EndUndo ==
    /\ LoopOver("undo")
    /\ loop' = NoLoop
    /\ UNCHANGED <<alive, fds, pipe_table, used, leaked, call, stackless>>

LoopStep == CloseStep \/ EndKill \/ BumpStep \/ UndoStep \/ EndUndo

-----------------------------------------------------------------------------
(* The undo loop of a fork that found no stack, with interrupts enabled:   *)
(* read_refs-- is a load and a store.                                      *)

\* Bound of the model: it happens once.
ForkNoStack ==
    /\ LoopOver("bump")
    /\ ~stackless
    /\ call' = [call EXCEPT ![loop.proc] = [op |-> "undo", fd |-> 0, held |-> Null]]
    /\ loop' = NoLoop
    /\ stackless' = TRUE
    /\ UNCHANGED <<alive, fds, pipe_table, used, leaked>>

Undoes(p) == loop = NoLoop /\ p \in alive /\ call[p].op = "undo"

UndoSkip(p) ==
    /\ Undoes(p)
    /\ IF call[p].fd = NFd
       THEN call' = [call EXCEPT ![p] = InUser]
       ELSE /\ Owners(pipe_table, fds[p][call[p].fd]) = {}
            /\ call' = [call EXCEPT ![p].fd = @ + 1, ![p].held = Null]
    /\ UNCHANGED <<alive, fds, pipe_table, used, leaked, loop, stackless>>

UndoLoad(p) ==
    /\ Undoes(p)
    /\ call[p].fd < NFd /\ call[p].held = Null
    /\ LET n == fds[p][call[p].fd]
       IN  \E s \in Owners(pipe_table, n) :
              call' = [call EXCEPT ![p].held =
                          IF n = pipe_table[s].read_node
                          THEN pipe_table[s].read_refs
                          ELSE pipe_table[s].write_refs]
    /\ UNCHANGED <<alive, fds, pipe_table, used, leaked, loop, stackless>>

UndoStore(p) ==
    /\ Undoes(p)
    /\ call[p].fd < NFd /\ call[p].held # Null
    /\ LET n == fds[p][call[p].fd]
           Stored(r) == Lowered(call[p].held)
       IN  \E s \in Owners(pipe_table, n) :
              pipe_table' = [pipe_table EXCEPT ![s] = Kept(Recounted(@, n, Stored))]
    /\ call' = [call EXCEPT ![p].fd = @ + 1, ![p].held = Null]
    /\ UNCHANGED <<alive, fds, used, leaked, loop, stackless>>

-----------------------------------------------------------------------------
(* read and write.  A call that returns at once without moving a byte      *)
(* changes nothing and is no step.                                         *)

Writers(s) == pipe_table[s].write_refs
Readers(s) == pipe_table[s].read_refs

Return(p) == call' = [call EXCEPT ![p] = InUser]

Sleep(p, op, s, len) ==
    call' = [call EXCEPT ![p] = [op |-> op, slot |-> s, len |-> len]]

\* The inner loop of pipe_read: it stops short when the buffer is empty.
CopyOut(s, len) ==
    /\ used[s] > 0
    /\ used' = [used EXCEPT ![s] = @ - Min({len, @})]

\* sys_read of a pipe that has bytes, or must be waited for.
Read(p, f, len) ==
    /\ MayCall(p)
    /\ \E s \in InUse(pipe_table) :
          /\ fds[p][f] = pipe_table[s].read_node
          /\ \/ CopyOut(s, len) /\ UNCHANGED call
             \/ /\ used[s] = 0 /\ Writers(s) # 0
                /\ Sleep(p, "read", s, len)
                /\ UNCHANGED used
    /\ UNCHANGED <<alive, fds, pipe_table, leaked, loop, stackless>>

Waits(p, op) == loop = NoLoop /\ p \in alive /\ call[p].op = op

\* The reader resumes and finds bytes.
ReadSome(p) ==
    /\ Waits(p, "read")
    /\ CopyOut(call[p].slot, call[p].len)
    /\ Return(p)
    /\ UNCHANGED <<alive, fds, pipe_table, leaked, loop, stackless>>

ReadEofUndrained(p) ==       \* mutant: does not look into the buffer first
    /\ Waits(p, "read")
    /\ Writers(call[p].slot) = 0
    /\ Return(p)
    /\ UNCHANGED <<alive, fds, pipe_table, used, leaked, loop, stackless>>

\* The reader resumes, and nobody can write any more: end of file.
ReadEof(p) ==
    /\ Waits(p, "read")
    /\ used[call[p].slot] = 0 /\ Writers(call[p].slot) = 0
    /\ Return(p)
    /\ UNCHANGED <<alive, fds, pipe_table, used, leaked, loop, stackless>>

\* pipe_free.
Room(s) == Capacity - used[s]

\* The inner loop of pipe_write: what does not fit waits.
CopyIn(p, s, len) ==
    LET n == Min({len, Room(s)})
    IN  /\ used' = [used EXCEPT ![s] = @ + n]
        /\ IF n = len THEN Return(p) ELSE Sleep(p, "write", s, len - n)

\* sys_write; without readers it fails at once.
Write(p, f, len) ==
    /\ MayCall(p)
    /\ \E s \in InUse(pipe_table) :
          /\ fds[p][f] = pipe_table[s].write_node
          /\ Readers(s) # 0
          /\ CopyIn(p, s, len)
    /\ UNCHANGED <<alive, fds, pipe_table, leaked, loop, stackless>>

\* The writer resumes and finds room; it does not ask for readers then.
WriteMore(p) ==
    /\ Waits(p, "write")
    /\ Room(call[p].slot) > 0
    /\ CopyIn(p, call[p].slot, call[p].len)
    /\ UNCHANGED <<alive, fds, pipe_table, leaked, loop, stackless>>

\* The buffer is full and nobody can read any more: broken pipe.
WriteBroken(p) ==
    /\ Waits(p, "write")
    /\ Room(call[p].slot) = 0 /\ Readers(call[p].slot) = 0
    /\ Return(p)
    /\ UNCHANGED <<alive, fds, pipe_table, used, leaked, loop, stackless>>

\* stdout_write_op: pipe_write_nb into the console drops what does not fit.
WriteStdout(p, f, len) ==
    /\ MayCall(p)
    /\ fds[p][f] = File
    /\ used' = [used EXCEPT ![ConsoleSlot] = Min({Capacity, @ + len})]
    /\ UNCHANGED <<alive, fds, pipe_table, leaked, call, loop, stackless>>

Resume(p) == ReadSome(p) \/ ReadEof(p) \/ WriteMore(p) \/ WriteBroken(p)

PipesNext ==
    \/ LoopStep
    \/ ForkNoMemory
    \/ ForkNoStack
    \/ \E c \in Proc : ForkChild(c)
    \/ \E p \in Proc :
          \/ \E rn, wn \in Node : CreatePipe(p, rn, wn)
          \/ CreatePipeOneNode(p)
          \/ OpenConsole(p)
          \/ \E f \in Fd : Close(p, f)
          \/ \E old, new \in Fd : Dup2(p, old, new)
          \/ BeginFork(p)
          \/ BeginKill(p)
          \/ UndoSkip(p) \/ UndoLoad(p) \/ UndoStore(p)
          \/ \E f \in Fd, len \in Length :
                Read(p, f, len) \/ Write(p, f, len) \/ WriteStdout(p, f, len)
          \/ Resume(p)

PipesSpec == PipesInit /\ [][PipesNext]_vars

\* The kernel's loops run on.  A blocked task is given the processor again and
\* again (QueuedTaskRuns in Tasks) and then repeats its test.
PipesFairness ==
    /\ WF_vars(LoopStep)
    /\ WF_vars(ForkNoMemory \/ ForkNoStack \/ \E c \in Proc : ForkChild(c))
    /\ \A p \in Proc : SF_vars(Resume(p))

FairPipesSpec == PipesSpec /\ PipesFairness

-----------------------------------------------------------------------------
(* What pipes promise.                                                     *)

Open(n) == {x \in Proc \X Fd : fds[x[1]][x[2]] = n}

\* References counted for a child that does not exist yet or not any more.
Promised(n) ==
    IF loop.op = "bump" THEN {f \in 0 .. loop.fd - 1 : fds[loop.proc][f] = n}
    ELSE IF loop.op = "undo" THEN {f \in loop.fd .. NFd - 1 : fds[loop.proc][f] = n}
    ELSE {}

OfKernel(s) == IF s = ConsoleSlot THEN 1 ELSE 0

Counted(s, n) == OfKernel(s) + Cardinality(Open(n)) + Cardinality(Promised(n))

\* The counts of a slot are those of its open descriptors (pipe.h:16-17).
CountsMatch(s) ==
    /\ pipe_table[s].read_refs = Counted(s, pipe_table[s].read_node)
    /\ pipe_table[s].write_refs = Counted(s, pipe_table[s].write_node)

\* pipe.h:16-17 through pipe, open, dup2, fork, a fork that fails for want of
\* memory, close and kill: each count is the number of descriptors open on its
\* end.  Not for a pipe without any descriptor, which a failed sys_pipe leaves,
\* and not after a fork that failed for want of a stack.
RefsMatchFds ==
    ~stackless =>
        \A s \in InUse(pipe_table) :
            (s = ConsoleSlot \/ \E n \in EndsOf(s) : Open(n) # {}) => CountsMatch(s)

\* No descriptor outlives its pipe (pipe.c:149-157, 167-175): the node behind
\* it is not back in the pool, where it would become another pipe's.
FdsResolve ==
    ~stackless =>
        \A p \in Proc, f \in Fd :
            fds[p][f] \in Node => Owners(pipe_table, fds[p][f]) # {}

\* pipe.c:62, 85: a blocked call keeps using the struct it found on entry.  Its
\* pipe stays, and with it the caller's own end, until the call is over or its
\* caller is being killed.
BlockedCallKeepsPipe ==
    ~stackless =>
        \A p \in Proc :
            call[p].op \in {"read", "write"} /\ ~(loop.op = "close" /\ loop.proc = p) =>
                LET e == pipe_table[call[p].slot]
                    n == IF call[p].op = "read" THEN e.read_node ELSE e.write_node
                IN  n # Null /\ \E f \in Fd : fds[p][f] = n

\* pipe.c:6-8: a blocked reader is told of the end of the file only when the
\* pipe is drained and no task can write to it any more.
EofMeansNoWriter ==
    [][\A p \in Proc :
          LET s == call[p].slot
          IN  /\ ~stackless /\ call[p].op = "read"
              /\ call'[p] = InUser /\ p \in alive' /\ used' = used /\ loop = NoLoop
              => used[s] = 0 /\ Open(pipe_table[s].write_node) = {}]_vars

\* pipe.c:9-10: a blocked writer is told of a broken pipe only when no task
\* can read from it any more.
BrokenMeansNoReader ==
    [][\A p \in Proc :
          LET s == call[p].slot
          IN  /\ ~stackless /\ call[p].op = "write"
              /\ call'[p] = InUser /\ p \in alive' /\ used' = used /\ loop = NoLoop
              => Open(pipe_table[s].read_node) = {}]_vars

\* pipe.c:6-10: a task that waits for a pipe whose other end nobody holds any
\* more does not wait for ever, however that end was closed.
HangupIsNoticed ==
    \A p \in Proc :
        LET s == call[p].slot
            other == IF call[p].op = "read" THEN pipe_table[s].write_node
                                            ELSE pipe_table[s].read_node
        IN  (/\ ~stackless
             /\ call[p].op \in {"read", "write"} /\ s # ConsoleSlot
             /\ Open(other) = {})
            ~> call[p].op \notin {"read", "write"}

=============================================================================
