------------------------------- MODULE Tasks -------------------------------
(***************************************************************************)
(* The life of tasks: task_fork, task_kill and respawn_init of             *)
(* src/kernel/task.c, and the system calls of src/kernel/syscall.c that    *)
(* create, await and end tasks.  Every action that touches the scheduler   *)
(* does so through an action of Sched, which this module implements.       *)
(*                                                                         *)
(* A system call runs with interrupts disabled and is one step.  task_kill *)
(* is not: it calls itself for every child, and it does not return when    *)
(* the victim is the running task.  kills is the stack of its activations, *)
(* innermost first; all other steps wait until it is empty.                *)
(***************************************************************************)
EXTENDS Sched

CONSTANTS Init,          \* &task_init, the one struct that is used again
          InitPrio,      \* the priority spawn_init gives it
          MaxChildren,   \* length of the array children[] in task_kill
          Status,        \* what tasks pass to SYS_EXIT_TASK
          NoExit,        \* no status
          MaxPid         \* bound of the model: forks and respawns stop here

ASSUME InitAssumption == Init \in Task \ {Idle}
ASSUME InitPrioAssumption == InitPrio \in Prio
ASSUME MaxChildrenAssumption == MaxChildren \in Nat \ {0}
ASSUME StatusAssumption == 0 \in Status /\ NoExit \notin Status
ASSUME MaxPidAssumption == MaxPid \in Nat \ {0}

PidInit == 1
NoTask  == 0     \* ppid of a task without parent; a local variable unset
NotWaiting == -1

VARIABLES pid, ppid,     \* task->pid; 0 for a struct never allocated
          wait_pid, wait_done, exit_status,
          target,        \* sys_waitpid's target_pid while it loops, else 0
          last_pid,
          stack_base,    \* names the kernel stack by the pid it was made for
          kstacks,       \* the kernel stacks allocated and not freed
          kills,         \* activations of task_kill, innermost first
          exited         \* history: what a task passed to SYS_EXIT_TASK and no
                         \* waitpid has returned yet

procVars == <<pid, ppid, wait_pid, wait_done, exit_status, target>>
killVars == <<last_pid, stack_base, kstacks, kills>>
vars == <<schedVars, procVars, killVars, exited>>

TaskInit ==
    /\ SchedInit
    /\ pid = [t \in Task |-> 0]
    /\ ppid = [t \in Task |-> NoTask]
    /\ wait_pid = [t \in Task |-> NotWaiting]
    /\ wait_done = [t \in Task |-> FALSE]
    /\ exit_status = [t \in Task |-> 0]
    /\ target = [t \in Task |-> 0]
    /\ last_pid = 0
    /\ stack_base = [t \in Task |-> 0]
    /\ kstacks = {}
    /\ kills = <<>>
    /\ exited = [t \in Task |-> NoExit]


-----------------------------------------------------------------------------
(* Creation.                                                               *)

\* A struct that kmalloc has never handed out; task_kill does not kfree.
Unallocated == {t \in Task \ {Idle, Init} : pid[t] = 0}

\* A fresh process record, as create_elf_task and task_fork fill it in.
NewTask(t, thePid, parent, status) ==
    /\ pid' = [pid EXCEPT ![t] = thePid]
    /\ ppid' = [ppid EXCEPT ![t] = parent]
    /\ wait_pid' = [wait_pid EXCEPT ![t] = NotWaiting]
    /\ wait_done' = [wait_done EXCEPT ![t] = FALSE]
    /\ exit_status' = [exit_status EXCEPT ![t] = status]
    /\ target' = [target EXCEPT ![t] = 0]
    /\ exited' = [exited EXCEPT ![t] = NoExit]
    /\ last_pid' = last_pid + 1
    /\ stack_base' = [stack_base EXCEPT ![t] = last_pid + 1]
    /\ kstacks' = kstacks \cup {last_pid + 1}

\* memset and create_elf_task on &task_init, whose pid is then overwritten.
CreateInit ==
    /\ CreateTask(Init, InitPrio)
    /\ NewTask(Init, PidInit, NoTask, 0)

SpawnInit ==
    /\ pid[Init] = 0
    /\ CreateInit
    /\ UNCHANGED kills

\* kmain enables interrupts when init is in the queue.
Boot ==
    /\ kills = <<>>
    /\ pid[Init] # 0
    /\ EnableInterrupts
    /\ UNCHANGED <<procVars, killVars, exited>>

Tick ==
    /\ SchedTick
    /\ UNCHANGED <<procVars, killVars, exited>>

\* The running task executes user code and may trap.
InUserMode == irq /\ running_task # Idle /\ target[running_task] = 0

\* sys_fork; the child inherits exit_status with everything else.
Fork(c) ==
    /\ InUserMode
    /\ last_pid < MaxPid
    /\ c \in Unallocated
    /\ ForkTask(c)
    /\ NewTask(c, last_pid + 1, pid[running_task], exit_status[running_task])
    /\ UNCHANGED kills

\* task_fork without room for a kernel stack: the struct goes back, the pid
\* stays consumed.
ForkNoStack ==
    /\ InUserMode
    /\ last_pid < MaxPid
    /\ last_pid' = last_pid + 1
    /\ UNCHANGED <<schedVars, procVars, stack_base, kstacks, kills, exited>>

-----------------------------------------------------------------------------
(* sys_waitpid.                                                            *)

IsChildOf(c, t) == c \in Queued(sched_queue) /\ ppid[c] = pid[t]

\* The target is a child in the queue: suspend, and enter the hlt loop.
WaitpidBlock(c) ==
    /\ InUserMode
    /\ IsChildOf(c, running_task)
    /\ SuspendRunning
    /\ wait_pid' = [wait_pid EXCEPT ![running_task] = pid[c]]
    /\ wait_done' = [wait_done EXCEPT ![running_task] = FALSE]
    /\ target' = [target EXCEPT ![running_task] = pid[c]]
    /\ UNCHANGED <<pid, ppid, exit_status, killVars, exited>>

WaitpidReturnOnPid(t) ==     \* mutant: tests the field the waker has cleared
    /\ irq /\ t = running_task /\ target[t] # 0
    /\ wait_pid[t] = target[t] /\ wait_done[t]
    /\ target' = [target EXCEPT ![t] = 0]
    /\ UNCHANGED <<schedVars, pid, ppid, wait_pid, wait_done, exit_status, killVars, exited>>

\* The loop is left by the running task once wait_done is set; the status it
\* stores is no longer uncollected.
WaitpidReturn(t) ==
    /\ irq
    /\ t = running_task
    /\ target[t] # 0
    /\ wait_done[t]
    /\ wait_done' = [wait_done EXCEPT ![t] = FALSE]
    /\ target' = [target EXCEPT ![t] = 0]
    /\ exited' = [c \in Task |-> IF ppid[c] = pid[t] /\ pid[c] = target[t]
                                 THEN NoExit ELSE exited[c]]
    /\ UNCHANGED <<schedVars, pid, ppid, wait_pid, exit_status, killVars>>

-----------------------------------------------------------------------------
(* task_kill.                                                              *)

\* Entry of task_kill(t), up to the destruction of its page directory.
EnterKill(t, rest) ==
    /\ UnlinkTask(t)
    /\ kills' = <<[victim |-> t, pid |-> pid[t], stack |-> stack_base[t],
                   at |-> IF t = Init THEN "respawn" ELSE "wake",
                   kids |-> <<>>]>> \o rest
    /\ UNCHANGED <<last_pid, stack_base, kstacks>>

\* The bound of the model leaves a pid for the init that is respawned.
Killable(t) == t = Init => last_pid < MaxPid

\* sys_exit_task.
Exit(status) ==
    /\ InUserMode
    /\ Killable(running_task)
    /\ exit_status' = [exit_status EXCEPT ![running_task] = status]
    /\ exited' = [exited EXCEPT ![running_task] = status]
    /\ EnterKill(running_task, <<>>)
    /\ UNCHANGED <<pid, ppid, wait_pid, wait_done, target>>

\* sys_kill of any queued task but idle, the caller included.
Kill(t) ==
    /\ InUserMode
    /\ Killable(t)
    /\ EnterKill(t, <<>>)
    /\ UNCHANGED <<procVars, exited>>

At(where) == kills # <<>> /\ Head(kills).at = where

Advance(where, kids) ==
    kills' = <<[Head(kills) EXCEPT !.at = where, !.kids = kids]>> \o Tail(kills)

\* respawn_init from within task_kill(&task_init).
RespawnInit ==
    /\ At("respawn")
    /\ CreateInit
    /\ Advance("wake", <<>>)

\* The elements of q that are in T, in their order and no more than n: a loop
\* that collects them in an array of length n.
FirstOf(q, T, n) ==
    LET upto[i \in 0 .. Len(q)] ==
            IF i = 0 THEN <<>>
            ELSE LET s == upto[i - 1]
                 IN  IF q[i] \in T /\ Len(s) < n THEN Append(s, q[i]) ELSE s
    IN  upto[Len(q)]

\* The children in the order of the queue.
Collected(p) == FirstOf(sched_queue, {t \in Task : ppid[t] = p}, MaxChildren)

ChildrenOthers(p) ==         \* mutant: forgets self_child
    FirstOf(Collected(p), Task \ {running_task}, MaxChildren)

\* The children task_kill collects, the running task moved to the end.
Children(p) ==
    FirstOf(Collected(p), Task \ {running_task}, MaxChildren)
        \o FirstOf(Collected(p), {running_task}, MaxChildren)

WaitersOfOthers(k) ==        \* mutant: wakes after the point of no return
    {t \in Queued(sched_queue) : wait_pid[t] = k.pid /\ k.victim # running_task}

Waiters(k) == {t \in Queued(sched_queue) : wait_pid[t] = k.pid}

StatusLost(k) == 0                       \* mutant: not copied

\* The status is read from the victim's struct, which for init is the
\* respawned one.
VictimStatus(k) == exit_status[k.victim]

\* Wake whoever waits for the victim, and collect its children.
WakeWaiters ==
    /\ At("wake")
    /\ LET k == Head(kills)
           W == Waiters(k)
       IN  /\ WakeTasks(W)
           /\ wait_pid' = [t \in Task |-> IF t \in W THEN NotWaiting ELSE wait_pid[t]]
           /\ wait_done' = [t \in Task |-> t \in W \/ wait_done[t]]
           /\ exit_status' = [t \in Task |-> IF t \in W THEN VictimStatus(k)
                                                        ELSE exit_status[t]]
           /\ Advance("children", Children(k.pid))
    /\ UNCHANGED <<pid, ppid, target, last_pid, stack_base, kstacks, exited>>

\* The recursive call for the next child.
KillChild ==
    /\ At("children")
    /\ Head(kills).kids # <<>>
    /\ LET k == Head(kills)
       IN  EnterKill(Head(k.kids), <<[k EXCEPT !.kids = Tail(@)]>> \o Tail(kills))
    /\ UNCHANGED <<procVars, exited>>

ChildrenRescan ==            \* mutant: looks for children again and again
    /\ At("children")
    /\ Head(kills).kids = <<>>
    /\ Advance("children", Children(Head(kills).pid))
    /\ UNCHANGED <<schedVars, procVars, last_pid, stack_base, kstacks, exited>>

ChildrenDone ==
    /\ At("children")
    /\ Head(kills).kids = <<>>
    /\ Advance("end", <<>>)
    /\ UNCHANGED <<schedVars, procVars, last_pid, stack_base, kstacks, exited>>

StackNow(k) == stack_base[k.victim]          \* mutant: for init, the new one

\* dead_stack_base was saved before respawn_init wrote over the struct.
DeadStack(k) == k.stack

ResumeAnyway ==              \* mutant: sti within the cascade
    irq' = TRUE /\ UNCHANGED <<sched_queue, running_task, prio_s, prio_d>>

\* Only sys_kill, to which the outermost activation returns, does sti.
Resume == IF kills' = <<>> THEN EnableInterrupts ELSE UNCHANGED schedVars

\* The victim is not the running task: free its stack and return, to the
\* loop over the children of the caller or to sys_kill, which does sti.
KillReturn ==
    /\ At("end")
    /\ Head(kills).victim # running_task
    /\ kstacks' = kstacks \ {DeadStack(Head(kills))}
    /\ kills' = Tail(kills)
    /\ Resume
    /\ UNCHANGED <<procVars, last_pid, stack_base, exited>>

\* The victim is the running task: switch to another one for good.  The
\* outer activations live on the stack that is left behind and freed.
KillSwitch ==
    /\ At("end")
    /\ Head(kills).victim = running_task
    /\ SwitchFromDead
    /\ kstacks' = kstacks \ {DeadStack(Head(kills))}
    /\ kills' = <<>>
    /\ UNCHANGED <<procVars, last_pid, stack_base, exited>>

KillStep ==
    \/ RespawnInit
    \/ WakeWaiters
    \/ KillChild
    \/ ChildrenDone
    \/ KillReturn
    \/ KillSwitch

TaskNext ==
    \/ SpawnInit
    \/ Boot
    \/ Tick
    \/ \E c \in Task : Fork(c)
    \/ ForkNoStack
    \/ \E c \in Task : WaitpidBlock(c)
    \/ \E t \in Task : WaitpidReturn(t)
    \/ \E status \in Status : Exit(status)
    \/ \E t \in Task : Kill(t)
    \/ KillStep

\* The timer never stops, the code of task_kill runs on, and a task that
\* is resumed in the hlt loop of waitpid reaches its test now and then before
\* the next tick, which is 1 ms away (hence strong fairness: a tick can hit the
\* few instructions between hlt and cli, but not for ever).
Fairness ==
    /\ WF_vars(SpawnInit \/ Boot)
    /\ WF_vars(Tick)
    /\ WF_vars(KillStep)
    /\ \A t \in Task : SF_vars(WaitpidReturn(t))

TaskSpec == TaskInit /\ [][TaskNext]_vars

FairTaskSpec == TaskSpec /\ Fairness

-----------------------------------------------------------------------------
(* What the task system promises.                                          *)

\* Whatever tasks do, the scheduler's state changes as Sched says: none of the
\* calls in task.c and syscall.c touches the queue or a priority on its own.
ImplementsSched == SchedSpec

\* No lost wake-up (syscall.c:393-426 against task.c:543-553): a task in the
\* hlt loop of waitpid has been woken, or its child is still there to do it.
NoLostWakeup ==
    irq => \A t \in Queued(sched_queue) :
              target[t] # 0 /\ ~wait_done[t] =>
                  /\ wait_pid[t] = target[t]
                  /\ \E c \in Queued(sched_queue) :
                        pid[c] = target[t] /\ ppid[c] = pid[t]

\* task.c:526-630: every queued task owns a kernel stack of its own that is
\* allocated, whatever cascade freed stacks and respawned init around it; and the
\* activation of task_kill that gives up the processor runs on the stack of the
\* running task, which nothing has freed before (task.c:602-612).
StacksOwned ==
    /\ \A t \in Queued(sched_queue) \ {Idle} :
          /\ stack_base[t] \in kstacks
          /\ \A u \in Queued(sched_queue) \ {t} : stack_base[u] # stack_base[t]
    /\ kills # <<>> => stack_base[running_task] \in kstacks

\* task.c:555-573: when an activation of task_kill is over, no child of its
\* victim is left.
VictimLeavesNoChild ==
    [][KillReturn \/ KillSwitch =>
          \A t \in Queued(sched_queue') : ppid[t] # Head(kills).pid]_vars

\* task.c:549 and syscall.c:428-431: what waitpid stores for a child that
\* called SYS_EXIT_TASK is the status it passed.
ExitStatusDelivered ==
    [][\A t, c \in Task :
          /\ WaitpidReturn(t)
          /\ pid[c] = target[t] /\ ppid[c] = pid[t] /\ exited[c] # NoExit
          => exit_status[t] = exited[c]]_vars

\* The kill cascade ends, and with it the time interrupts are disabled.
CascadeEnds == kills # <<>> ~> irq

\* sched.c:19-26 for the tasks of the running system, suspended waiters and
\* all: whoever is in the queue gets the processor, unless it dies first.
QueuedTaskRuns ==
    \A t \in Task \ {Idle} :
        t \in Queued(sched_queue) ~>
            (running_task = t \/ t \notin Queued(sched_queue))

\* A waiter that was woken returns from waitpid, unless it dies first.
WokenWaiterReturns ==
    \A t \in Task :
        target[t] # 0 /\ wait_done[t] ~>
            (target[t] = 0 \/ t \notin Queued(sched_queue))

=============================================================================
