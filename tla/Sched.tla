------------------------------- MODULE Sched -------------------------------
(***************************************************************************)
(* The scheduler of src/kernel/sched.c together with every place in        *)
(* src/kernel/task.c and src/kernel/syscall.c that touches the queue, the  *)
(* priorities or running_task: the timer tick, the creation of a task, the *)
(* suspension of a waiter, and the three steps of task_kill that concern   *)
(* the queue.  What makes a task fork, wait or die is the business of the  *)
(* module Tasks, which implements this one; here those events come in any  *)
(* order the guards admit.                                                 *)
(*                                                                         *)
(* irq is the interrupt flag: every gate of this kernel clears it, so a    *)
(* handler is one step, except task_kill, whose steps are told apart       *)
(* because it stops in the middle when the task it kills is the caller.    *)
(***************************************************************************)
EXTENDS SchedQueue

VARIABLES sched_queue,    \* the queue, its head first
          running_task,
          prio_s,         \* task->prio_s
          prio_d,         \* task->prio_d
          irq             \* EFLAGS.IF

schedVars == <<sched_queue, running_task, prio_s, prio_d, irq>>

SchedTypeOK ==
    /\ sched_queue \in Seq(Task)
    /\ running_task \in Task
    /\ prio_s \in [Task -> LevelIdle .. MaxPrio]
    /\ prio_d \in [Task -> LevelIdle .. MaxPrio]
    /\ irq \in BOOLEAN

\* init_task: only the idle task, still on the boot stack, interrupts off.
SchedInit ==
    /\ sched_queue = <<Idle>>
    /\ running_task = Idle
    /\ prio_s = [t \in Task |-> IF t = Idle THEN LevelIdle ELSE LevelSusp]
    /\ prio_d = prio_s
    /\ irq = FALSE

\* sti, or the iret that ends a handler.  The running task is in the queue
\* again whenever the kernel gets there.
EnableInterrupts ==
    /\ ~irq
    /\ running_task \in Queued(sched_queue)
    /\ irq' = TRUE
    /\ UNCHANGED <<sched_queue, running_task, prio_s, prio_d>>

\* sched(): when only idle can be picked all other tasks start a new cycle
\* and the choice is made again; a picked task other than idle is aged.
SchedTick ==
    /\ irq
    /\ LET first  == Pick(sched_queue, prio_d, running_task)
           fresh  == IF first = Idle
                     THEN ResetPriorities(sched_queue, prio_s, prio_d)
                     ELSE prio_d
           picked == Pick(sched_queue, fresh, running_task)
       IN  /\ running_task' = picked
           /\ prio_d' = Aged(fresh, picked)
    /\ UNCHANGED <<sched_queue, prio_s, irq>>

\* create_task, create_user_task and create_elf_task leave interrupts off.
CreateTask(t, p) ==
    /\ t \notin Queued(sched_queue)
    /\ prio_s' = [prio_s EXCEPT ![t] = p]
    /\ prio_d' = [prio_d EXCEPT ![t] = p]
    /\ sched_queue' = InsertSorted(sched_queue, prio_s, t, p)
    /\ irq' = FALSE
    /\ UNCHANGED running_task

\* The queue's part of task_fork: the child is a copy of the running task,
\* its current dynamic priority included.  idle makes no system call.
ForkTask(t) ==
    /\ irq
    /\ running_task # Idle
    /\ t \notin Queued(sched_queue)
    /\ prio_s' = [prio_s EXCEPT ![t] = prio_s[running_task]]
    /\ prio_d' = [prio_d EXCEPT ![t] = prio_d[running_task]]
    /\ sched_queue' = InsertSorted(sched_queue, prio_s, t, prio_s[running_task])
    /\ UNCHANGED <<running_task, irq>>

\* sys_waitpid suspends its caller, which still runs until the next tick.
SuspendRunning ==
    /\ irq
    /\ running_task # Idle
    /\ prio_d' = [prio_d EXCEPT ![running_task] = LevelSusp]
    /\ UNCHANGED <<sched_queue, running_task, prio_s, irq>>

\* task_kill, first part: cli, and the victim leaves the queue.
UnlinkTask(t) ==
    /\ t \in Queued(sched_queue) \ {Idle}
    /\ sched_queue' = Unlink(sched_queue, t)
    /\ irq' = FALSE
    /\ UNCHANGED <<running_task, prio_s, prio_d>>

\* task_kill, second part: those who wait for the victim are made runnable.
WakeTasks(W) ==
    /\ ~irq
    /\ W \subseteq Queued(sched_queue) \ {Idle}
    /\ prio_d' = [t \in Task |-> IF t \in W THEN prio_s[t] ELSE prio_d[t]]
    /\ UNCHANGED <<sched_queue, running_task, prio_s, irq>>

\* task_kill, last part, when the victim was running: no ageing, and the
\* iret of the successor enables interrupts again.
SwitchFromDead ==
    /\ ~irq
    /\ LET awake == {i \in 1 .. Len(sched_queue) :
                        prio_d[sched_queue[i]] # LevelSusp}
       IN  IF awake = {}
           THEN /\ prio_d' = [t \in Task |->
                                IF t \in Queued(sched_queue) \ {Idle}
                                THEN prio_s[t] ELSE prio_d[t]]
                /\ running_task' = Head(sched_queue)
           ELSE /\ running_task' = sched_queue[Min(awake)]
                /\ UNCHANGED prio_d
    /\ irq' = TRUE
    /\ UNCHANGED <<sched_queue, prio_s>>

SchedNext ==
    \/ EnableInterrupts
    \/ SchedTick
    \/ \E t \in Task, p \in Prio : CreateTask(t, p)
    \/ \E t \in Task : ForkTask(t)
    \/ SuspendRunning
    \/ \E t \in Task : UnlinkTask(t)
    \/ \E W \in SUBSET Task : WakeTasks(W)
    \/ SwitchFromDead

SchedSpec == SchedInit /\ [][SchedNext]_schedVars

-----------------------------------------------------------------------------
(* The queue.                                                              *)

QueueInjective ==
    \A i, j \in 1 .. Len(sched_queue) : sched_queue[i] = sched_queue[j] => i = j

QueueSorted ==
    \A i, j \in 1 .. Len(sched_queue) :
        i < j => prio_s[sched_queue[i]] >= prio_s[sched_queue[j]]

IdleLast ==
    /\ Len(sched_queue) > 0
    /\ sched_queue[Len(sched_queue)] = Idle

\* The dynamic priority of a queued task stays between suspension and its
\* static priority; idle's two priorities are never touched.
PrioritiesInRange ==
    \A t \in Queued(sched_queue) :
        IF t = Idle
        THEN prio_s[t] = LevelIdle /\ prio_d[t] = LevelIdle
        ELSE prio_s[t] \in Prio /\ prio_d[t] \in LevelSusp .. prio_s[t]

\* A task that can be interrupted is linked: the next tick finds it in its
\* tie group, and a kill by pid finds it in the queue (syscall.c:185-196, task.c:508-515).
RunningQueued == irq => running_task \in Queued(sched_queue)

\* The list that insert_task_before and the unlinking of task_kill maintain:
\* no task twice, static priorities in descending order, idle at the tail,
\* where sched.c:190 and reset_all_priorities expect it.
QueueInv ==
    /\ QueueInjective
    /\ QueueSorted
    /\ IdleLast
    /\ PrioritiesInRange
    /\ RunningQueued

\* sched.c:188-193: a tick gives the processor to idle exactly when there is
\* no other task in the queue, however many of them are suspended.
TickIdlesOnlyAlone ==
    [][SchedTick => (running_task' = Idle <=> sched_queue = <<Idle>>)]_schedVars

\* sched.c:157-160: a tick never gives the processor to a suspended task
\* unless it starts a new cycle, and then nothing is left at level 0 but what
\* the tick itself aged there.
TickSkipsSuspended ==
    [][SchedTick /\ prio_d[running_task'] = LevelSusp =>
          \A t \in Queued(sched_queue) \ {Idle, running_task'} :
              /\ prio_d[t] = LevelSusp
              /\ prio_d'[t] = prio_s[t]]_schedVars

=============================================================================
