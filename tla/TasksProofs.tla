---------------------------- MODULE TasksProofs ----------------------------
(***************************************************************************)
(* Proofs about Tasks, for every set of tasks and every value of its       *)
(* constants.  It implements Sched, and so inherits what SchedProofs       *)
(* shows; kernel stacks are owned by one task each, no wake-up is lost,    *)
(* waitpid stores the status its child has passed, and a victim leaves no  *)
(* child.  What makes them inductive is what the activations of task_kill  *)
(* hold while they are under way: the stack they will free, the pid whose  *)
(* waiters they have still to wake, and the children still to be killed.   *)
(***************************************************************************)
EXTENDS Tasks, SchedProofs, FiniteSetTheorems

-----------------------------------------------------------------------------
(* Tasks implements Sched.                                                 *)

\* Every entry of task_kill unlinks a task of the queue.
LEMMA EnterKillImplements ==
    ASSUME SchedInv, NEW t, NEW rest, EnterKill(t, rest)
    PROVE  SchedNext
<1>1. UnlinkTask(t)
  BY DEF EnterKill
<1>2. t \in Task
  BY <1>1, QueuedAreTasks DEF SchedInv, SchedTypeOK, UnlinkTask
<1>. QED
  BY <1>1, <1>2 DEF SchedNext

\* Every step of a cascade is a step of the scheduler, or none of its business.
LEMMA KillStepImplements ==
    ASSUME SchedInv, KillStep
    PROVE  [SchedNext]_schedVars
<1>1. CASE RespawnInit
  BY <1>1, InitAssumption, InitPrioAssumption DEF RespawnInit, CreateInit, SchedNext
<1>2. CASE WakeWaiters
  <2>1. PICK W : WakeTasks(W)
    BY <1>2 DEF WakeWaiters
  <2>2. W \in SUBSET Task
    BY <2>1, QueuedAreTasks DEF SchedInv, SchedTypeOK, WakeTasks
  <2>. QED
    BY <2>1, <2>2 DEF SchedNext
<1>3. CASE KillChild
  <2>1. PICK t, rest : EnterKill(t, rest)
    BY <1>3 DEF KillChild
  <2>. QED
    BY <2>1, EnterKillImplements
<1>4. CASE ChildrenDone
  BY <1>4 DEF ChildrenDone
<1>5. CASE KillReturn
  BY <1>5 DEF KillReturn, Resume, SchedNext
<1>6. CASE KillSwitch
  BY <1>6 DEF KillSwitch, SchedNext
<1>. QED
  BY <1>1, <1>2, <1>3, <1>4, <1>5, <1>6 DEF KillStep

\* Every step of the task system is a step of the scheduler or none of its own.
LEMMA TaskStepImplements ==
    ASSUME SchedInv, [TaskNext]_vars
    PROVE  [SchedNext]_schedVars
<1>1. CASE SpawnInit
  BY <1>1, InitAssumption, InitPrioAssumption DEF SpawnInit, CreateInit, SchedNext
<1>2. CASE Boot
  BY <1>2 DEF Boot, SchedNext
<1>3. CASE Tick
  BY <1>3 DEF Tick, SchedNext
<1>4. ASSUME NEW c \in Task, Fork(c) PROVE SchedNext
  BY <1>4 DEF Fork, SchedNext
<1>5. CASE ForkNoStack
  BY <1>5 DEF ForkNoStack
<1>6. ASSUME NEW c \in Task, WaitpidBlock(c) PROVE SchedNext
  BY <1>6 DEF WaitpidBlock, SchedNext
<1>7. ASSUME NEW t \in Task, WaitpidReturn(t) PROVE UNCHANGED schedVars
  BY <1>7 DEF WaitpidReturn
<1>8. ASSUME NEW status \in Status, Exit(status) PROVE SchedNext
  BY <1>8, EnterKillImplements DEF Exit
<1>9. ASSUME NEW t \in Task, Kill(t) PROVE SchedNext
  BY <1>9, EnterKillImplements DEF Kill
<1>10. CASE KillStep
  BY <1>10, KillStepImplements
<1>11. CASE UNCHANGED vars
  BY <1>11 DEF vars
<1>. QED
  BY <1>1, <1>2, <1>3, <1>4, <1>5, <1>6, <1>7, <1>8, <1>9, <1>10, <1>11 DEF TaskNext

\* The scheduler's inductive invariant carries over to the task system.
LEMMA TaskSchedInv == TaskSpec => []SchedInv
<1>1. TaskInit => SchedInv
  BY SchedInitInv DEF TaskInit
<1>2. SchedInv /\ [TaskNext]_vars => SchedInv'
  BY TaskStepImplements, SchedNextInv
<1>. QED
  BY <1>1, <1>2, PTL DEF TaskSpec

\* task.c and syscall.c change the queue, the priorities and the running task
\* only in the ways Sched allows.
THEOREM TasksImplementSched == TaskSpec => ImplementsSched
<1>1. TaskInit => SchedInit
  BY DEF TaskInit
<1>2. SchedInv /\ [TaskNext]_vars => [SchedNext]_schedVars
  BY TaskStepImplements
<1>. QED
  BY <1>1, <1>2, TaskSchedInv, PTL DEF TaskSpec, SchedSpec, ImplementsSched

\* The queue stays in order through every cascade of kills.
THEOREM TasksQueueCorrect == TaskSpec => []QueueInv
BY TasksImplementSched, QueueCorrect, PTL DEF ImplementsSched

-----------------------------------------------------------------------------
(* The invariant.                                                          *)

Live == Queued(sched_queue) \ {Idle}

Active == 1 .. Len(kills)

\* A sequence, whatever its elements are.
IsStack(s) == \E S : s \in Seq(S)

IsActivation(k) ==
    k = [victim |-> k.victim, pid |-> k.pid, stack |-> k.stack, at |-> k.at, kids |-> k.kids]

LifeTypes ==
    /\ pid \in [Task -> Nat] /\ ppid \in [Task -> Nat]
    /\ wait_pid \in [Task -> Int] /\ wait_done \in [Task -> BOOLEAN]
    /\ target \in [Task -> Nat]
    /\ last_pid \in Nat
    /\ stack_base \in [Task -> Nat]
    /\ \A s \in kstacks : s \in Nat \ {0} /\ s <= last_pid

\* Only the innermost activation is not in its loop over the children; it
\* runs with interrupts disabled, in the context of a task.
CascadeOK ==
    /\ IsStack(kills)
    /\ \A i \in Active : IsActivation(kills[i])
    /\ \A i \in Active : i # 1 => kills[i].at = "children"
    /\ kills # <<>> => ~irq /\ running_task # Idle /\ pid[Init] # 0
    /\ At("respawn") => Head(kills).victim = Init /\ Init \notin Queued(sched_queue)
    /\ pid[Init] = 0 => ~irq

PidsOK ==
    /\ \A t \in Live : pid[t] # 0
    /\ pid[Idle] = 0 /\ target[Idle] = 0 /\ ppid[Idle] = NoTask
    /\ ppid[Init] = NoTask /\ stack_base[Idle] = 0

\* Live tasks and activations hold stacks, and no two of them the same.
StacksHeld ==
    /\ \A t \in Live : stack_base[t] \in kstacks
    /\ \A t, u \in Live : stack_base[t] = stack_base[u] => t = u
    /\ \A i \in Active : kills[i].stack \in kstacks
    /\ \A i, j \in Active : kills[i].stack = kills[j].stack => i = j
    /\ \A t \in Live, i \in Active : stack_base[t] # kills[i].stack
    /\ kills # <<>> =>
          \/ running_task \in Live
          \/ \E i \in Active : kills[i].victim = running_task
                               /\ kills[i].stack = stack_base[running_task]

\* Whoever waits is going to be woken: by its child's death, or by the
\* activation that is about to look for waiters.
WaitersCovered ==
    \A t \in Live : target[t] # 0 /\ ~wait_done[t] =>
        /\ wait_pid[t] = target[t]
        /\ \/ \E c \in Live : pid[c] = target[t] /\ ppid[c] = pid[t]
           \/ /\ At("respawn") \/ At("wake")
              /\ Head(kills).pid = target[t]

LifeOK == LifeTypes /\ CascadeOK /\ PidsOK /\ StacksHeld /\ WaitersCovered

-----------------------------------------------------------------------------
(* Stacks and the queue.                                                   *)

Pushed(x, s) == <<x>> \o s

\* An element in front of a stack.
LEMMA PushedStack ==
    ASSUME NEW s, IsStack(s), NEW x
    PROVE  /\ IsStack(Pushed(x, s))
           /\ Len(s) \in Nat
           /\ Len(Pushed(x, s)) = Len(s) + 1
           /\ \A i \in 1 .. Len(s) + 1 :
                 Pushed(x, s)[i] = IF i = 1 THEN x ELSE s[i - 1]
<1>1. PICK S : s \in Seq(S)
  BY DEF IsStack
<1>. DEFINE U == S \cup {x}
<1>2. s \in Seq(U) /\ <<x>> \in Seq(U) /\ Len(<<x>>) = 1 /\ <<x>>[1] = x
  BY <1>1
<1>. HIDE DEF U
<1>3. Pushed(x, s) \in Seq(U)
  BY <1>2 DEF Pushed
<1>. QED
  BY <1>2, <1>3 DEF IsStack, Pushed

\* The rest of a stack.
LEMMA PoppedStack ==
    ASSUME NEW s, IsStack(s), s # <<>>
    PROVE  /\ IsStack(Tail(s))
           /\ Len(s) \in Nat \ {0}
           /\ Head(s) = s[1]
           /\ Len(Tail(s)) = Len(s) - 1
           /\ \A i \in 1 .. Len(s) - 1 : Tail(s)[i] = s[i + 1]
<1>1. PICK S : s \in Seq(S)
  BY DEF IsStack
<1>. QED
  BY <1>1 DEF IsStack

Staged(k, where, kids) == [k EXCEPT !.at = where, !.kids = kids]
Continued(k, kids) == [k EXCEPT !.kids = kids]

\* A field of an activation changed.
LEMMA ChangedActivation ==
    ASSUME NEW k, IsActivation(k), NEW where, NEW kids
    PROVE  /\ IsActivation(Staged(k, where, kids))
           /\ Staged(k, where, kids).victim = k.victim
           /\ Staged(k, where, kids).pid = k.pid
           /\ Staged(k, where, kids).stack = k.stack
           /\ Staged(k, where, kids).at = where
           /\ Staged(k, where, kids).kids = kids
           /\ IsActivation(Continued(k, kids))
           /\ Continued(k, kids).victim = k.victim
           /\ Continued(k, kids).pid = k.pid
           /\ Continued(k, kids).kids = kids
           /\ Continued(k, kids).stack = k.stack
           /\ Continued(k, kids).at = k.at
<1>1. PICK v, p, s, a, c : k = [victim |-> v, pid |-> p, stack |-> s, at |-> a, kids |-> c]
  BY DEF IsActivation
<1>. DEFINE r == [k EXCEPT !.at = where]
<1>2. r = [victim |-> v, pid |-> p, stack |-> s, at |-> where, kids |-> c]
  BY <1>1
<1>3. Staged(k, where, kids) = [r EXCEPT !.kids = kids]
  BY DEF Staged
<1>. HIDE DEF r
<1>4. Staged(k, where, kids) = [victim |-> v, pid |-> p, stack |-> s, at |-> where, kids |-> kids]
  BY <1>2, <1>3
<1>5. Continued(k, kids) = [victim |-> v, pid |-> p, stack |-> s, at |-> a, kids |-> kids]
  BY <1>1 DEF Continued
<1>. QED
  BY <1>1, <1>4, <1>5 DEF IsActivation

LEMMA EmptyStack == IsStack(<<>>) /\ Len(<<>>) = 0
<1>1. <<>> \in Seq({})
  OBVIOUS
<1>. QED
  BY <1>1 DEF IsStack

\* Interrupts enabled, there is no cascade.
LEMMA NoCascade ==
    ASSUME CascadeOK, irq
    PROVE  kills = <<>> /\ Active = {} /\ pid[Init] # 0
<1>1. kills = <<>> /\ pid[Init] # 0
  BY DEF CascadeOK
<1>. QED
  BY <1>1, EmptyStack DEF Active

LEMMA UnlinkLive ==
    ASSUME SchedInv, NEW t, UnlinkTask(t)
    PROVE  /\ t \in Live /\ t \in Task
           /\ Queued(sched_queue') = Queued(sched_queue) \ {t}
           /\ Live' = Live \ {t}
<1>1. sched_queue \in Seq(Task) /\ ListOK(sched_queue, prio_s)
  BY InvMeaning DEF SchedTypeOK
<1>2. t \in Queued(sched_queue) \ {Idle} /\ sched_queue' = Unlink(sched_queue, t)
  BY DEF UnlinkTask
<1>3. Queued(sched_queue') = Queued(sched_queue) \ {t}
  BY <1>1, <1>2, UnlinkKeepsList
<1>. QED
  BY <1>1, <1>2, <1>3, QueuedAreTasks DEF Live

LEMMA CreateLive ==
    ASSUME SchedInv, NEW t \in Task, t # Idle, NEW p \in Prio, CreateTask(t, p)
    PROVE  /\ t \notin Live
           /\ Queued(sched_queue') = Queued(sched_queue) \cup {t}
           /\ Live' = Live \cup {t}
<1>1. /\ sched_queue \in Seq(Task) /\ ListOK(sched_queue, prio_s)
      /\ prio_s \in [Task -> LevelIdle .. MaxPrio] /\ prio_s[Idle] = LevelIdle
  BY InvMeaning, PickInList, IdleAssumption DEF SchedTypeOK, InRange
<1>2. t \notin Queued(sched_queue) /\ sched_queue' = InsertSorted(sched_queue, prio_s, t, p)
  BY DEF CreateTask
<1>3. p \in Int /\ p > prio_s[Idle] /\ prio_s \in [Task -> Int]
  BY <1>1, MaxPrioAssumption DEF Prio, LevelMin, LevelIdle
<1>4. Queued(sched_queue') = Queued(sched_queue) \cup {t}
  BY <1>1, <1>2, <1>3, InsertKeepsList, ZenonT(40)
<1>. QED
  BY <1>2, <1>4 DEF Live

LEMMA ForkLive ==
    ASSUME SchedInv, NEW t \in Task, t # Idle, ForkTask(t)
    PROVE  /\ t \notin Live
           /\ Live' = Live \cup {t}
<1>1. /\ sched_queue \in Seq(Task) /\ ListOK(sched_queue, prio_s)
      /\ prio_s \in [Task -> LevelIdle .. MaxPrio] /\ prio_s[Idle] = LevelIdle
  BY InvMeaning, PickInList, IdleAssumption DEF SchedTypeOK, InRange
<1>. DEFINE p == prio_s[running_task]
<1>2. /\ t \notin Queued(sched_queue)
      /\ sched_queue' = InsertSorted(sched_queue, prio_s, t, p)
  BY DEF ForkTask
<1>3. p \in Prio
  BY InvMeaning DEF ForkTask, InRange, RunningQueued
<1>4. p \in Int /\ p > prio_s[Idle] /\ prio_s \in [Task -> Int]
  BY <1>1, <1>3, MaxPrioAssumption DEF Prio, LevelMin, LevelIdle
<1>. HIDE DEF p
<1>5. Queued(sched_queue') = Queued(sched_queue) \cup {t}
  BY <1>1, <1>2, <1>4, InsertKeepsList, ZenonT(40)
<1>. QED
  BY <1>2, <1>5 DEF Live

-----------------------------------------------------------------------------
(* The steps.                                                              *)

LEMMA NobodyLive == ASSUME TaskInit PROVE Live = {}
<1>1. <<Idle>> \in Seq(Task) /\ sched_queue = <<Idle>>
  BY IdleAssumption DEF TaskInit, SchedInit
<1>2. \A x : x \in ToSet(sched_queue) <=> \E i \in 1 .. Len(sched_queue) : sched_queue[i] = x
  BY <1>1, InToSet
<1>3. Len(sched_queue) = 1 /\ sched_queue[1] = Idle
  BY <1>1
<1>. QED
  BY <1>2, <1>3 DEF Live, Queued

LEMMA TaskInitLife == TaskInit => LifeOK
<1>. SUFFICES ASSUME TaskInit PROVE LifeOK
  OBVIOUS
<1>1. Live = {}
  BY NobodyLive
<1>2. Active = {} /\ IsStack(kills) /\ kills = <<>>
  BY EmptyStack DEF TaskInit, Active
<1>3. LifeTypes
  BY DEF TaskInit, LifeTypes, NotWaiting, NoTask
<1>4. CascadeOK
  BY <1>2 DEF TaskInit, SchedInit, CascadeOK, At
<1>5. PidsOK
  BY <1>1, IdleAssumption, InitAssumption DEF TaskInit, PidsOK, NoTask
<1>6. StacksHeld
  BY <1>1, <1>2 DEF StacksHeld
<1>7. WaitersCovered
  BY <1>1 DEF WaitersCovered
<1>. QED
  BY <1>3, <1>4, <1>5, <1>6, <1>7 DEF LifeOK

\* A step that leaves the queue's members, pids and activations alone.
LEMMA QuietStep ==
    ASSUME LifeOK, Queued(sched_queue') = Queued(sched_queue),
           UNCHANGED <<procVars, stack_base, kstacks, kills>>,
           last_pid' \in Nat, last_pid <= last_pid',
           kills # <<>> => ~irq' /\ running_task' = running_task,
           pid[Init] = 0 => ~irq'
    PROVE  LifeOK'
<1>1. Live' = Live /\ Active' = Active
  BY DEF Live, Active
<1>2. LifeTypes'
  BY DEF LifeOK, LifeTypes, procVars
<1>3. CascadeOK'
  BY <1>1 DEF LifeOK, CascadeOK, IsActivation, At, procVars, IsStack
<1>4. PidsOK'
  BY <1>1 DEF LifeOK, PidsOK, procVars
<1>5. StacksHeld'
  BY <1>1 DEF LifeOK, StacksHeld
<1>6. WaitersCovered'
  BY <1>1 DEF LifeOK, WaitersCovered, At, procVars
<1>. QED
  BY <1>2, <1>3, <1>4, <1>5, <1>6 DEF LifeOK

\* A new task: a fresh pid for its stack, and it waits for nobody.
LEMMA CreationStep ==
    ASSUME SchedInv, LifeOK, NEW t \in Task \ {Idle}, NEW thePid \in Nat \ {0}, NEW parent \in Nat,
           NEW status, t = Init => parent = NoTask,
           NewTask(t, thePid, parent, status),
           t \notin Live, Live' = Live \cup {t}
    PROVE  /\ LifeTypes' /\ PidsOK'
           /\ stack_base'[t] \in kstacks' /\ kstacks \subseteq kstacks'
           /\ \A s \in kstacks : s # stack_base'[t]
           /\ \A u \in Live : stack_base'[u] = stack_base[u]
           /\ target'[t] = 0
           /\ \A u \in Live : /\ target'[u] = target[u] /\ wait_done'[u] = wait_done[u]
                              /\ wait_pid'[u] = wait_pid[u] /\ pid'[u] = pid[u] /\ ppid'[u] = ppid[u]
<1>1. \A u \in Live : u \in Task /\ u # t
  BY QueuedAreTasks, InvMeaning DEF Live, SchedTypeOK
<1>2. LifeTypes'
  BY DEF LifeOK, LifeTypes, NewTask, NotWaiting
<1>3. PidsOK'
  BY <1>1, IdleAssumption, InitAssumption DEF LifeOK, LifeTypes, PidsOK, NewTask
<1>4. /\ stack_base'[t] = last_pid + 1 /\ kstacks' = kstacks \cup {last_pid + 1}
      /\ target'[t] = 0
  BY DEF LifeOK, LifeTypes, NewTask
<1>5. \A s \in kstacks : s # last_pid + 1
  BY DEF LifeOK, LifeTypes
<1>6. ASSUME NEW u \in Live
      PROVE  /\ stack_base'[u] = stack_base[u] /\ target'[u] = target[u]
             /\ wait_done'[u] = wait_done[u] /\ wait_pid'[u] = wait_pid[u]
             /\ pid'[u] = pid[u] /\ ppid'[u] = ppid[u]
  BY <1>1 DEF LifeOK, LifeTypes, NewTask
<1>. QED
  BY <1>2, <1>3, <1>4, <1>5, <1>6

LEMMA SpawnInitStep == ASSUME SchedInv, LifeOK, SpawnInit PROVE LifeOK'
<1>1. /\ CreateTask(Init, InitPrio) /\ NewTask(Init, PidInit, NoTask, 0)
      /\ kills' = kills /\ pid[Init] = 0
  BY DEF SpawnInit, CreateInit
<1>2. Init \in Task \ {Idle} /\ PidInit \in Nat \ {0} /\ NoTask \in Nat
  BY InitAssumption DEF PidInit, NoTask
<1>3. /\ Init \notin Live /\ Live' = Live \cup {Init}
      /\ Queued(sched_queue') = Queued(sched_queue) \cup {Init}
  BY <1>1, <1>2, InitPrioAssumption, CreateLive
<1>4. kills = <<>> /\ Active = {} /\ Active' = {}
  BY <1>1, EmptyStack DEF LifeOK, CascadeOK, Active
<1>. HIDE DEF Live, NewTask
<1>5. /\ LifeTypes' /\ PidsOK'
      /\ stack_base'[Init] \in kstacks' /\ kstacks \subseteq kstacks'
      /\ \A s \in kstacks : s # stack_base'[Init]
      /\ \A u \in Live : stack_base'[u] = stack_base[u]
      /\ target'[Init] = 0
      /\ \A u \in Live : /\ target'[u] = target[u] /\ wait_done'[u] = wait_done[u]
                         /\ wait_pid'[u] = wait_pid[u] /\ pid'[u] = pid[u] /\ ppid'[u] = ppid[u]
  BY <1>1, <1>2, <1>3, CreationStep
<1>6. CascadeOK'
  BY <1>1, <1>4, EmptyStack DEF CascadeOK, At, CreateTask
<1>7. StacksHeld'
  BY <1>1, <1>3, <1>4, <1>5 DEF LifeOK, StacksHeld
<1>8. WaitersCovered'
  BY <1>1, <1>3, <1>4, <1>5 DEF LifeOK, WaitersCovered, At
<1>. QED
  BY <1>5, <1>6, <1>7, <1>8 DEF LifeOK

LEMMA ForkStep == ASSUME SchedInv, LifeOK, NEW c \in Task, Fork(c) PROVE LifeOK'
<1>1. /\ irq /\ running_task # Idle /\ c \in Task \ {Idle, Init}
      /\ ForkTask(c) /\ kills' = kills /\ irq' = irq
      /\ NewTask(c, last_pid + 1, pid[running_task], exit_status[running_task])
  BY DEF Fork, InUserMode, Unallocated, ForkTask
<1>2. last_pid + 1 \in Nat \ {0} /\ pid[running_task] \in Nat
  BY InvMeaning DEF LifeOK, LifeTypes, SchedTypeOK
<1>3. c \notin Live /\ Live' = Live \cup {c}
  BY <1>1, ForkLive
<1>4. kills = <<>> /\ Active = {} /\ Active' = {} /\ pid[Init] # 0
  BY <1>1, NoCascade DEF LifeOK, Active
<1>. HIDE DEF Live, NewTask
<1>5. /\ LifeTypes' /\ PidsOK'
      /\ stack_base'[c] \in kstacks' /\ kstacks \subseteq kstacks'
      /\ \A s \in kstacks : s # stack_base'[c]
      /\ \A u \in Live : stack_base'[u] = stack_base[u]
      /\ target'[c] = 0
      /\ \A u \in Live : /\ target'[u] = target[u] /\ wait_done'[u] = wait_done[u]
                         /\ wait_pid'[u] = wait_pid[u] /\ pid'[u] = pid[u] /\ ppid'[u] = ppid[u]
  BY <1>1, <1>2, <1>3, CreationStep
<1>6. pid'[Init] # 0
  BY <1>1, <1>4, InitAssumption DEF NewTask, LifeOK, LifeTypes
<1>7. CascadeOK'
  BY <1>1, <1>4, <1>6, EmptyStack DEF CascadeOK, At
<1>8. StacksHeld'
  BY <1>1, <1>3, <1>4, <1>5 DEF LifeOK, StacksHeld
<1>9. WaitersCovered'
  BY <1>1, <1>3, <1>4, <1>5 DEF LifeOK, WaitersCovered, At
<1>. QED
  BY <1>5, <1>7, <1>8, <1>9 DEF LifeOK

LEMMA ForkNoStackStep == ASSUME LifeOK, ForkNoStack PROVE LifeOK'
BY QuietStep DEF ForkNoStack, schedVars, LifeOK, LifeTypes, CascadeOK

LEMMA BootStep == ASSUME LifeOK, Boot PROVE LifeOK'
BY QuietStep DEF Boot, EnableInterrupts, killVars, LifeOK, LifeTypes

LEMMA TickStep == ASSUME LifeOK, Tick PROVE LifeOK'
<1>1. kills = <<>> /\ pid[Init] # 0
  BY NoCascade DEF Tick, SchedTick, LifeOK
<1>. QED
  BY <1>1, QuietStep DEF Tick, SchedTick, killVars, LifeOK, LifeTypes

\* The child that is awaited is in the queue, and it is not idle, whose ppid
\* is no task's pid.
LEMMA WaitpidBlockStep ==
    ASSUME SchedInv, LifeOK, NEW c \in Task, WaitpidBlock(c) PROVE LifeOK'
<1>. DEFINE t == running_task
<1>1. /\ irq /\ t # Idle /\ c \in Queued(sched_queue) /\ ppid[c] = pid[t]
      /\ sched_queue' = sched_queue /\ irq' = irq /\ running_task' = running_task
      /\ wait_pid' = [wait_pid EXCEPT ![t] = pid[c]]
      /\ wait_done' = [wait_done EXCEPT ![t] = FALSE]
      /\ target' = [target EXCEPT ![t] = pid[c]]
      /\ UNCHANGED <<pid, ppid, killVars>>
  BY DEF WaitpidBlock, InUserMode, IsChildOf, SuspendRunning
<1>2. t \in Task /\ t \in Live
  BY <1>1, InvMeaning DEF SchedTypeOK, RunningQueued, Live
<1>3. kills = <<>> /\ Active = {} /\ Live' = Live /\ Active' = Active
  BY <1>1, NoCascade DEF LifeOK, Live, Active, killVars
<1>4. c # Idle /\ c \in Live
  BY <1>1, <1>2 DEF LifeOK, PidsOK, NoTask, Live
<1>. HIDE DEF t
<1>5. LifeTypes'
  BY <1>1, <1>2 DEF LifeOK, LifeTypes, killVars
<1>6. CascadeOK'
  BY <1>1, <1>3 DEF LifeOK, CascadeOK, At, killVars
<1>7. PidsOK'
  BY <1>1, <1>2, <1>3 DEF LifeOK, LifeTypes, PidsOK, killVars
<1>8. StacksHeld'
  BY <1>1, <1>3 DEF LifeOK, StacksHeld, killVars
<1>9. WaitersCovered'
  <2>. SUFFICES ASSUME NEW u \in Live, target'[u] # 0, ~wait_done'[u]
                PROVE  wait_pid'[u] = target'[u]
                       /\ \E d \in Live : pid[d] = target'[u] /\ ppid[d] = pid[u]
    BY <1>1, <1>3 DEF WaitersCovered
  <2>0. u \in Task
    BY QueuedAreTasks, InvMeaning DEF Live, SchedTypeOK
  <2>1. CASE u = t
    BY <1>1, <1>2, <1>4, <2>1 DEF LifeOK, LifeTypes
  <2>2. CASE u # t
    BY <1>1, <1>2, <1>3, <2>0, <2>2 DEF LifeOK, LifeTypes, WaitersCovered, At
  <2>. QED
    BY <2>1, <2>2
<1>. QED
  BY <1>5, <1>6, <1>7, <1>8, <1>9 DEF LifeOK

LEMMA WaitpidReturnStep ==
    ASSUME SchedInv, LifeOK, NEW t \in Task, WaitpidReturn(t) PROVE LifeOK'
<1>1. /\ irq /\ UNCHANGED schedVars
      /\ wait_done' = [wait_done EXCEPT ![t] = FALSE]
      /\ target' = [target EXCEPT ![t] = 0]
      /\ UNCHANGED <<pid, ppid, wait_pid, killVars>>
  BY DEF WaitpidReturn
<1>2. kills = <<>> /\ Active = {} /\ Live' = Live /\ Active' = Active
  BY <1>1, NoCascade DEF LifeOK, Live, Active, killVars, schedVars
<1>3. LifeTypes'
  BY <1>1 DEF LifeOK, LifeTypes, killVars
<1>4. CascadeOK'
  BY <1>1, <1>2 DEF LifeOK, CascadeOK, At, killVars, schedVars
<1>5. PidsOK'
  BY <1>1, <1>2, IdleAssumption DEF LifeOK, LifeTypes, PidsOK, killVars
<1>6. StacksHeld'
  BY <1>1, <1>2 DEF LifeOK, StacksHeld, killVars, schedVars
<1>7. WaitersCovered'
  <2>. SUFFICES ASSUME NEW u \in Live, target'[u] # 0, ~wait_done'[u]
                PROVE  wait_pid[u] = target'[u]
                       /\ \E d \in Live : pid[d] = target'[u] /\ ppid[d] = pid[u]
    BY <1>1, <1>2 DEF WaitersCovered
  <2>1. u \in Task
    BY QueuedAreTasks, InvMeaning DEF Live, SchedTypeOK
  <2>. QED
    BY <1>1, <1>2, <2>1 DEF LifeOK, LifeTypes, WaitersCovered, At
<1>. QED
  BY <1>3, <1>4, <1>5, <1>6, <1>7 DEF LifeOK

-----------------------------------------------------------------------------
(* The steps of task_kill.                                                 *)

\* Entering task_kill: the victim's stack passes from the task to the new
\* activation, and so does the duty to wake those who wait for the victim.
\* The activations below are all in their loops.
LEMMA EnterKillStep ==
    ASSUME SchedInv, LifeOK, NEW t, NEW rest, EnterKill(t, rest),
           IsStack(rest), Len(rest) = Len(kills),
           \A i \in Active : /\ IsActivation(rest[i])
                             /\ rest[i].victim = kills[i].victim
                             /\ rest[i].stack = kills[i].stack
                             /\ rest[i].at = "children" /\ kills[i].at = "children",
           running_task # Idle, pid[Init] # 0, kills = <<>> => running_task \in Live,
           UNCHANGED <<pid, ppid, wait_pid, wait_done, target>>
    PROVE  LifeOK'
<1>. DEFINE f == [victim |-> t, pid |-> pid[t], stack |-> stack_base[t],
                  at |-> IF t = Init THEN "respawn" ELSE "wake", kids |-> <<>>]
<1>1. /\ UnlinkTask(t) /\ kills' = Pushed(f, rest)
      /\ UNCHANGED <<last_pid, stack_base, kstacks>>
  BY DEF EnterKill, Pushed
<1>2. /\ t \in Live /\ t \in Task /\ Live' = Live \ {t}
      /\ Queued(sched_queue') = Queued(sched_queue) \ {t}
      /\ irq' = FALSE /\ running_task' = running_task
  BY <1>1, UnlinkLive DEF UnlinkTask
<1>3. /\ f.victim = t /\ f.pid = pid[t] /\ f.stack = stack_base[t]
      /\ f.at \in {"respawn", "wake"} /\ IsActivation(f)
      /\ f.at = "respawn" => t = Init
  BY DEF IsActivation
<1>. HIDE DEF f
<1>4. /\ IsStack(kills') /\ Len(kills) \in Nat /\ Active' = 1 .. Len(kills) + 1
      /\ \A i \in 1 .. Len(kills) + 1 : kills'[i] = IF i = 1 THEN f ELSE rest[i - 1]
  BY <1>1, PushedStack DEF Active
<1>5. kills' # <<>> /\ Head(kills') = f /\ kills'[1] = f
  <2>1. kills' # <<>>
    BY <1>4, EmptyStack DEF Active
  <2>. QED
    BY <1>4, <2>1, PoppedStack
<1>6. \A i \in Active' : i # 1 => i - 1 \in Active /\ kills'[i] = rest[i - 1]
  BY <1>4 DEF Active
<1>7. LifeTypes'
  BY <1>1 DEF LifeOK, LifeTypes
<1>8. CascadeOK'
  <2>1. \A i \in Active' : IsActivation(kills'[i]) /\ (i # 1 => kills'[i].at = "children")
    BY <1>3, <1>4, <1>5, <1>6
  <2>. QED
    BY <1>2, <1>3, <1>4, <1>5, <2>1 DEF CascadeOK, At, IsActivation
<1>9. PidsOK'
  BY <1>1, <1>2 DEF LifeOK, PidsOK
<1>10. StacksHeld'
  <2>1. \A i \in Active' : i = 1 \/ kills'[i].stack = kills[i - 1].stack
    BY <1>6
  <2>2. \A i \in Active' : kills'[i].stack \in kstacks
    BY <1>2, <1>3, <1>5, <1>6 DEF LifeOK, StacksHeld
  <2>3. \A i, j \in Active' : kills'[i].stack = kills'[j].stack => i = j
    <3>. SUFFICES ASSUME NEW i \in Active', NEW j \in Active',
                         kills'[i].stack = kills'[j].stack
                  PROVE  i = j
      OBVIOUS
    <3>1. i = 1 <=> j = 1
      BY <1>2, <1>3, <1>5, <1>6 DEF LifeOK, StacksHeld
    <3>2. ASSUME i # 1, j # 1 PROVE i - 1 = j - 1
      BY <1>6, <3>2 DEF LifeOK, StacksHeld
    <3>. QED
      BY <1>4, <3>1, <3>2
  <2>4. \A u \in Live', i \in Active' : stack_base[u] # kills'[i].stack
    BY <1>2, <1>3, <1>5, <1>6 DEF LifeOK, StacksHeld
  <2>5. \/ running_task \in Live'
        \/ \E i \in Active' : kills'[i].victim = running_task
                              /\ kills'[i].stack = stack_base[running_task]
    <3>1. CASE running_task = t
      BY <1>3, <1>4, <1>5, <3>1
    <3>2. CASE running_task # t /\ running_task \in Live
      BY <1>2, <3>2
    <3>3. CASE running_task \notin Live
      <4>1. PICK i \in Active : kills[i].victim = running_task
                                /\ kills[i].stack = stack_base[running_task]
        BY <3>3 DEF LifeOK, StacksHeld
      <4>2. i + 1 \in Active' /\ kills'[i + 1] = rest[i]
        BY <1>4 DEF Active
      <4>. QED
        BY <4>1, <4>2
    <3>. QED
      BY <3>1, <3>2, <3>3
  <2>. QED
    BY <1>1, <1>2, <2>2, <2>3, <2>4, <2>5 DEF LifeOK, StacksHeld
<1>11. WaitersCovered'
  <2>. SUFFICES ASSUME NEW u \in Live', target[u] # 0, ~wait_done[u]
                PROVE  /\ wait_pid[u] = target[u]
                       /\ \/ \E c \in Live' : pid[c] = target[u] /\ ppid[c] = pid[u]
                          \/ Head(kills').pid = target[u]
    BY <1>3, <1>5 DEF WaitersCovered, At
  <2>1. ~At("respawn") /\ ~At("wake")
    <3>1. ASSUME kills # <<>> PROVE Head(kills).at = "children"
      BY <3>1, PoppedStack DEF LifeOK, CascadeOK, Active
    <3>. QED
      BY <3>1 DEF At
  <2>2. /\ wait_pid[u] = target[u]
        /\ \E c \in Live : pid[c] = target[u] /\ ppid[c] = pid[u]
    BY <1>2, <2>1 DEF LifeOK, WaitersCovered
  <2>. QED
    BY <1>2, <1>3, <1>5, <2>2
<1>. QED
  BY <1>7, <1>8, <1>9, <1>10, <1>11 DEF LifeOK

\* sys_exit_task and sys_kill.
LEMMA FirstKillStep ==
    ASSUME SchedInv, LifeOK, NEW t, InUserMode, EnterKill(t, <<>>),
           UNCHANGED <<pid, ppid, wait_pid, wait_done, target>>
    PROVE  LifeOK'
<1>1. kills = <<>> /\ Active = {} /\ pid[Init] # 0
  BY NoCascade DEF InUserMode, LifeOK
<1>2. running_task # Idle /\ running_task \in Live
  BY InvMeaning DEF InUserMode, RunningQueued, Live
<1>. QED
  BY <1>1, <1>2, EmptyStack, EnterKillStep

\* The recursive call: the caller's activation is one child further.
LEMMA KillChildStep == ASSUME SchedInv, LifeOK, KillChild PROVE LifeOK'
<1>. DEFINE k == Head(kills)
            g == Continued(k, Tail(k.kids))
            below == Tail(kills)
            rest == Pushed(g, below)
<1>1. /\ kills # <<>> /\ k.at = "children"
      /\ EnterKill(Head(k.kids), rest) /\ UNCHANGED procVars
  BY DEF KillChild, At, Pushed, Continued
<1>2. /\ IsStack(below) /\ Len(kills) \in Nat \ {0} /\ k = kills[1]
      /\ Len(below) = Len(kills) - 1
      /\ \A i \in 1 .. Len(kills) - 1 : below[i] = kills[i + 1]
  BY <1>1, PoppedStack DEF LifeOK, CascadeOK
<1>3. IsActivation(k)
  BY <1>2 DEF LifeOK, CascadeOK, Active
<1>4. g.victim = k.victim /\ g.stack = k.stack /\ g.at = k.at /\ IsActivation(g)
  BY <1>3, ChangedActivation
<1>. HIDE DEF g, k, below
<1>5. /\ IsStack(rest) /\ Len(rest) = Len(kills)
      /\ \A i \in Active : rest[i] = IF i = 1 THEN g ELSE kills[i]
  <2>1. /\ IsStack(rest) /\ Len(rest) = Len(below) + 1
        /\ \A i \in 1 .. Len(below) + 1 : rest[i] = IF i = 1 THEN g ELSE below[i - 1]
    BY <1>2, PushedStack
  <2>. HIDE DEF rest
  <2>. QED
    BY <1>2, <2>1 DEF Active
<1>. HIDE DEF rest
<1>6. \A i \in Active : /\ IsActivation(rest[i])
                        /\ rest[i].victim = kills[i].victim
                        /\ rest[i].stack = kills[i].stack
                        /\ rest[i].at = "children" /\ kills[i].at = "children"
  BY <1>1, <1>2, <1>4, <1>5 DEF LifeOK, CascadeOK
<1>7. running_task # Idle /\ pid[Init] # 0
  BY <1>1 DEF LifeOK, CascadeOK
<1>. QED
  BY <1>1, <1>5, <1>6, <1>7, EnterKillStep DEF procVars

\* Another stage of the innermost activation k, which becomes g.
LEMMA AdvanceStep ==
    ASSUME LifeOK, kills # <<>>, NEW where, NEW kids, Advance(where, kids)
    PROVE  /\ IsStack(kills') /\ kills' # <<>> /\ Active' = Active
           /\ Head(kills').at = where /\ Head(kills').pid = Head(kills).pid
           /\ Head(kills').kids = kids
           /\ Head(kills') = kills'[1] /\ Head(kills) = kills[1]
           /\ \A i \in Active : i # 1 => kills'[i] = kills[i]
           /\ \A i \in Active : /\ IsActivation(kills'[i])
                                /\ kills'[i].victim = kills[i].victim
                                /\ kills'[i].stack = kills[i].stack
                                /\ i # 1 => kills'[i].at = "children"
<1>. DEFINE k == Head(kills)
            g == Staged(k, where, kids)
            below == Tail(kills)
<1>1. kills' = Pushed(g, below)
  BY DEF Advance, Pushed, Staged
<1>2. /\ IsStack(below) /\ Len(kills) \in Nat \ {0} /\ k = kills[1]
      /\ Len(below) = Len(kills) - 1
      /\ \A i \in 1 .. Len(kills) - 1 : below[i] = kills[i + 1]
  BY PoppedStack DEF LifeOK, CascadeOK
<1>3. IsActivation(k)
  BY <1>2 DEF LifeOK, CascadeOK, Active
<1>4. k = Head(kills)
  OBVIOUS
<1>. HIDE DEF k, below
<1>5. /\ IsActivation(g) /\ g.victim = k.victim /\ g.pid = k.pid /\ g.stack = k.stack
      /\ g.at = where /\ g.kids = kids
  BY <1>3, ChangedActivation
<1>. HIDE DEF g
<1>6. /\ IsStack(kills') /\ Len(kills') = Len(below) + 1
      /\ \A i \in 1 .. Len(below) + 1 : kills'[i] = IF i = 1 THEN g ELSE below[i - 1]
  BY <1>1, <1>2, PushedStack
<1>7. Active' = Active /\ \A i \in Active : kills'[i] = IF i = 1 THEN g ELSE kills[i]
  BY <1>2, <1>6 DEF Active
<1>8. kills' # <<>> /\ Head(kills') = g /\ kills'[1] = g
  <2>1. kills' # <<>> /\ 1 \in Active
    BY <1>2, <1>6, EmptyStack DEF Active
  <2>. QED
    BY <1>6, <1>7, <2>1, PoppedStack
<1>9. \A i \in Active : /\ IsActivation(kills'[i])
                        /\ kills'[i].victim = kills[i].victim
                        /\ kills'[i].stack = kills[i].stack
                        /\ i # 1 => kills'[i].at = "children"
  BY <1>2, <1>5, <1>7 DEF LifeOK, CascadeOK
<1>. QED
  BY <1>2, <1>4, <1>5, <1>6, <1>7, <1>8, <1>9

LEMMA ChildrenDoneStep == ASSUME LifeOK, ChildrenDone PROVE LifeOK'
<1>1. /\ kills # <<>> /\ Head(kills).at = "children" /\ Advance("end", <<>>)
      /\ UNCHANGED <<schedVars, procVars, last_pid, stack_base, kstacks>>
  BY DEF ChildrenDone, At
<1>2. /\ IsStack(kills') /\ kills' # <<>> /\ Active' = Active
      /\ Head(kills').at = "end"
      /\ \A i \in Active : /\ IsActivation(kills'[i])
                           /\ kills'[i].victim = kills[i].victim
                           /\ kills'[i].stack = kills[i].stack
                           /\ i # 1 => kills'[i].at = "children"
  BY <1>1, AdvanceStep
<1>3. Live' = Live
  BY <1>1 DEF Live, schedVars
<1>4. LifeTypes'
  BY <1>1 DEF LifeOK, LifeTypes, procVars
<1>5. CascadeOK'
  BY <1>1, <1>2 DEF LifeOK, CascadeOK, At, schedVars, procVars
<1>6. PidsOK'
  BY <1>1, <1>3 DEF LifeOK, PidsOK, procVars
<1>7. StacksHeld'
  BY <1>1, <1>2, <1>3 DEF LifeOK, StacksHeld, schedVars
<1>8. WaitersCovered'
  <2>1. ~At("respawn") /\ ~At("wake")
    BY <1>1 DEF At
  <2>. QED
    BY <1>1, <1>3, <2>1 DEF LifeOK, WaitersCovered, procVars
<1>. QED
  BY <1>4, <1>5, <1>6, <1>7, <1>8 DEF LifeOK

\* Everyone who waits for this pid is woken; for the others nothing changes.
LEMMA WakeWaitersStep == ASSUME SchedInv, LifeOK, WakeWaiters PROVE LifeOK'
<1>. DEFINE k == Head(kills)
            W == Waiters(k)
<1>1. /\ kills # <<>> /\ k.at = "wake"
      /\ WakeTasks(W)
      /\ wait_pid' = [t \in Task |-> IF t \in W THEN NotWaiting ELSE wait_pid[t]]
      /\ wait_done' = [t \in Task |-> t \in W \/ wait_done[t]]
      /\ Advance("children", Children(k.pid))
      /\ UNCHANGED <<pid, ppid, target, last_pid, stack_base, kstacks>>
  BY DEF WakeWaiters, At
<1>2. /\ IsStack(kills') /\ kills' # <<>> /\ Active' = Active
      /\ Head(kills').at = "children"
      /\ \A i \in Active : /\ IsActivation(kills'[i])
                           /\ kills'[i].victim = kills[i].victim
                           /\ kills'[i].stack = kills[i].stack
                           /\ i # 1 => kills'[i].at = "children"
  <2>. DEFINE ks == Children(k.pid)
  <2>1. Advance("children", ks)
    BY <1>1
  <2>. HIDE DEF ks
  <2>. QED
    BY <1>1, <2>1, AdvanceStep
<1>3. UNCHANGED <<sched_queue, running_task, irq>> /\ Live' = Live
  BY <1>1 DEF WakeTasks, Live
<1>4. \A t \in Live : t \in Task /\ (wait_pid[t] = k.pid => t \in W)
  BY QueuedAreTasks, InvMeaning DEF Live, SchedTypeOK, Waiters
<1>. HIDE DEF W
<1>5. LifeTypes'
  <2>1. wait_done' \in [Task -> BOOLEAN]
    <3>1. \A t \in Task : (t \in W \/ wait_done[t]) \in BOOLEAN
      OBVIOUS
    <3>. QED
      BY <1>1, <3>1
  <2>2. wait_pid' \in [Task -> Int]
    BY <1>1 DEF LifeOK, LifeTypes, NotWaiting
  <2>. QED
    BY <1>1, <2>1, <2>2 DEF LifeOK, LifeTypes
<1>6. CascadeOK'
  BY <1>1, <1>2, <1>3 DEF LifeOK, CascadeOK, At
<1>7. PidsOK'
  BY <1>1, <1>3 DEF LifeOK, PidsOK
<1>8. StacksHeld'
  BY <1>1, <1>2, <1>3 DEF LifeOK, StacksHeld
<1>9. WaitersCovered'
  <2>. SUFFICES ASSUME NEW t \in Live, target[t] # 0, ~wait_done'[t]
                PROVE  wait_pid'[t] = target[t]
                       /\ \E c \in Live : pid[c] = target[t] /\ ppid[c] = pid[t]
    BY <1>1, <1>3 DEF WaitersCovered
  <2>1. t \notin W /\ ~wait_done[t] /\ wait_pid'[t] = wait_pid[t]
    BY <1>1, <1>4
  <2>2. wait_pid[t] = target[t] /\ k.pid # target[t]
    BY <1>4, <2>1 DEF LifeOK, WaitersCovered
  <2>. QED
    BY <2>1, <2>2 DEF LifeOK, WaitersCovered
<1>. QED
  BY <1>5, <1>6, <1>7, <1>8, <1>9 DEF LifeOK

\* The new init takes a new stack; the old one is still held by the activation.
LEMMA RespawnInitStep == ASSUME SchedInv, LifeOK, RespawnInit PROVE LifeOK'
<1>1. /\ kills # <<>> /\ Head(kills).at = "respawn" /\ Advance("wake", <<>>)
      /\ CreateTask(Init, InitPrio) /\ NewTask(Init, PidInit, NoTask, 0)
  BY DEF RespawnInit, CreateInit, At
<1>2. Init \in Task \ {Idle} /\ PidInit \in Nat \ {0} /\ NoTask \in Nat
  BY InitAssumption DEF PidInit, NoTask
<1>3. /\ Init \notin Live /\ Live' = Live \cup {Init}
      /\ Queued(sched_queue') = Queued(sched_queue) \cup {Init}
  BY <1>1, <1>2, InitPrioAssumption, CreateLive
<1>4. /\ IsStack(kills') /\ kills' # <<>> /\ Active' = Active
      /\ Head(kills').at = "wake" /\ Head(kills').pid = Head(kills).pid
      /\ \A i \in Active : /\ IsActivation(kills'[i])
                           /\ kills'[i].victim = kills[i].victim
                           /\ kills'[i].stack = kills[i].stack
                           /\ i # 1 => kills'[i].at = "children"
  BY <1>1, AdvanceStep
<1>. HIDE DEF Live, Active, NewTask
<1>5. /\ LifeTypes' /\ PidsOK'
      /\ stack_base'[Init] \in kstacks' /\ kstacks \subseteq kstacks'
      /\ \A s \in kstacks : s # stack_base'[Init]
      /\ \A u \in Live : stack_base'[u] = stack_base[u]
      /\ target'[Init] = 0
      /\ \A u \in Live : /\ target'[u] = target[u] /\ wait_done'[u] = wait_done[u]
                         /\ wait_pid'[u] = wait_pid[u] /\ pid'[u] = pid[u] /\ ppid'[u] = ppid[u]
  BY <1>1, <1>2, <1>3, CreationStep
<1>6. /\ irq' = FALSE /\ running_task' = running_task /\ running_task # Idle
      /\ pid'[Init] # 0 /\ \A t \in Task \ {Init} : stack_base'[t] = stack_base[t]
  BY <1>1, <1>2 DEF CreateTask, NewTask, LifeOK, LifeTypes, CascadeOK
<1>7. CascadeOK'
  BY <1>4, <1>6 DEF CascadeOK, At
<1>8. StacksHeld'
  <2>1. \A i \in Active : kills'[i].stack \in kstacks /\ kills[i].stack = kills'[i].stack
    BY <1>4 DEF LifeOK, StacksHeld
  <2>2. \A t \in Live : stack_base[t] \in kstacks
    BY DEF LifeOK, StacksHeld
  <2>3. \/ running_task \in Live'
        \/ \E i \in Active : kills'[i].victim = running_task
                             /\ kills'[i].stack = stack_base'[running_task]
    <3>1. running_task \in Task
      BY InvMeaning DEF SchedTypeOK
    <3>2. CASE running_task \in Live'
      BY <3>2
    <3>3. CASE running_task \notin Live'
      <4>1. running_task # Init /\ running_task \notin Live
        BY <1>3, <3>3
      <4>2. PICK i \in Active : kills[i].victim = running_task
                                /\ kills[i].stack = stack_base[running_task]
        BY <1>1, <4>1 DEF LifeOK, StacksHeld
      <4>. QED
        BY <1>4, <1>6, <3>1, <4>1, <4>2
    <3>. QED
      BY <3>2, <3>3
  <2>4. \A i, j \in Active : kills'[i].stack = kills'[j].stack => i = j
    BY <2>1 DEF LifeOK, StacksHeld
  <2>5. \A t, u \in Live' : stack_base'[t] = stack_base'[u] => t = u
    BY <1>3, <1>5, <2>2 DEF LifeOK, StacksHeld
  <2>6. \A t \in Live', i \in Active : stack_base'[t] # kills'[i].stack
    BY <1>3, <1>5, <2>1 DEF LifeOK, StacksHeld
  <2>. QED
    BY <1>3, <1>4, <1>5, <1>6, <2>1, <2>2, <2>3, <2>4, <2>5, <2>6 DEF StacksHeld
<1>9. WaitersCovered'
  <2>. SUFFICES ASSUME NEW t \in Live, target[t] # 0, ~wait_done[t]
                PROVE  /\ wait_pid[t] = target[t]
                       /\ \/ \E c \in Live : pid[c] = target[t] /\ ppid[c] = pid[t]
                          \/ Head(kills).pid = target[t]
    BY <1>3, <1>4, <1>5 DEF WaitersCovered, At
  <2>. QED
    BY DEF LifeOK, WaitersCovered
<1>. QED
  BY <1>5, <1>7, <1>8, <1>9 DEF LifeOK

\* The innermost activation is over and frees the stack it held; the one below
\* it goes on in its loop.
LEMMA KillReturnStep == ASSUME SchedInv, LifeOK, KillReturn PROVE LifeOK'
<1>1. /\ kills # <<>> /\ Head(kills).at = "end" /\ Head(kills).victim # running_task
      /\ kstacks' = kstacks \ {Head(kills).stack} /\ kills' = Tail(kills) /\ Resume
      /\ UNCHANGED <<procVars, last_pid, stack_base>>
  BY DEF KillReturn, At, DeadStack
<1>2. /\ IsStack(kills') /\ Len(kills) \in Nat \ {0} /\ Head(kills) = kills[1]
      /\ Len(kills') = Len(kills) - 1
      /\ \A i \in 1 .. Len(kills) - 1 : kills'[i] = kills[i + 1]
  BY <1>1, PoppedStack DEF LifeOK, CascadeOK
<1>3. /\ UNCHANGED <<sched_queue, running_task>> /\ Live' = Live
      /\ kills' # <<>> => irq' = irq
  BY <1>1 DEF Resume, EnableInterrupts, schedVars, Live
<1>4. 1 \in Active /\ \A i \in Active' : i + 1 \in Active /\ i + 1 # 1 /\ kills'[i] = kills[i + 1]
  BY <1>2 DEF Active
<1>5. \A i \in Active : i # 1 => i - 1 \in Active' /\ kills'[i - 1] = kills[i]
  BY <1>2 DEF Active
<1>6. LifeTypes'
  BY <1>1 DEF LifeOK, LifeTypes, procVars
<1>7. kills' # <<>> => Head(kills').at = "children"
  <2>. SUFFICES ASSUME kills' # <<>> PROVE Head(kills').at = "children"
    OBVIOUS
  <2>1. Head(kills') = kills'[1] /\ 1 \in Active'
    BY <1>2, PoppedStack DEF Active
  <2>. QED
    BY <1>4, <2>1 DEF LifeOK, CascadeOK
<1>8. CascadeOK'
  <2>1. \A i \in Active' : IsActivation(kills'[i]) /\ kills'[i].at = "children"
    BY <1>4 DEF LifeOK, CascadeOK
  <2>2. pid[Init] # 0 /\ ~irq /\ running_task # Idle
    BY <1>1 DEF LifeOK, CascadeOK
  <2>3. kills' # <<>> => ~irq' /\ running_task' # Idle /\ pid'[Init] # 0
    BY <1>1, <1>3, <2>2 DEF procVars
  <2>4. ~At("respawn")'
    BY <1>7 DEF At
  <2>5. pid'[Init] # 0
    BY <1>1, <2>2 DEF procVars
  <2>. QED
    BY <1>2, <2>1, <2>3, <2>4, <2>5 DEF CascadeOK
<1>9. PidsOK'
  BY <1>1, <1>3 DEF LifeOK, PidsOK, procVars
<1>10. StacksHeld'
  <2>1. \A t \in Live : stack_base[t] \in kstacks /\ stack_base[t] # kills[1].stack
    BY <1>4 DEF LifeOK, StacksHeld
  <2>2. \A i \in Active' : kills'[i].stack \in kstacks /\ kills'[i].stack # kills[1].stack
    BY <1>4 DEF LifeOK, StacksHeld
  <2>3. \A i, j \in Active' : kills'[i].stack = kills'[j].stack => i = j
    <3>. SUFFICES ASSUME NEW i \in Active', NEW j \in Active', kills'[i].stack = kills'[j].stack
                  PROVE  i = j
      OBVIOUS
    <3>1. i + 1 = j + 1
      BY <1>4 DEF LifeOK, StacksHeld
    <3>. QED
      BY <1>2, <3>1 DEF Active
  <2>4. \A t \in Live, i \in Active' : stack_base[t] # kills'[i].stack
    BY <1>4 DEF LifeOK, StacksHeld
  <2>5. \/ running_task \in Live
        \/ \E i \in Active' : kills'[i].victim = running_task
                              /\ kills'[i].stack = stack_base[running_task]
    <3>1. CASE running_task \in Live
      BY <3>1
    <3>2. CASE running_task \notin Live
      <4>1. PICK i \in Active : kills[i].victim = running_task
                                /\ kills[i].stack = stack_base[running_task]
        BY <1>1, <3>2 DEF LifeOK, StacksHeld
      <4>2. i # 1
        BY <1>1, <1>2, <4>1
      <4>. QED
        BY <1>5, <4>1, <4>2
    <3>. QED
      BY <3>1, <3>2
  <2>. QED
    BY <1>1, <1>2, <1>3, <2>1, <2>2, <2>3, <2>4, <2>5 DEF LifeOK, StacksHeld
<1>11. WaitersCovered'
  <2>1. ~At("respawn") /\ ~At("wake")
    BY <1>1 DEF At
  <2>. QED
    BY <1>1, <1>3, <2>1 DEF LifeOK, WaitersCovered, procVars
<1>. QED
  BY <1>6, <1>8, <1>9, <1>10, <1>11 DEF LifeOK

\* The running task has killed itself: all activations go with its stack.
LEMMA KillSwitchStep == ASSUME SchedInv, LifeOK, KillSwitch PROVE LifeOK'
<1>1. /\ kills # <<>> /\ Head(kills).at = "end"
      /\ kstacks' = kstacks \ {Head(kills).stack} /\ kills' = <<>> /\ SwitchFromDead
      /\ UNCHANGED <<procVars, last_pid, stack_base>>
  BY DEF KillSwitch, At, DeadStack
<1>2. sched_queue' = sched_queue /\ Live' = Live /\ Active' = {}
  BY <1>1, EmptyStack DEF SwitchFromDead, Live, Active
<1>3. 1 \in Active /\ Head(kills) = kills[1]
  BY <1>1, PoppedStack DEF LifeOK, CascadeOK, Active
<1>4. LifeTypes'
  BY <1>1 DEF LifeOK, LifeTypes, procVars
<1>5. CascadeOK'
  BY <1>1, <1>2, EmptyStack DEF LifeOK, CascadeOK, At, procVars
<1>6. PidsOK'
  BY <1>1, <1>2 DEF LifeOK, PidsOK, procVars
<1>7. StacksHeld'
  BY <1>1, <1>2, <1>3 DEF LifeOK, StacksHeld
<1>8. WaitersCovered'
  <2>1. ~At("respawn") /\ ~At("wake")
    BY <1>1 DEF At
  <2>. QED
    BY <1>1, <1>2, <2>1 DEF LifeOK, WaitersCovered, procVars
<1>. QED
  BY <1>4, <1>5, <1>6, <1>7, <1>8 DEF LifeOK

-----------------------------------------------------------------------------
(* The theorems.                                                           *)

LEMMA TaskNextLife == SchedInv /\ LifeOK /\ [TaskNext]_vars => LifeOK'
<1>. SUFFICES ASSUME SchedInv, LifeOK, [TaskNext]_vars PROVE LifeOK'
  OBVIOUS
<1>1. CASE SpawnInit
  BY <1>1, SpawnInitStep
<1>2. CASE Boot
  BY <1>2, BootStep
<1>3. CASE Tick
  BY <1>3, TickStep
<1>4. ASSUME NEW c \in Task, Fork(c) PROVE LifeOK'
  BY <1>4, ForkStep
<1>5. CASE ForkNoStack
  BY <1>5, ForkNoStackStep
<1>6. ASSUME NEW c \in Task, WaitpidBlock(c) PROVE LifeOK'
  BY <1>6, WaitpidBlockStep
<1>7. ASSUME NEW t \in Task, WaitpidReturn(t) PROVE LifeOK'
  BY <1>7, WaitpidReturnStep
<1>8. ASSUME NEW status \in Status, Exit(status) PROVE LifeOK'
  BY <1>8, FirstKillStep DEF Exit
<1>9. ASSUME NEW t \in Task, Kill(t) PROVE LifeOK'
  BY <1>9, FirstKillStep DEF Kill, procVars
<1>10. CASE KillStep
  BY <1>10, RespawnInitStep, WakeWaitersStep, KillChildStep, ChildrenDoneStep,
     KillReturnStep, KillSwitchStep DEF KillStep
<1>11. CASE UNCHANGED vars
  BY <1>11, QuietStep DEF vars, schedVars, killVars, LifeOK, LifeTypes, CascadeOK
<1>. QED
  BY <1>1, <1>2, <1>3, <1>4, <1>5, <1>6, <1>7, <1>8, <1>9, <1>10, <1>11 DEF TaskNext

\* The inductive invariant of task.c and of the calls in syscall.c.
THEOREM LifeInvariant == TaskSpec => []LifeOK
<1>1. TaskInit => LifeOK
  BY TaskInitLife
<1>2. SchedInv /\ LifeOK /\ [TaskNext]_vars => LifeOK'
  BY TaskNextLife
<1>. QED
  BY <1>1, <1>2, TaskSchedInv, PTL DEF TaskSpec

\* task.c:526-630: every queued task owns its kernel stack, and a cascade never
\* runs on a stack that has been freed.
THEOREM StacksStayOwned == TaskSpec => []StacksOwned
<1>1. LifeOK => StacksOwned
  <2>. SUFFICES ASSUME LifeOK PROVE StacksOwned
    OBVIOUS
  <2>1. \A t \in Live : stack_base[t] \in kstacks /\ stack_base[t] # stack_base[Idle]
    BY DEF LifeOK, LifeTypes, PidsOK, StacksHeld
  <2>2. \A t, u \in Live : stack_base[t] = stack_base[u] => t = u
    BY DEF LifeOK, StacksHeld
  <2>3. kills # <<>> => stack_base[running_task] \in kstacks
    BY <2>1 DEF LifeOK, StacksHeld
  <2>. QED
    BY <2>1, <2>2, <2>3 DEF StacksOwned, Live
<1>. QED
  BY <1>1, LifeInvariant, PTL

\* syscall.c:393-426 against task.c:543-553: no wake-up is lost.
THEOREM WakeupsNotLost == TaskSpec => []NoLostWakeup
<1>1. LifeOK => NoLostWakeup
  <2>. SUFFICES ASSUME LifeOK, irq, NEW t \in Queued(sched_queue), target[t] # 0, ~wait_done[t]
                PROVE  wait_pid[t] = target[t]
                       /\ \E c \in Queued(sched_queue) : pid[c] = target[t] /\ ppid[c] = pid[t]
    BY DEF NoLostWakeup
  <2>1. t \in Live
    BY DEF LifeOK, PidsOK, Live
  <2>2. kills = <<>>
    BY NoCascade DEF LifeOK
  <2>. QED
    BY <2>1, <2>2 DEF LifeOK, WaitersCovered, At, Live
<1>. QED
  BY <1>1, LifeInvariant, PTL

-----------------------------------------------------------------------------
(* Exit statuses.                                                          *)

\* Pids are never used again, but for init's.
PidsDistinct ==
    /\ \A c \in Task : pid[c] <= last_pid
    /\ \A c, d \in Task : pid[c] = pid[d] /\ pid[c] # 0 => c = d
    /\ pid[Init] = 0 => last_pid = 0
    /\ pid[Init] # 0 => pid[Init] = PidInit /\ last_pid >= 1

\* A live task has not exited; unless it sleeps, nobody's death wakes it.
WaitersQuiet ==
    \A t \in Live :
        /\ exited[t] = NoExit
        /\ target[t] <= last_pid
        /\ target[t] = 0 \/ wait_done[t] => wait_pid[t] = NotWaiting

\* The victim whose waiters have still to be woken is out of the queue, or is
\* the new init, and its struct holds the status it has passed.
VictimOK ==
    At("wake") \/ At("respawn") =>
        /\ Head(kills).victim \in Task
        /\ Head(kills).pid = pid[Head(kills).victim]
        /\ Head(kills).victim \in Live => Head(kills).victim = Init
        /\ exited[Head(kills).victim] \in {NoExit, exit_status[Head(kills).victim]}

\* c is the child whose death t awaits.
Awaits(t, c) == target[t] # 0 /\ pid[c] = target[t] /\ ppid[c] = pid[t]

\* A waiter that was woken holds the status of its child.
StatusHeld ==
    \A t \in Live, c \in Task :
        Awaits(t, c) /\ wait_done[t] => c \notin Live /\ exited[c] \in {NoExit, exit_status[t]}

StatusTypes == exited \in [Task -> Status \cup {NoExit}] /\ exit_status \in [Task -> Status]

ExitOK == StatusTypes /\ PidsDistinct /\ WaitersQuiet /\ VictimOK /\ StatusHeld

LEMMA LiveAreTasks == ASSUME SchedInv PROVE \A t \in Live : t \in Task
BY QueuedAreTasks, InvMeaning DEF Live, SchedTypeOK

LEMMA TaskInitExit == ASSUME TaskInit, Live = {} PROVE ExitOK
<1>1. kills = <<>> /\ ~At("wake") /\ ~At("respawn")
  BY DEF TaskInit, At
<1>2. PidsDistinct
  BY InitAssumption DEF TaskInit, PidsDistinct
<1>. QED
  BY <1>1, <1>2, StatusAssumption
  DEF TaskInit, ExitOK, StatusTypes, WaitersQuiet, VictimOK, StatusHeld

\* A step that creates no task and passes no status.
LEMMA QuietExit ==
    ASSUME SchedInv, LifeOK, ExitOK, Live' = Live, UNCHANGED <<procVars, exited>>,
           last_pid' \in Nat, last_pid <= last_pid', pid[Init] = 0 => last_pid' = last_pid,
           VictimOK'
    PROVE  ExitOK'
<1>1. PidsDistinct'
  BY InitAssumption DEF LifeOK, LifeTypes, ExitOK, PidsDistinct, procVars
<1>2. WaitersQuiet'
  <2>. SUFFICES ASSUME NEW t \in Live
                PROVE  target[t] <= last_pid'
    BY DEF WaitersQuiet, ExitOK, procVars
  <2>1. t \in Task
    BY LiveAreTasks
  <2>. QED
    BY <2>1 DEF LifeOK, LifeTypes, ExitOK, WaitersQuiet
<1>3. StatusHeld' /\ StatusTypes'
  BY DEF ExitOK, StatusHeld, StatusTypes, Awaits, procVars
<1>. QED
  BY <1>1, <1>2, <1>3 DEF ExitOK

\* A new task gets a pid that nobody awaits; init is nobody's child.
LEMMA CreationExit ==
    ASSUME SchedInv, LifeOK, ExitOK, NEW t \in Task \ {Idle}, NEW thePid \in Nat, NEW parent,
           NEW status \in Status, NewTask(t, thePid, parent, status),
           \/ t = Init /\ thePid = PidInit /\ parent = NoTask
           \/ t # Init /\ thePid = last_pid + 1 /\ pid[Init] # 0,
           t \notin Live, Live' = Live \cup {t}
    PROVE  StatusTypes' /\ PidsDistinct' /\ WaitersQuiet' /\ StatusHeld'
<1>1. \A u \in Live : u \in Task /\ u # t
  BY LiveAreTasks
<1>2. /\ pid \in [Task -> Nat] /\ ppid \in [Task -> Nat] /\ target \in [Task -> Nat]
      /\ last_pid \in Nat /\ wait_done \in [Task -> BOOLEAN] /\ wait_pid \in [Task -> Int]
      /\ exited \in [Task -> Status \cup {NoExit}] /\ exit_status \in [Task -> Status]
  BY DEF LifeOK, LifeTypes, ExitOK, StatusTypes
<1>3. /\ pid'[t] = thePid /\ ppid'[t] = parent /\ wait_pid'[t] = NotWaiting
      /\ target'[t] = 0 /\ exited'[t] = NoExit /\ last_pid' = last_pid + 1
  BY <1>2 DEF NewTask
<1>4. \A u \in Task \ {t} :
         /\ pid'[u] = pid[u] /\ ppid'[u] = ppid[u] /\ wait_pid'[u] = wait_pid[u]
         /\ wait_done'[u] = wait_done[u] /\ target'[u] = target[u]
         /\ exited'[u] = exited[u] /\ exit_status'[u] = exit_status[u]
  BY <1>2 DEF NewTask
<1>5. StatusTypes'
  BY <1>2 DEF NewTask, StatusTypes
<1>6. PidsDistinct'
  <2>1. \A u \in Task \ {t} : pid[u] # thePid \/ thePid = 0
    BY <1>2, InitAssumption DEF ExitOK, PidsDistinct, PidInit
  <2>2. \A u \in Task : pid'[u] <= last_pid'
    BY <1>2, <1>3, <1>4 DEF ExitOK, PidsDistinct, PidInit
  <2>3. \A u, v \in Task : pid'[u] = pid'[v] /\ pid'[u] # 0 => u = v
    BY <1>3, <1>4, <2>1 DEF ExitOK, PidsDistinct
  <2>4. pid'[Init] = PidInit /\ last_pid' >= 1
    BY <1>2, <1>3, <1>4, InitAssumption DEF ExitOK, PidsDistinct
  <2>. QED
    BY <2>2, <2>3, <2>4 DEF PidsDistinct, PidInit
<1>7. WaitersQuiet'
  <2>. SUFFICES ASSUME NEW u \in Live'
                PROVE  /\ exited'[u] = NoExit /\ target'[u] <= last_pid'
                       /\ target'[u] = 0 \/ wait_done'[u] => wait_pid'[u] = NotWaiting
    BY DEF WaitersQuiet
  <2>1. CASE u = t
    BY <1>2, <1>3, <2>1
  <2>2. CASE u # t
    BY <1>1, <1>2, <1>3, <1>4, <2>2 DEF ExitOK, WaitersQuiet
  <2>. QED
    BY <2>1, <2>2
<1>8. StatusHeld'
  <2>. SUFFICES ASSUME NEW u \in Live', NEW c \in Task, Awaits(u, c)', wait_done'[u]
                PROVE  c \notin Live' /\ exited'[c] \in {NoExit, exit_status'[u]}
    BY DEF StatusHeld
  <2>1. u # t /\ u \in Live /\ u \in Task
    BY <1>1, <1>3 DEF Awaits
  <2>2. c # t
    <3>1. pid[u] # 0 /\ target[u] <= last_pid
      BY <2>1 DEF LifeOK, PidsOK, ExitOK, WaitersQuiet
    <3>. QED
      BY <1>2, <1>3, <1>4, <2>1, <3>1 DEF Awaits, NoTask
  <2>3. Awaits(u, c) /\ wait_done[u]
    BY <1>4, <2>1, <2>2 DEF Awaits
  <2>. QED
    BY <1>4, <2>1, <2>2, <2>3 DEF ExitOK, StatusHeld
<1>. QED
  BY <1>5, <1>6, <1>7, <1>8

LEMMA SpawnInitExit == ASSUME SchedInv, LifeOK, ExitOK, SpawnInit PROVE ExitOK'
<1>1. /\ CreateTask(Init, InitPrio) /\ NewTask(Init, PidInit, NoTask, 0)
      /\ kills' = kills /\ pid[Init] = 0
  BY DEF SpawnInit, CreateInit
<1>2. kills' = <<>>
  BY <1>1 DEF LifeOK, CascadeOK
<1>3. Init \notin Live /\ Live' = Live \cup {Init}
  BY <1>1, InitAssumption, InitPrioAssumption, CreateLive
<1>. HIDE DEF Live, NewTask
<1>4. StatusTypes' /\ PidsDistinct' /\ WaitersQuiet' /\ StatusHeld'
  BY <1>1, <1>3, InitAssumption, StatusAssumption, CreationExit DEF PidInit
<1>. QED
  BY <1>2, <1>4 DEF ExitOK, VictimOK, At

LEMMA ForkExit == ASSUME SchedInv, LifeOK, ExitOK, NEW c \in Task, Fork(c) PROVE ExitOK'
<1>1. /\ irq /\ running_task # Idle /\ c \in Task \ {Idle, Init}
      /\ ForkTask(c) /\ kills' = kills
      /\ NewTask(c, last_pid + 1, pid[running_task], exit_status[running_task])
  BY DEF Fork, InUserMode, Unallocated
<1>2. kills' = <<>> /\ pid[Init] # 0
  BY <1>1, NoCascade DEF LifeOK
<1>3. c \notin Live /\ Live' = Live \cup {c}
  BY <1>1, ForkLive
<1>4. last_pid + 1 \in Nat /\ exit_status[running_task] \in Status
  BY InvMeaning DEF LifeOK, LifeTypes, ExitOK, StatusTypes, SchedTypeOK
<1>. HIDE DEF Live, NewTask
<1>5. StatusTypes' /\ PidsDistinct' /\ WaitersQuiet' /\ StatusHeld'
  BY <1>1, <1>2, <1>3, <1>4, CreationExit
<1>. QED
  BY <1>2, <1>5 DEF ExitOK, VictimOK, At

\* The child is alive, and the caller is not woken before it has died.
LEMMA WaitpidBlockExit ==
    ASSUME SchedInv, LifeOK, ExitOK, NEW c \in Task, WaitpidBlock(c) PROVE ExitOK'
<1>. DEFINE t == running_task
<1>1. /\ irq /\ t # Idle
      /\ sched_queue' = sched_queue
      /\ wait_pid' = [wait_pid EXCEPT ![t] = pid[c]]
      /\ wait_done' = [wait_done EXCEPT ![t] = FALSE]
      /\ target' = [target EXCEPT ![t] = pid[c]]
      /\ UNCHANGED <<pid, ppid, exit_status, last_pid, kills, exited>>
      /\ c \in Queued(sched_queue) /\ ppid[c] = pid[t]
  BY DEF WaitpidBlock, InUserMode, IsChildOf, SuspendRunning, killVars
<1>2. kills' = <<>> /\ Live' = Live /\ t \in Task /\ t \in Live
  BY <1>1, InvMeaning, NoCascade DEF LifeOK, Live, SchedTypeOK, RunningQueued
<1>3. c \in Live
  BY <1>1, <1>2 DEF LifeOK, PidsOK, NoTask, Live
<1>4. \A u \in Live : u \in Task
  BY LiveAreTasks
<1>. HIDE DEF t
<1>5. PidsDistinct' /\ StatusTypes'
  BY <1>1 DEF ExitOK, PidsDistinct, StatusTypes
<1>6. WaitersQuiet'
  <2>. SUFFICES ASSUME NEW u \in Live
                PROVE  /\ exited[u] = NoExit /\ target'[u] <= last_pid
                       /\ target'[u] = 0 \/ wait_done'[u] => wait_pid'[u] = NotWaiting
    BY <1>1, <1>2 DEF WaitersQuiet
  <2>1. CASE u = t
    <3>1. target'[u] = pid[c] /\ wait_done'[u] = FALSE /\ pid[c] # 0 /\ pid[c] <= last_pid
      BY <1>1, <1>2, <1>3, <2>1 DEF LifeOK, LifeTypes, PidsOK, ExitOK, PidsDistinct
    <3>. QED
      BY <3>1 DEF ExitOK, WaitersQuiet
  <2>2. CASE u # t
    BY <1>1, <1>4, <2>2 DEF LifeOK, LifeTypes, ExitOK, WaitersQuiet
  <2>. QED
    BY <2>1, <2>2
<1>7. StatusHeld'
  <2>. SUFFICES ASSUME NEW u \in Live, NEW d \in Task, Awaits(u, d)', wait_done'[u]
                PROVE  d \notin Live /\ exited[d] \in {NoExit, exit_status[u]}
    BY <1>1, <1>2 DEF StatusHeld
  <2>1. u # t /\ wait_done[u] /\ Awaits(u, d)
    BY <1>1, <1>4 DEF LifeOK, LifeTypes, Awaits
  <2>. QED
    BY <2>1 DEF ExitOK, StatusHeld
<1>. QED
  BY <1>2, <1>5, <1>6, <1>7 DEF ExitOK, VictimOK, At

LEMMA WaitpidReturnExit ==
    ASSUME SchedInv, LifeOK, ExitOK, NEW t \in Task, WaitpidReturn(t) PROVE ExitOK'
<1>1. /\ irq /\ wait_done[t] /\ UNCHANGED sched_queue
      /\ wait_done' = [wait_done EXCEPT ![t] = FALSE]
      /\ target' = [target EXCEPT ![t] = 0]
      /\ UNCHANGED <<pid, ppid, wait_pid, exit_status, last_pid, kills>>
      /\ exited' = [c \in Task |-> IF ppid[c] = pid[t] /\ pid[c] = target[t]
                                   THEN NoExit ELSE exited[c]]
  BY DEF WaitpidReturn, schedVars, killVars
<1>2. kills' = <<>> /\ Live' = Live
  BY <1>1, NoCascade DEF LifeOK, Live
<1>3. \A u \in Live : u \in Task
  BY LiveAreTasks
<1>4. PidsDistinct' /\ StatusTypes'
  BY <1>1 DEF ExitOK, PidsDistinct, StatusTypes
<1>5. \A c \in Task : exited'[c] = NoExit \/ exited'[c] = exited[c]
  BY <1>1
<1>6. WaitersQuiet'
  <2>. SUFFICES ASSUME NEW u \in Live
                PROVE  /\ exited'[u] = NoExit /\ target'[u] <= last_pid
                       /\ target'[u] = 0 \/ wait_done'[u] => wait_pid[u] = NotWaiting
    BY <1>1, <1>2 DEF WaitersQuiet
  <2>1. exited'[u] = NoExit
    BY <1>3, <1>5 DEF ExitOK, WaitersQuiet
  <2>2. CASE u = t
    BY <1>1, <1>3, <2>1, <2>2 DEF LifeOK, LifeTypes, ExitOK, WaitersQuiet
  <2>3. CASE u # t
    BY <1>1, <1>3, <2>1, <2>3 DEF LifeOK, LifeTypes, ExitOK, WaitersQuiet
  <2>. QED
    BY <2>2, <2>3
<1>7. StatusHeld'
  <2>. SUFFICES ASSUME NEW u \in Live, NEW d \in Task, Awaits(u, d)', wait_done'[u]
                PROVE  d \notin Live /\ exited'[d] \in {NoExit, exit_status[u]}
    BY <1>1, <1>2 DEF StatusHeld
  <2>1. wait_done[u] /\ Awaits(u, d)
    BY <1>1, <1>3 DEF LifeOK, LifeTypes, Awaits
  <2>. QED
    BY <1>5, <2>1 DEF ExitOK, StatusHeld
<1>. QED
  BY <1>2, <1>4, <1>6, <1>7 DEF ExitOK, VictimOK, At

\* The victim leaves the queue; if it was the caller of exit, its struct holds
\* the status, and nobody who waits for it has been woken yet.
LEMMA EnterKillExit ==
    ASSUME SchedInv, LifeOK, ExitOK, NEW t, NEW rest, EnterKill(t, rest), IsStack(rest),
           UNCHANGED <<pid, ppid, wait_pid, wait_done, target>>, StatusTypes',
           \A c \in Task \ {t} : exited'[c] = exited[c] /\ exit_status'[c] = exit_status[c],
           exited'[t] \in {NoExit, exit_status'[t]}
    PROVE  ExitOK'
<1>. DEFINE f == [victim |-> t, pid |-> pid[t], stack |-> stack_base[t],
                  at |-> IF t = Init THEN "respawn" ELSE "wake", kids |-> <<>>]
<1>1. /\ UnlinkTask(t) /\ kills' = Pushed(f, rest)
      /\ UNCHANGED <<last_pid, stack_base, kstacks>>
  BY DEF EnterKill, Pushed
<1>2. t \in Live /\ t \in Task /\ Live' = Live \ {t}
  BY <1>1, UnlinkLive
<1>3. f.victim = t /\ f.pid = pid[t]
  OBVIOUS
<1>. HIDE DEF f
<1>4. Head(kills') = f
  <2>1. IsStack(kills') /\ Len(kills') \in Nat \ {0} /\ kills'[1] = f
    BY <1>1, PushedStack
  <2>2. kills' # <<>>
    BY <2>1, EmptyStack
  <2>. QED
    BY <2>1, <2>2, PoppedStack
<1>5. \A u \in Live : u \in Task
  BY LiveAreTasks
<1>6. PidsDistinct'
  BY <1>1 DEF ExitOK, PidsDistinct
<1>7. WaitersQuiet'
  BY <1>1, <1>2, <1>5 DEF ExitOK, WaitersQuiet
<1>8. VictimOK'
  BY <1>2, <1>3, <1>4 DEF VictimOK
<1>9. StatusHeld'
  <2>. SUFFICES ASSUME NEW u \in Live', NEW d \in Task, Awaits(u, d)', wait_done'[u]
                PROVE  d \notin Live' /\ exited'[d] \in {NoExit, exit_status'[u]}
    BY DEF StatusHeld
  <2>1. u \in Live /\ u \in Task /\ u # t /\ Awaits(u, d) /\ wait_done[u]
    BY <1>2, <1>5 DEF Awaits
  <2>2. d \notin Live /\ exited[d] \in {NoExit, exit_status[u]}
    BY <2>1 DEF ExitOK, StatusHeld
  <2>. QED
    BY <1>2, <2>1, <2>2
<1>. QED
  BY <1>6, <1>7, <1>8, <1>9 DEF ExitOK

LEMMA ExitExit ==
    ASSUME SchedInv, LifeOK, ExitOK, NEW status \in Status, Exit(status) PROVE ExitOK'
<1>. DEFINE t == running_task
<1>1. /\ EnterKill(t, <<>>) /\ UNCHANGED <<pid, ppid, wait_pid, wait_done, target>>
      /\ exit_status' = [exit_status EXCEPT ![t] = status]
      /\ exited' = [exited EXCEPT ![t] = status]
  BY DEF Exit
<1>2. t \in Task
  BY InvMeaning DEF SchedTypeOK
<1>. HIDE DEF t
<1>3. /\ exited' \in [Task -> Status \cup {NoExit}] /\ exit_status' \in [Task -> Status]
      /\ \A c \in Task \ {t} : exited'[c] = exited[c] /\ exit_status'[c] = exit_status[c]
      /\ exited'[t] = exit_status'[t]
  BY <1>1, <1>2 DEF ExitOK, StatusTypes
<1>. QED
  BY <1>1, <1>3, EmptyStack, EnterKillExit DEF StatusTypes

LEMMA OtherKillExit ==
    ASSUME SchedInv, LifeOK, ExitOK, NEW t, NEW rest, EnterKill(t, rest), IsStack(rest),
           UNCHANGED <<procVars, exited>>
    PROVE  ExitOK'
<1>1. t \in Live
  BY UnlinkLive DEF EnterKill
<1>2. exited'[t] = NoExit
  BY <1>1 DEF ExitOK, WaitersQuiet
<1>. QED
  BY <1>2, EnterKillExit DEF procVars, ExitOK, StatusTypes

LEMMA KillChildExit == ASSUME SchedInv, LifeOK, ExitOK, KillChild PROVE ExitOK'
<1>. DEFINE k == Head(kills)
            below == Tail(kills)
            rest == Pushed(Continued(k, Tail(k.kids)), below)
<1>1. kills # <<>> /\ EnterKill(Head(k.kids), rest) /\ UNCHANGED <<procVars, exited>>
  BY DEF KillChild, At, Pushed, Continued
<1>2. IsStack(below)
  BY <1>1, PoppedStack DEF LifeOK, CascadeOK
<1>. HIDE DEF below
<1>3. IsStack(rest)
  BY <1>2, PushedStack
<1>. QED
  BY <1>1, <1>3, OtherKillExit

\* The waiter takes the status of the only task that has the pid.
LEMMA WakeWaitersExit == ASSUME SchedInv, LifeOK, ExitOK, WakeWaiters PROVE ExitOK'
<1>. DEFINE k == Head(kills)
            v == k.victim
            W == Waiters(k)
            ks == Children(k.pid)
<1>1. /\ kills # <<>> /\ At("wake") /\ sched_queue' = sched_queue
      /\ wait_pid' = [t \in Task |-> IF t \in W THEN NotWaiting ELSE wait_pid[t]]
      /\ wait_done' = [t \in Task |-> t \in W \/ wait_done[t]]
      /\ exit_status' = [t \in Task |-> IF t \in W THEN exit_status[v] ELSE exit_status[t]]
      /\ Advance("children", ks)
      /\ UNCHANGED <<pid, ppid, target, last_pid, exited>>
  BY DEF WakeWaiters, WakeTasks, At, VictimStatus
<1>2. /\ v \in Task /\ k.pid = pid[v] /\ (v \in Live => v = Init)
      /\ exited[v] \in {NoExit, exit_status[v]}
  BY <1>1 DEF ExitOK, VictimOK
<1>3. \A t \in Live : t \in Task /\ (t \in W <=> wait_pid[t] = k.pid)
  BY LiveAreTasks DEF Waiters, Live
<1>. HIDE DEF W, ks
<1>4. ~At("wake")' /\ ~At("respawn")'
  BY <1>1, AdvanceStep DEF At
<1>. HIDE DEF k, v
<1>5. Live' = Live
  BY <1>1 DEF Live
<1>6. \A t \in Live : t \in W => /\ wait_pid[t] = target[t] /\ ~wait_done[t] /\ target[t] # 0
                                 /\ target[t] = pid[v]
  <2>. SUFFICES ASSUME NEW t \in Live, t \in W
                PROVE  wait_pid[t] = target[t] /\ ~wait_done[t] /\ target[t] # 0
                       /\ target[t] = pid[v]
    OBVIOUS
  <2>0. pid[v] \in Nat
    BY <1>2 DEF LifeOK, LifeTypes
  <2>1. wait_pid[t] = pid[v] /\ pid[v] # NotWaiting
    BY <1>2, <1>3, <2>0 DEF NotWaiting
  <2>2. target[t] # 0 /\ ~wait_done[t]
    BY <2>1 DEF ExitOK, WaitersQuiet
  <2>. QED
    BY <2>1, <2>2 DEF LifeOK, WaitersCovered
<1>7. PidsDistinct' /\ StatusTypes'
  <2>1. PidsDistinct'
    BY <1>1 DEF ExitOK, PidsDistinct
  <2>2. \A t \in Task : exit_status[t] \in Status
    BY DEF ExitOK, StatusTypes
  <2>3. \A t \in Task : (IF t \in W THEN exit_status[v] ELSE exit_status[t]) \in Status
    BY <1>2, <2>2
  <2>4. exit_status' \in [Task -> Status]
    BY <1>1, <2>3
  <2>. QED
    BY <1>1, <2>1, <2>4 DEF ExitOK, StatusTypes
<1>8. WaitersQuiet'
  BY <1>1, <1>3, <1>5, <1>6 DEF ExitOK, WaitersQuiet
<1>9. StatusHeld'
  <2>. SUFFICES ASSUME NEW u \in Live, NEW d \in Task, Awaits(u, d), wait_done'[u]
                PROVE  d \notin Live /\ exited[d] \in {NoExit, exit_status'[u]}
    BY <1>1, <1>5 DEF StatusHeld, Awaits
  <2>1. CASE u \in W
    <3>0. pid[d] = pid[v] /\ pid[d] # 0
      BY <1>6, <2>1 DEF Awaits
    <3>1. d = v
      BY <1>2, <3>0 DEF ExitOK, PidsDistinct
    <3>2. d # Init
      BY <1>3 DEF Awaits, LifeOK, PidsOK, NoTask
    <3>3. exit_status'[u] = exit_status[v]
      BY <1>1, <1>3, <2>1
    <3>4. d \notin Live
      BY <1>2, <3>1, <3>2
    <3>. QED
      BY <1>2, <3>1, <3>3, <3>4
  <2>2. CASE u \notin W
    BY <1>1, <1>3, <2>2 DEF ExitOK, StatusHeld
  <2>. QED
    BY <2>1, <2>2
<1>. QED
  BY <1>4, <1>7, <1>8, <1>9 DEF ExitOK, VictimOK

LEMMA RespawnInitExit == ASSUME SchedInv, LifeOK, ExitOK, RespawnInit PROVE ExitOK'
<1>1. /\ kills # <<>> /\ At("respawn") /\ Advance("wake", <<>>)
      /\ CreateTask(Init, InitPrio) /\ NewTask(Init, PidInit, NoTask, 0)
  BY DEF RespawnInit, CreateInit, At
<1>2. Init \notin Live /\ Live' = Live \cup {Init}
  BY <1>1, InitAssumption, InitPrioAssumption, CreateLive
<1>3. /\ Head(kills').pid = Head(kills).pid
      /\ Head(kills').victim = Head(kills).victim
  <2>1. /\ Head(kills').pid = Head(kills).pid /\ Head(kills') = kills'[1] /\ Head(kills) = kills[1]
        /\ \A i \in Active : kills'[i].victim = kills[i].victim
    BY <1>1, AdvanceStep
  <2>2. 1 \in Active
    BY <1>1, PoppedStack DEF LifeOK, CascadeOK, Active
  <2>. QED
    BY <2>1, <2>2
<1>. HIDE DEF Live
<1>4. Head(kills).victim = Init /\ Head(kills).pid = pid[Init] /\ pid[Init] # 0
  BY <1>1 DEF LifeOK, CascadeOK, ExitOK, VictimOK
<1>5. pid'[Init] = PidInit /\ pid[Init] = PidInit /\ exited'[Init] = NoExit
  BY <1>1, <1>4, InitAssumption DEF NewTask, LifeOK, LifeTypes, ExitOK, PidsDistinct, StatusTypes
<1>. HIDE DEF NewTask
<1>6. StatusTypes' /\ PidsDistinct' /\ WaitersQuiet' /\ StatusHeld'
  BY <1>1, <1>2, InitAssumption, StatusAssumption, CreationExit DEF PidInit
<1>7. VictimOK'
  BY <1>3, <1>4, <1>5, InitAssumption DEF VictimOK
<1>. QED
  BY <1>6, <1>7 DEF ExitOK

\* Where an activation goes on in its loop, or is over, nobody is to be woken.
LEMMA LateStepsExit ==
    ASSUME SchedInv, LifeOK, ExitOK, ChildrenDone \/ KillReturn \/ KillSwitch PROVE ExitOK'
<1>1. /\ UNCHANGED <<procVars, exited, last_pid>>
      /\ Live' = Live
  BY DEF ChildrenDone, KillReturn, KillSwitch, Resume, EnableInterrupts, SwitchFromDead,
         schedVars, Live
<1>2. ~At("wake")' /\ ~At("respawn")'
  <2>1. CASE ChildrenDone
    BY <2>1, AdvanceStep DEF ChildrenDone, At
  <2>2. CASE KillSwitch
    BY <2>2 DEF KillSwitch, At
  <2>3. CASE KillReturn
    <3>1. kills # <<>> /\ kills' = Tail(kills)
      BY <2>3 DEF KillReturn, At
    <3>2. /\ IsStack(kills') /\ Len(kills) \in Nat \ {0} /\ Len(kills') = Len(kills) - 1
          /\ \A i \in 1 .. Len(kills) - 1 : kills'[i] = kills[i + 1]
      BY <3>1, PoppedStack DEF LifeOK, CascadeOK
    <3>3. ASSUME kills' # <<>> PROVE Head(kills').at = "children"
      <4>1. Len(kills') \in Nat \ {0} /\ Head(kills') = kills'[1]
        BY <3>2, <3>3, PoppedStack
      <4>2. 2 \in Active /\ kills'[1] = kills[2]
        BY <3>2, <4>1 DEF Active
      <4>. QED
        BY <4>1, <4>2 DEF LifeOK, CascadeOK
    <3>. QED
      BY <3>3 DEF At
  <2>. QED
    BY <2>1, <2>2, <2>3
<1>3. VictimOK' /\ last_pid \in Nat
  BY <1>2 DEF VictimOK, LifeOK, LifeTypes
<1>. QED
  BY <1>1, <1>3, QuietExit

LEMMA TaskNextExit == SchedInv /\ LifeOK /\ ExitOK /\ [TaskNext]_vars => ExitOK'
<1>. SUFFICES ASSUME SchedInv, LifeOK, ExitOK, [TaskNext]_vars PROVE ExitOK'
  OBVIOUS
<1>0. last_pid \in Nat
  BY DEF LifeOK, LifeTypes
<1>1. CASE SpawnInit
  BY <1>1, SpawnInitExit
<1>2. CASE Boot \/ Tick \/ UNCHANGED vars
  <2>1. /\ UNCHANGED <<procVars, exited, last_pid, kills>>
        /\ Live' = Live
    BY <1>2 DEF Boot, Tick, EnableInterrupts, SchedTick, vars, schedVars, killVars, Live
  <2>. QED
    BY <1>0, <2>1, QuietExit DEF ExitOK, VictimOK, At, procVars
<1>3. ASSUME NEW c \in Task, Fork(c) PROVE ExitOK'
  BY <1>3, ForkExit
<1>4. CASE ForkNoStack
  <2>1. /\ UNCHANGED <<procVars, exited, kills>> /\ last_pid' = last_pid + 1
        /\ Live' = Live /\ pid[Init] # 0
    BY <1>4, NoCascade DEF ForkNoStack, InUserMode, LifeOK, schedVars, Live
  <2>. QED
    BY <1>0, <2>1, QuietExit DEF ExitOK, VictimOK, At, procVars
<1>5. ASSUME NEW c \in Task, WaitpidBlock(c) PROVE ExitOK'
  BY <1>5, WaitpidBlockExit
<1>6. ASSUME NEW t \in Task, WaitpidReturn(t) PROVE ExitOK'
  BY <1>6, WaitpidReturnExit
<1>7. ASSUME NEW status \in Status, Exit(status) PROVE ExitOK'
  BY <1>7, ExitExit
<1>8. ASSUME NEW t \in Task, Kill(t) PROVE ExitOK'
  BY <1>8, OtherKillExit, EmptyStack DEF Kill
<1>9. CASE KillStep
  BY <1>9, RespawnInitExit, WakeWaitersExit, KillChildExit, LateStepsExit DEF KillStep
<1>. QED
  BY <1>1, <1>2, <1>3, <1>4, <1>5, <1>6, <1>7, <1>8, <1>9 DEF TaskNext

\* task.c:549 and syscall.c:428-431: waitpid never stores a status that its
\* child, if it called SYS_EXIT_TASK, has not passed.
THEOREM StatusesDelivered == TaskSpec => ExitStatusDelivered
<1>1. TaskInit => ExitOK
  BY TaskInitExit, NobodyLive
<1>2. SchedInv /\ LifeOK /\ ExitOK /\ [TaskNext]_vars => ExitOK'
  BY TaskNextExit
<1>3. ASSUME SchedInv, LifeOK, ExitOK,
             NEW t \in Task, NEW c \in Task, WaitpidReturn(t),
             pid[c] = target[t], ppid[c] = pid[t], exited[c] # NoExit
      PROVE  exit_status[t] = exited[c]
  <2>1. t \in Live /\ target[t] # 0 /\ wait_done[t]
    BY <1>3, InvMeaning DEF WaitpidReturn, RunningQueued, LifeOK, PidsOK, Live
  <2>. QED
    BY <1>3, <2>1 DEF ExitOK, StatusHeld, Awaits
<1>4. SchedInv /\ LifeOK /\ ExitOK =>
         [\A t, c \in Task :
            /\ WaitpidReturn(t)
            /\ pid[c] = target[t] /\ ppid[c] = pid[t] /\ exited[c] # NoExit
            => exit_status[t] = exited[c]]_vars
  BY <1>3
<1>. QED
  BY <1>1, <1>2, <1>4, TaskSchedInv, LifeInvariant, PTL DEF TaskSpec, ExitStatusDelivered

-----------------------------------------------------------------------------
(* What the loop that collects the children finds.                         *)

Longer(s, x, T, n) == IF x \in T /\ Len(s) < n THEN Append(s, x) ELSE s

IsRun(h, m, q, T, n) ==
    /\ h = [i \in 0 .. m |-> h[i]]
    /\ h[0] = <<>>
    /\ \A i \in 1 .. m : h[i] = Longer(h[i - 1], q[i], T, n)

\* The loop of FirstOf has a run.
LEMMA RunExists ==
    ASSUME NEW q, NEW T, NEW n, NEW m \in Nat
    PROVE  \E h : IsRun(h, m, q, T, n)
<1>. DEFINE S == {k \in Nat : \E h : IsRun(h, k, q, T, n)}
<1>1. 0 \in S
  <2>1. IsRun([i \in 0 .. 0 |-> <<>>], 0, q, T, n)
    BY DEF IsRun
  <2>. QED
    BY <2>1
<1>2. ASSUME NEW k \in 1 .. m, k - 1 \in S PROVE k \in S
  <2>1. PICK h : IsRun(h, k - 1, q, T, n)
    BY <1>2
  <2>. DEFINE g == [i \in 0 .. k |-> IF i = k THEN Longer(h[k - 1], q[k], T, n) ELSE h[i]]
  <2>2. g[0] = <<>>
    BY <2>1 DEF IsRun
  <2>3. \A i \in 1 .. k : g[i] = Longer(g[i - 1], q[i], T, n)
    <3>. SUFFICES ASSUME NEW i \in 1 .. k PROVE g[i] = Longer(g[i - 1], q[i], T, n)
      OBVIOUS
    <3>1. i - 1 \in 0 .. k /\ i - 1 # k /\ i \in 0 .. k
      OBVIOUS
    <3>2. g[i - 1] = h[i - 1]
      BY <3>1
    <3>3. CASE i = k
      BY <3>1, <3>2, <3>3
    <3>4. CASE i # k
      <4>1. i \in 1 .. k - 1
        BY <3>4
      <4>2. h[i] = Longer(h[i - 1], q[i], T, n)
        BY <2>1, <4>1 DEF IsRun
      <4>. QED
        BY <3>1, <3>2, <3>4, <4>2
    <3>. QED
      BY <3>3, <3>4
  <2>4. IsRun(g, k, q, T, n)
    <3>1. g = [i \in 0 .. k |-> g[i]]
      OBVIOUS
    <3>. HIDE DEF g
    <3>. QED
      BY <2>2, <2>3, <3>1 DEF IsRun
  <2>. QED
    BY <2>4
<1>. HIDE DEF S
<1>3. 0 .. m \subseteq S
  BY <1>1, <1>2, CountingUp
<1>. QED
  BY <1>3 DEF S

LEMMA FirstOfRuns ==
    ASSUME NEW S, NEW q \in Seq(S), NEW T, NEW n
    PROVE  \E h : IsRun(h, Len(q), q, T, n) /\ FirstOf(q, T, n) = h[Len(q)]
<1>. DEFINE m == Len(q)
            Body(g) == [i \in 0 .. m |->
                          IF i = 0 THEN <<>> ELSE Longer(g[i - 1], q[i], T, n)]
            it == CHOOSE g : g = Body(g)
<1>1. m \in Nat
  OBVIOUS
<1>2. FirstOf(q, T, n) = it[m]
  BY DEF FirstOf, Longer
<1>. HIDE DEF m
<1>3. PICK h : IsRun(h, m, q, T, n)
  BY <1>1, RunExists
<1>4. h = Body(h)
  <2>1. \A i \in 0 .. m : h[i] = IF i = 0 THEN <<>> ELSE Longer(h[i - 1], q[i], T, n)
    BY <1>1, <1>3 DEF IsRun
  <2>. QED
    BY <1>3, <2>1 DEF IsRun
<1>5. it = Body(it)
  BY <1>4
<1>. HIDE DEF it
<1>6. IsRun(it, m, q, T, n)
  <2>1. it = [i \in 0 .. m |-> it[i]]
    BY <1>5
  <2>2. it[0] = <<>>
    BY <1>1, <1>5
  <2>3. ASSUME NEW i \in 1 .. m PROVE it[i] = Longer(it[i - 1], q[i], T, n)
    BY <1>1, <1>5
  <2>. QED
    BY <2>1, <2>2, <2>3 DEF IsRun
<1>. QED
  BY <1>2, <1>6 DEF m

\* b bounds what has been collected: while it leaves room, nothing is missed.
LEMMA FirstOfMembers ==
    ASSUME NEW S, NEW q \in Seq(S), NEW T, NEW n \in Nat, NEW b \in [0 .. Len(q) -> Nat],
           \A i \in 1 .. Len(q) : /\ b[i - 1] <= b[i]
                                  /\ q[i] \in T => b[i - 1] < n /\ b[i - 1] < b[i]
    PROVE  /\ FirstOf(q, T, n) \in Seq(S) /\ Len(FirstOf(q, T, n)) <= n
           /\ \A x : x \in ToSet(FirstOf(q, T, n)) <=> x \in T /\ x \in ToSet(q)
<1>. DEFINE m == Len(q)
            Among(x, i) == \E j \in 1 .. i : q[j] = x
<1>1. m \in Nat /\ \A i \in 1 .. m : q[i] \in S
  OBVIOUS
<1>2. PICK h : IsRun(h, m, q, T, n) /\ FirstOf(q, T, n) = h[m]
  BY FirstOfRuns
<1>. DEFINE Good(i) == /\ h[i] \in Seq(S) /\ Len(h[i]) <= n /\ Len(h[i]) <= b[i]
                       /\ \A x : x \in ToSet(h[i]) <=> x \in T /\ Among(x, i)
            K == {i \in 0 .. m : Good(i)}
<1>3. \A x : x \in ToSet(q) <=> Among(x, m)
  BY InToSet
<1>b. /\ b \in [0 .. m -> Nat]
      /\ \A i \in 1 .. m : b[i - 1] <= b[i] /\ (q[i] \in T => b[i - 1] < n /\ b[i - 1] < b[i])
  OBVIOUS
<1>. HIDE DEF m
<1>4. Good(0)
  <2>1. h[0] = <<>> /\ <<>> \in Seq(S) /\ Len(<<>>) = 0 /\ b[0] \in Nat
    BY <1>1, <1>2, <1>b DEF IsRun
  <2>2. \A x : x \notin ToSet(<<>>)
    BY DEF ToSet
  <2>. QED
    BY <2>1, <2>2
<1>5. ASSUME NEW i \in 1 .. m, Good(i - 1) PROVE Good(i)
  <2>. DEFINE s == h[i - 1]
  <2>1. h[i] = Longer(s, q[i], T, n)
    BY <1>2 DEF IsRun
  <2>2. /\ s \in Seq(S) /\ Len(s) \in Nat /\ Len(s) <= n /\ Len(s) <= b[i - 1]
        /\ b[i] \in Nat /\ b[i - 1] \in Nat /\ b[i - 1] <= b[i]
        /\ q[i] \in T => b[i - 1] < n /\ b[i - 1] < b[i]
        /\ q[i] \in S
    BY <1>1, <1>5, <1>b
  <2>3. \A x : Among(x, i) <=> Among(x, i - 1) \/ x = q[i]
    BY <1>1
  <2>4. \A x : x \in ToSet(s) <=> x \in T /\ Among(x, i - 1)
    BY <1>5
  <2>. HIDE DEF s, Among
  <2>5. CASE q[i] \in T
    <3>1. h[i] = Append(s, q[i])
      BY <2>1, <2>2, <2>5 DEF Longer
    <3>2. h[i] \in Seq(S) /\ Len(h[i]) = Len(s) + 1
      BY <2>2, <3>1
    <3>3. \A x : x \in ToSet(h[i]) <=> x \in ToSet(s) \/ x = q[i]
      <4>1. \A x : x \in ToSet(h[i]) <=> \E j \in 1 .. Len(h[i]) : h[i][j] = x
        BY <3>2, InToSet
      <4>2. \A x : x \in ToSet(s) <=> \E j \in 1 .. Len(s) : s[j] = x
        BY <2>2, InToSet
      <4>3. /\ \A j \in 1 .. Len(s) : h[i][j] = s[j] /\ j \in 1 .. Len(h[i])
            /\ h[i][Len(s) + 1] = q[i] /\ Len(s) + 1 \in 1 .. Len(h[i])
        BY <2>2, <3>1, <3>2
      <4>4. \A j \in 1 .. Len(h[i]) : j \in 1 .. Len(s) \/ j = Len(s) + 1
        BY <2>2, <3>2
      <4>. QED
        BY <4>1, <4>2, <4>3, <4>4
    <3>4. Len(h[i]) <= n /\ Len(h[i]) <= b[i]
      BY <2>2, <2>5, <3>2
    <3>. QED
      BY <2>3, <2>4, <2>5, <3>2, <3>3, <3>4
  <2>6. CASE q[i] \notin T
    <3>1. h[i] = s
      BY <2>1, <2>6 DEF Longer
    <3>. QED
      BY <2>2, <2>3, <2>4, <2>6, <3>1
  <2>. QED
    BY <2>5, <2>6
<1>. HIDE DEF Good
<1>6. 0 .. m \subseteq K
  <2>1. 0 \in K
    BY <1>1, <1>4
  <2>2. ASSUME NEW i \in 1 .. m, i - 1 \in K PROVE i \in K
    BY <1>1, <1>5, <2>2
  <2>. HIDE DEF K
  <2>. QED
    BY <1>1, <2>1, <2>2, CountingUp
<1>7. Good(m)
  BY <1>1, <1>6
<1>. QED
  BY <1>2, <1>3, <1>7 DEF Good

\* A sequence no longer than the array.
LEMMA FirstOfShort ==
    ASSUME NEW S, NEW q \in Seq(S), NEW T, NEW n \in Nat, Len(q) <= n
    PROVE  /\ FirstOf(q, T, n) \in Seq(S)
           /\ \A x : x \in ToSet(FirstOf(q, T, n)) <=> x \in T /\ x \in ToSet(q)
<1>. DEFINE b == [i \in 0 .. Len(q) |-> i]
<1>1. /\ b \in [0 .. Len(q) -> Nat]
      /\ \A i \in 1 .. Len(q) : /\ b[i - 1] <= b[i]
                                /\ q[i] \in T => b[i - 1] < n /\ b[i - 1] < b[i]
  OBVIOUS
<1>. HIDE DEF b
<1>. QED
  BY <1>1, FirstOfMembers

\* A queue with no more elements in T than the array holds.
LEMMA FirstOfFew ==
    ASSUME NEW S, NEW q \in Seq(S), NEW T, NEW n \in Nat,
           \A i, j \in 1 .. Len(q) : q[i] = q[j] => i = j,
           Cardinality({x \in ToSet(q) : x \in T}) <= n
    PROVE  /\ FirstOf(q, T, n) \in Seq(S) /\ Len(FirstOf(q, T, n)) <= n
           /\ \A x : x \in ToSet(FirstOf(q, T, n)) <=> x \in T /\ x \in ToSet(q)
<1>. DEFINE m == Len(q)
            C(i) == {x \in T : \E j \in 1 .. i : q[j] = x}
            b == [i \in 0 .. m |-> Cardinality(C(i))]
            K == {i \in 0 .. m : IsFiniteSet(C(i))}
<1>1. m \in Nat
  OBVIOUS
<1>2. C(m) = {x \in ToSet(q) : x \in T}
  BY InToSet
<1>3. C(0) = {}
  OBVIOUS
<1>4. \A i \in 1 .. m : C(i) = IF q[i] \in T THEN C(i - 1) \cup {q[i]} ELSE C(i - 1)
  BY <1>1
<1>5. \A i \in 1 .. m : q[i] \notin C(i - 1)
  BY <1>1
<1>6. \A i \in 0 .. m : C(i) \subseteq C(m)
  BY <1>1
<1>. HIDE DEF m, C
<1>7. 0 .. m \subseteq K
  <2>1. 0 \in K
    <3>1. IsFiniteSet({})
      BY FS_EmptySet
    <3>2. IsFiniteSet(C(0))
      BY <1>3, <3>1, Zenon
    <3>3. 0 \in 0 .. m
      BY <1>1
    <3>. QED
      BY <3>2, <3>3
  <2>2. ASSUME NEW i \in 1 .. m, i - 1 \in K PROVE i \in K
    <3>1. IsFiniteSet(C(i - 1)) /\ i \in 0 .. m
      BY <1>1, <2>2
    <3>2. IsFiniteSet(C(i - 1) \cup {q[i]})
      BY <3>1, FS_AddElement
    <3>. QED
      BY <1>4, <3>1, <3>2
  <2>. HIDE DEF K
  <2>. QED
    BY <1>1, <2>1, <2>2, CountingUp
<1>8. \A i \in 0 .. m : IsFiniteSet(C(i)) /\ Cardinality(C(i)) \in Nat
  BY <1>7, FS_CardinalityType
<1>9. b \in [0 .. m -> Nat]
  BY <1>8
<1>10. ASSUME NEW i \in 1 .. m
       PROVE  b[i - 1] <= b[i] /\ (q[i] \in T => b[i - 1] < n /\ b[i - 1] < b[i])
  <2>1. i \in 0 .. m /\ i - 1 \in 0 .. m /\ m \in 0 .. m
    BY <1>1
  <2>2. b[i] = Cardinality(C(i)) /\ b[i - 1] = Cardinality(C(i - 1)) /\ b[i] \in Nat /\ b[i - 1] \in Nat
    BY <1>8, <2>1
  <2>3. CASE q[i] \in T
    <3>1. b[i] = b[i - 1] + 1
      BY <1>4, <1>5, <1>8, <2>1, <2>2, <2>3, FS_AddElement
    <3>2. Cardinality(C(i)) <= Cardinality(C(m))
      BY <1>6, <1>8, <2>1, FS_Subset
    <3>3. Cardinality(C(m)) <= n /\ Cardinality(C(m)) \in Nat
      BY <1>2, <1>8, <2>1
    <3>. QED
      BY <2>2, <3>1, <3>2, <3>3
  <2>4. CASE q[i] \notin T
    BY <1>4, <2>1, <2>2, <2>4
  <2>. QED
    BY <2>3, <2>4
<1>. HIDE DEF b
<1>. QED
  BY <1>9, <1>10, FirstOfMembers DEF m

-----------------------------------------------------------------------------
(* The children of a victim.                                               *)

ChildIn(t, k) == t \in ToSet(k.kids)

\* An activation in its loop still has all children that are in the queue.
KidsOK ==
    /\ \A i \in Active : kills[i].kids \in Seq(Task) /\ kills[i].pid \in Nat \ {0}
    /\ \A i \in Active, t \in Queued(sched_queue) :
          kills[i].at = "children" /\ ppid[t] = kills[i].pid => ChildIn(t, kills[i])
    /\ At("end") => \A t \in Queued(sched_queue) : ppid[t] # Head(kills).pid

\* No task has more children than the array of task_kill holds.
ChildrenFit ==
    \A p \in Nat \ {0} : Cardinality({t \in Queued(sched_queue) : ppid[t] = p}) <= MaxChildren

\* task_kill finds all of them, the running task included.
LEMMA ChildrenComplete ==
    ASSUME SchedInv, NEW p \in Nat \ {0}, ChildrenFit
    PROVE  /\ Children(p) \in Seq(Task)
           /\ \A t \in Queued(sched_queue) : ppid[t] = p => t \in ToSet(Children(p))
<1>. DEFINE T == {t \in Task : ppid[t] = p}
            c == Collected(p)
            c1 == FirstOf(c, Task \ {running_task}, MaxChildren)
            c2 == FirstOf(c, {running_task}, MaxChildren)
<1>1. /\ sched_queue \in Seq(Task) /\ MaxChildren \in Nat
      /\ \A i, j \in 1 .. Len(sched_queue) : sched_queue[i] = sched_queue[j] => i = j
  BY MaxChildrenAssumption DEF SchedInv, SchedTypeOK, QueueInv, QueueInjective
<1>2. Queued(sched_queue) = ToSet(sched_queue) /\ \A t \in Queued(sched_queue) : t \in Task
  BY <1>1, QueuedAreTasks DEF Queued
<1>3. {t \in ToSet(sched_queue) : t \in T} = {t \in Queued(sched_queue) : ppid[t] = p}
  BY <1>2
<1>4. Cardinality({t \in ToSet(sched_queue) : t \in T}) <= MaxChildren
  BY <1>3 DEF ChildrenFit
<1>5. c = FirstOf(sched_queue, T, MaxChildren)
  BY DEF Collected
<1>6. \A t : t \in T <=> t \in Task /\ ppid[t] = p
  OBVIOUS
<1>. HIDE DEF c, T
<1>7. /\ c \in Seq(Task) /\ Len(c) <= MaxChildren
      /\ \A x : x \in ToSet(c) <=> x \in T /\ x \in ToSet(sched_queue)
  BY <1>1, <1>4, <1>5, FirstOfFew
<1>8. /\ c1 \in Seq(Task)
      /\ \A x : x \in ToSet(c1) <=> x \in Task \ {running_task} /\ x \in ToSet(c)
  BY <1>1, <1>7, FirstOfShort
<1>9. /\ c2 \in Seq(Task)
      /\ \A x : x \in ToSet(c2) <=> x \in {running_task} /\ x \in ToSet(c)
  BY <1>1, <1>7, FirstOfShort
<1>10. Children(p) = c1 \o c2
  BY DEF Children, c
<1>. HIDE DEF c1, c2
<1>11. c1 \o c2 \in Seq(Task)
  BY <1>8, <1>9
<1>12. \A x : x \in ToSet(c1) \/ x \in ToSet(c2) => x \in ToSet(c1 \o c2)
  <2>. SUFFICES ASSUME NEW x, x \in ToSet(c1) \/ x \in ToSet(c2)
                PROVE  \E i \in 1 .. Len(c1 \o c2) : (c1 \o c2)[i] = x
    BY <1>11, InToSet
  <2>1. CASE x \in ToSet(c1)
    <3>1. PICK i \in 1 .. Len(c1) : c1[i] = x
      BY <1>8, <2>1, InToSet
    <3>2. i \in 1 .. Len(c1 \o c2) /\ (c1 \o c2)[i] = x
      BY <1>8, <1>9, <3>1
    <3>. QED
      BY <3>2
  <2>2. CASE x \in ToSet(c2)
    <3>1. PICK i \in 1 .. Len(c2) : c2[i] = x
      BY <1>9, <2>2, InToSet
    <3>2. Len(c1) + i \in 1 .. Len(c1 \o c2) /\ (c1 \o c2)[Len(c1) + i] = x
      BY <1>8, <1>9, <3>1
    <3>. QED
      BY <3>2
  <2>. QED
    BY <2>1, <2>2
<1>13. ASSUME NEW t \in Queued(sched_queue), ppid[t] = p PROVE t \in ToSet(c1 \o c2)
  <2>1. t \in Task /\ t \in ToSet(c)
    BY <1>2, <1>6, <1>7, <1>13
  <2>. QED
    BY <1>8, <1>9, <1>12, <2>1
<1>. QED
  BY <1>10, <1>11, <1>13

\* A step that leaves the cascade alone, and adds no task while there is one.
LEMMA QuietKids ==
    ASSUME KidsOK, UNCHANGED kills, kills # <<>> => UNCHANGED <<sched_queue, ppid>>,
           CascadeOK
    PROVE  KidsOK'
<1>1. CASE kills = <<>>
  BY <1>1, EmptyStack DEF KidsOK, Active, At
<1>2. CASE kills # <<>>
  BY <1>2 DEF KidsOK, Active, At, ChildIn
<1>. QED
  BY <1>1, <1>2

\* A task enters task_kill: the queue shrinks, and who leaves it is in
\* nobody's way.  g is the activation below, which has taken it off its list.
LEMMA EnterKillKids ==
    ASSUME SchedInv, LifeOK, KidsOK, NEW t, NEW rest, EnterKill(t, rest), UNCHANGED ppid,
           IsStack(rest), Len(rest) = Len(kills),
           \A i \in Active : /\ rest[i].kids \in Seq(Task) /\ rest[i].pid = kills[i].pid
                             /\ kills[i].at = "children"
                             /\ \A u \in Live \ {t} : ChildIn(u, kills[i]) => ChildIn(u, rest[i])
    PROVE  KidsOK'
<1>. DEFINE f == [victim |-> t, pid |-> pid[t], stack |-> stack_base[t],
                  at |-> IF t = Init THEN "respawn" ELSE "wake", kids |-> <<>>]
<1>1. UnlinkTask(t) /\ kills' = Pushed(f, rest)
  BY DEF EnterKill, Pushed
<1>2. /\ t \in Live /\ t \in Task /\ Queued(sched_queue') = Queued(sched_queue) \ {t}
  BY <1>1, UnlinkLive
<1>3. f.kids = <<>> /\ f.pid = pid[t] /\ f.at \in {"respawn", "wake"}
  OBVIOUS
<1>. HIDE DEF f
<1>4. /\ IsStack(kills') /\ Len(kills) \in Nat /\ Active' = 1 .. Len(kills) + 1
      /\ \A i \in 1 .. Len(kills) + 1 : kills'[i] = IF i = 1 THEN f ELSE rest[i - 1]
  BY <1>1, PushedStack DEF Active
<1>5. kills' # <<>> /\ Head(kills') = f /\ kills'[1] = f
  <2>1. kills' # <<>>
    BY <1>4, EmptyStack DEF Active
  <2>. QED
    BY <1>4, <2>1, PoppedStack
<1>6. \A i \in Active' : i # 1 => i - 1 \in Active /\ kills'[i] = rest[i - 1]
  BY <1>4 DEF Active
<1>7. f.kids \in Seq(Task) /\ f.pid \in Nat \ {0}
  BY <1>2, <1>3 DEF LifeOK, LifeTypes, PidsOK
<1>8. \A i \in Active' : kills'[i].kids \in Seq(Task) /\ kills'[i].pid \in Nat \ {0}
  BY <1>5, <1>6, <1>7 DEF KidsOK
<1>9. ASSUME NEW i \in Active', NEW u \in Queued(sched_queue'),
             kills'[i].at = "children", ppid[u] = kills'[i].pid
      PROVE  ChildIn(u, kills'[i])
  <2>1. i # 1 /\ i - 1 \in Active /\ kills'[i] = rest[i - 1]
    BY <1>3, <1>5, <1>6, <1>9
  <2>2. u \in Queued(sched_queue) /\ u # t /\ ppid[u] = kills[i - 1].pid
    BY <1>2, <1>9, <2>1
  <2>3. u \in Live
    BY <2>1, <2>2 DEF Live, KidsOK, LifeOK, PidsOK, NoTask
  <2>. QED
    BY <2>1, <2>2, <2>3 DEF KidsOK
<1>10. ~At("end")'
  BY <1>3, <1>5 DEF At
<1>. QED
  BY <1>8, <1>9, <1>10 DEF KidsOK

LEMMA FirstKillKids ==
    ASSUME SchedInv, LifeOK, KidsOK, NEW t, InUserMode, EnterKill(t, <<>>), UNCHANGED ppid
    PROVE  KidsOK'
<1>1. kills = <<>> /\ Active = {}
  BY NoCascade DEF InUserMode, LifeOK
<1>. QED
  BY <1>1, EmptyStack, EnterKillKids

LEMMA KillChildKids == ASSUME SchedInv, LifeOK, KidsOK, KillChild PROVE KidsOK'
<1>. DEFINE k == Head(kills)
            x == Head(k.kids)
            g == Continued(k, Tail(k.kids))
            below == Tail(kills)
            rest == Pushed(g, below)
<1>1. /\ kills # <<>> /\ k.at = "children" /\ k.kids # <<>>
      /\ EnterKill(x, rest) /\ UNCHANGED procVars
  BY DEF KillChild, At, Pushed, Continued
<1>2. /\ IsStack(below) /\ Len(kills) \in Nat \ {0} /\ k = kills[1]
      /\ Len(below) = Len(kills) - 1
      /\ \A i \in 1 .. Len(kills) - 1 : below[i] = kills[i + 1]
  BY <1>1, PoppedStack DEF LifeOK, CascadeOK
<1>3. IsActivation(k) /\ k.kids \in Seq(Task)
  BY <1>2 DEF LifeOK, CascadeOK, KidsOK, Active
<1>4. g.pid = k.pid /\ g.kids = Tail(k.kids)
  BY <1>3, ChangedActivation
<1>5. ASSUME NEW u, u # x, ChildIn(u, k) PROVE ChildIn(u, g)
  <2>. DEFINE s == k.kids
  <2>1. s \in Seq(Task) /\ s # <<>> /\ g.kids = Tail(s) /\ u # Head(s) /\ u \in ToSet(s)
    BY <1>1, <1>3, <1>4, <1>5 DEF ChildIn
  <2>. HIDE DEF s
  <2>2. Tail(s) \in Seq(Task)
    BY <2>1
  <2>3. PICK i \in 1 .. Len(s) : s[i] = u
    BY <2>1, InToSet
  <2>4. i # 1
    BY <2>1, <2>3
  <2>5. i - 1 \in 1 .. Len(Tail(s)) /\ Tail(s)[i - 1] = u
    BY <2>1, <2>3, <2>4
  <2>6. u \in ToSet(Tail(s))
    BY <2>2, <2>5, InToSet
  <2>. QED
    BY <2>1, <2>6 DEF ChildIn
<1>6. g.kids \in Seq(Task)
  <2>. DEFINE s == k.kids
  <2>1. s \in Seq(Task) /\ s # <<>> /\ g.kids = Tail(s)
    BY <1>1, <1>3, <1>4
  <2>. HIDE DEF s
  <2>. QED
    BY <2>1
<1>. HIDE DEF g, k, below, x
<1>7. /\ IsStack(rest) /\ Len(rest) = Len(kills)
      /\ \A i \in Active : rest[i] = IF i = 1 THEN g ELSE kills[i]
  <2>1. /\ IsStack(rest) /\ Len(rest) = Len(below) + 1
        /\ \A i \in 1 .. Len(below) + 1 : rest[i] = IF i = 1 THEN g ELSE below[i - 1]
    BY <1>2, PushedStack
  <2>. HIDE DEF rest
  <2>. QED
    BY <1>2, <2>1 DEF Active
<1>. HIDE DEF rest
<1>8. \A i \in Active : kills[i].at = "children"
  BY <1>1, <1>2 DEF LifeOK, CascadeOK
<1>9. \A i \in Active : /\ rest[i].kids \in Seq(Task) /\ rest[i].pid = kills[i].pid
                        /\ kills[i].at = "children"
                        /\ \A u \in Live \ {x} : ChildIn(u, kills[i]) => ChildIn(u, rest[i])
  BY <1>2, <1>4, <1>5, <1>6, <1>7, <1>8 DEF KidsOK
<1>. QED
  BY <1>1, <1>7, <1>9, EnterKillKids DEF procVars

\* The loop over the children starts with all of them.
LEMMA WakeWaitersKids ==
    ASSUME SchedInv, LifeOK, KidsOK, ChildrenFit, WakeWaiters PROVE KidsOK'
<1>. DEFINE p == Head(kills).pid
            ks == Children(p)
<1>1. kills # <<>> /\ Advance("children", ks) /\ UNCHANGED <<sched_queue, ppid>>
  BY DEF WakeWaiters, WakeTasks, At
<1>2. Head(kills) = kills[1] /\ 1 \in Active
  BY <1>1, PoppedStack DEF LifeOK, CascadeOK, Active
<1>3. p \in Nat \ {0}
  BY <1>2 DEF KidsOK
<1>4. ks \in Seq(Task) /\ \A t \in Queued(sched_queue) : ppid[t] = p => t \in ToSet(ks)
  BY <1>3, ChildrenComplete
<1>. HIDE DEF ks
<1>5. /\ Active' = Active /\ kills' # <<>> /\ Head(kills').at = "children"
      /\ Head(kills').pid = Head(kills).pid /\ Head(kills').kids = ks
      /\ Head(kills') = kills'[1]
      /\ \A i \in Active : i # 1 => kills'[i] = kills[i]
  BY <1>1, AdvanceStep
<1>6. /\ kills'[1].at = "children" /\ kills'[1].pid = p /\ kills'[1].kids = ks
      /\ ~At("end")'
  BY <1>2, <1>5 DEF At
<1>. HIDE DEF p
<1>7. ASSUME NEW i \in Active
      PROVE  /\ kills'[i].kids \in Seq(Task) /\ kills'[i].pid \in Nat \ {0}
             /\ \A t \in Queued(sched_queue) :
                   kills'[i].at = "children" /\ ppid[t] = kills'[i].pid => ChildIn(t, kills'[i])
  <2>1. CASE i = 1
    BY <1>3, <1>4, <1>6, <2>1 DEF ChildIn
  <2>2. CASE i # 1
    BY <1>5, <2>2 DEF KidsOK
  <2>. QED
    BY <2>1, <2>2
<1>. QED
  BY <1>1, <1>5, <1>6, <1>7 DEF KidsOK

\* The new init is nobody's child.
LEMMA RespawnInitKids == ASSUME SchedInv, LifeOK, KidsOK, RespawnInit PROVE KidsOK'
<1>1. /\ kills # <<>> /\ Advance("wake", <<>>)
      /\ CreateTask(Init, InitPrio) /\ NewTask(Init, PidInit, NoTask, 0)
  BY DEF RespawnInit, CreateInit, At
<1>2. Queued(sched_queue') = Queued(sched_queue) \cup {Init}
  BY <1>1, InitAssumption, InitPrioAssumption, CreateLive
<1>3. /\ ppid'[Init] = NoTask /\ \A t \in Task \ {Init} : ppid'[t] = ppid[t]
  BY <1>1, InitAssumption DEF NewTask, LifeOK, LifeTypes
<1>4. /\ Active' = Active /\ kills' # <<>> /\ Head(kills').at = "wake"
      /\ Head(kills').pid = Head(kills).pid /\ Head(kills').kids = <<>>
      /\ Head(kills') = kills'[1] /\ Head(kills) = kills[1]
      /\ \A i \in Active : i # 1 => kills'[i] = kills[i]
  BY <1>1, AdvanceStep
<1>5. \A t \in Queued(sched_queue) : t \in Task
  BY QueuedAreTasks, InvMeaning DEF SchedTypeOK
<1>6. <<>> \in Seq(Task) /\ ~At("end")'
  BY <1>4 DEF At
<1>7. ASSUME NEW i \in Active
      PROVE  /\ kills'[i].kids \in Seq(Task) /\ kills'[i].pid \in Nat \ {0}
             /\ \A t \in Queued(sched_queue') :
                   kills'[i].at = "children" /\ ppid'[t] = kills'[i].pid => ChildIn(t, kills'[i])
  <2>1. CASE i = 1
    BY <1>4, <1>6, <2>1 DEF KidsOK
  <2>2. CASE i # 1
    BY <1>2, <1>3, <1>4, <1>5, <2>2 DEF KidsOK, NoTask
  <2>. QED
    BY <2>1, <2>2
<1>. QED
  BY <1>4, <1>6, <1>7 DEF KidsOK

\* The loop is left with an empty list, so no child is left.
LEMMA ChildrenDoneKids == ASSUME SchedInv, LifeOK, KidsOK, ChildrenDone PROVE KidsOK'
<1>1. /\ kills # <<>> /\ Head(kills).at = "children" /\ Head(kills).kids = <<>>
      /\ Advance("end", <<>>) /\ UNCHANGED <<sched_queue, ppid>>
  BY DEF ChildrenDone, At, schedVars, procVars
<1>2. /\ Active' = Active /\ kills' # <<>> /\ Head(kills').at = "end"
      /\ Head(kills').pid = Head(kills).pid /\ Head(kills').kids = <<>>
      /\ Head(kills') = kills'[1] /\ Head(kills) = kills[1]
      /\ \A i \in Active : i # 1 => kills'[i] = kills[i]
  BY <1>1, AdvanceStep
<1>3. 1 \in Active /\ <<>> \in Seq(Task) /\ \A t : t \notin ToSet(<<>>)
  BY <1>1, PoppedStack DEF LifeOK, CascadeOK, Active, ToSet
<1>4. ASSUME NEW t \in Queued(sched_queue) PROVE ppid[t] # Head(kills).pid
  BY <1>1, <1>2, <1>3 DEF KidsOK, ChildIn
<1>5. ASSUME NEW i \in Active
      PROVE  /\ kills'[i].kids \in Seq(Task) /\ kills'[i].pid \in Nat \ {0}
             /\ \A t \in Queued(sched_queue) :
                   kills'[i].at = "children" /\ ppid[t] = kills'[i].pid => ChildIn(t, kills'[i])
  <2>1. CASE i = 1
    BY <1>2, <1>3, <2>1 DEF KidsOK
  <2>2. CASE i # 1
    BY <1>2, <2>2 DEF KidsOK
  <2>. QED
    BY <2>1, <2>2
<1>. QED
  BY <1>1, <1>2, <1>4, <1>5 DEF KidsOK

\* The activation below goes on where it was.
LEMMA KillReturnKids == ASSUME SchedInv, LifeOK, KidsOK, KillReturn PROVE KidsOK'
<1>1. /\ kills # <<>> /\ kills' = Tail(kills) /\ UNCHANGED <<sched_queue, ppid>>
  BY DEF KillReturn, At, Resume, EnableInterrupts, schedVars, procVars
<1>2. /\ IsStack(kills') /\ Len(kills) \in Nat \ {0} /\ Len(kills') = Len(kills) - 1
      /\ \A i \in 1 .. Len(kills) - 1 : kills'[i] = kills[i + 1]
  BY <1>1, PoppedStack DEF LifeOK, CascadeOK
<1>3. \A i \in Active' : i + 1 \in Active /\ i + 1 # 1 /\ kills'[i] = kills[i + 1]
  BY <1>2 DEF Active
<1>4. ~At("end")'
  <2>1. ASSUME kills' # <<>> PROVE Head(kills').at = "children"
    <3>1. Head(kills') = kills'[1] /\ 1 \in Active'
      BY <1>2, <2>1, PoppedStack DEF Active
    <3>. QED
      BY <1>3, <3>1 DEF LifeOK, CascadeOK
  <2>. QED
    BY <2>1 DEF At
<1>. QED
  BY <1>1, <1>3, <1>4 DEF KidsOK

LEMMA TaskNextKids ==
    SchedInv /\ LifeOK /\ KidsOK /\ ChildrenFit /\ [TaskNext]_vars => KidsOK'
<1>. SUFFICES ASSUME SchedInv, LifeOK, KidsOK, ChildrenFit, [TaskNext]_vars PROVE KidsOK'
  OBVIOUS
<1>0. CascadeOK
  BY DEF LifeOK
<1>1. CASE SpawnInit
  <2>1. kills = <<>> /\ kills' = <<>>
    BY <1>0, <1>1 DEF SpawnInit, CascadeOK
  <2>. QED
    BY <1>0, <2>1, QuietKids
<1>2. CASE Boot \/ Tick \/ ForkNoStack \/ UNCHANGED vars
  <2>1. UNCHANGED <<kills, ppid, sched_queue>>
    BY <1>2 DEF Boot, Tick, ForkNoStack, EnableInterrupts, SchedTick, vars, schedVars, procVars, killVars
  <2>. QED
    BY <1>0, <2>1, QuietKids
<1>3. ASSUME NEW c \in Task, Fork(c) PROVE KidsOK'
  <2>1. kills = <<>> /\ kills' = <<>>
    BY <1>0, <1>3, NoCascade DEF Fork, InUserMode
  <2>. QED
    BY <1>0, <2>1, QuietKids
<1>4. ASSUME NEW c \in Task, WaitpidBlock(c) PROVE KidsOK'
  BY <1>0, <1>4, QuietKids, NoCascade DEF WaitpidBlock, InUserMode, killVars
<1>5. ASSUME NEW t \in Task, WaitpidReturn(t) PROVE KidsOK'
  BY <1>0, <1>5, QuietKids, NoCascade DEF WaitpidReturn, killVars
<1>6. ASSUME NEW status \in Status, Exit(status) PROVE KidsOK'
  BY <1>6, FirstKillKids DEF Exit
<1>7. ASSUME NEW t \in Task, Kill(t) PROVE KidsOK'
  BY <1>7, FirstKillKids DEF Kill, procVars
<1>8. CASE KillSwitch
  BY <1>8, EmptyStack DEF KillSwitch, KidsOK, Active, At
<1>9. CASE KillStep
  BY <1>8, <1>9, RespawnInitKids, WakeWaitersKids, KillChildKids, ChildrenDoneKids, KillReturnKids
  DEF KillStep
<1>. QED
  BY <1>1, <1>2, <1>3, <1>4, <1>5, <1>6, <1>7, <1>9 DEF TaskNext

\* task.c:555-573: when an activation of task_kill is over, its victim has no
\* child left, as long as no task has more children than the array holds.
THEOREM VictimsLeaveNoChild == TaskSpec /\ []ChildrenFit => VictimLeavesNoChild
<1>1. TaskInit => KidsOK
  BY EmptyStack DEF TaskInit, KidsOK, Active, At
<1>2. SchedInv /\ LifeOK /\ KidsOK /\ ChildrenFit /\ [TaskNext]_vars => KidsOK'
  BY TaskNextKids
<1>3. KidsOK => [KillReturn \/ KillSwitch =>
                   \A t \in Queued(sched_queue') : ppid[t] # Head(kills).pid]_vars
  BY DEF KidsOK, KillReturn, KillSwitch, Resume, EnableInterrupts, SwitchFromDead, schedVars
<1>. QED
  BY <1>1, <1>2, <1>3, TaskSchedInv, LifeInvariant, PTL DEF TaskSpec, VictimLeavesNoChild

============================================================================
