----------------------------- MODULE SchedQueue -----------------------------
(***************************************************************************)
(* The scheduler's queue as data: sched_queue, a doubly linked list of     *)
(* struct task, is a sequence of tasks here; a task's static and dynamic   *)
(* priorities are functions of the task.  The operators below are the pure *)
(* part of src/kernel/sched.c and of the list surgery of                   *)
(* src/kernel/task.c; the modules Sched and Tasks make them happen.        *)
(***************************************************************************)
EXTENDS Integers, SequencesExt

CONSTANTS Task,     \* the task structs
          Idle,     \* idle_task, the struct whose pid is PID_IDLE
          MaxPrio   \* SCHED_LEVEL_MAX

ASSUME IdleAssumption == Idle \in Task
ASSUME MaxPrioAssumption == MaxPrio \in Nat \ {0}

LevelSusp == 0
LevelIdle == -1
LevelMin  == 1

Prio == LevelMin .. MaxPrio

Queued(q) == ToSet(q)

InsertPosAscending(q, ps, p) ==     \* mutant: the comparison turned round
    LET above == {i \in 1 .. Len(q) : p <= ps[q[i]]}
    IN  IF above = {} THEN Len(q) + 1 ELSE Min(above)

\* insert_task_sorted: before the first task the new one is not below,
\* else after the last node.
InsertPos(q, ps, p) ==
    LET below == {i \in 1 .. Len(q) : p >= ps[q[i]]}
    IN  IF below = {} THEN Len(q) + 1 ELSE Min(below)

InsertSorted(q, ps, t, p) == InsertAt(q, InsertPos(q, ps, p), t)

PosOf(q, t) == CHOOSE i \in 1 .. Len(q) : q[i] = t

Unlink(q, t) == RemoveAt(q, PosOf(q, t))

InFrontOfIdle(q) == {q[i] : i \in {j \in 1 .. Len(q) : \A k \in 1 .. j : q[k] # Idle}}

ResetAwake(q, ps, pd) ==            \* mutant: passes over tasks at level 0
    [t \in Task |-> IF t \in InFrontOfIdle(q) /\ pd[t] # LevelSusp THEN ps[t] ELSE pd[t]]

ResetToMax(q, ps, pd) ==            \* mutant: forgets the static priority
    [t \in Task |-> IF t \in InFrontOfIdle(q) THEN MaxPrio ELSE pd[t]]

\* reset_all_priorities: every task in front of idle starts a new cycle.
ResetPriorities(q, ps, pd) ==
    [t \in Task |-> IF t \in InFrontOfIdle(q) THEN ps[t] ELSE pd[t]]

StopsAtAny(q, pd, i) ==             \* mutant: does not skip the suspended
    i < Len(q) => pd[q[i]] >= pd[q[i + 1]]

\* The loop at the label pick: skip the suspended, climb while the next task
\* has a higher dynamic priority, stop at the first task that has not.
StopsAt(q, pd, i) ==
    /\ pd[q[i]] # LevelSusp
    /\ i < Len(q) => pd[q[i]] >= pd[q[i + 1]]

PickPos(q, pd) == Min({i \in 1 .. Len(q) : StopsAt(q, pd, i)})

InTieGroup(q, pd, i, t) ==
    \E k \in i .. Len(q) : q[k] = t /\ \A m \in i .. k : pd[q[m]] = pd[q[i]]

\* Within a tie the task that ran last is preferred, else the first one.
Pick(q, pd, running) ==
    LET i == PickPos(q, pd)
    IN  IF InTieGroup(q, pd, i, running) THEN running ELSE q[i]

AgedTwice(pd, t) ==                 \* mutant: pays two levels
    IF t # Idle /\ pd[t] > 0
    THEN [pd EXCEPT ![t] = IF @ > 1 THEN @ - 2 ELSE 0] ELSE pd

\* The picked task pays one level for its tick; idle never does.
Aged(pd, t) ==
    IF t # Idle /\ pd[t] > 0 THEN [pd EXCEPT ![t] = @ - 1] ELSE pd

=============================================================================
