----------------------------- MODULE SchedCycle -----------------------------
(***************************************************************************)
(* The scheduling cycle of the comment at the head of src/kernel/sched.c.  *)
(* Sched runs freely until, in any state it has reached, the tasks settle: *)
(* from then on they only compute, and nothing but timer ticks happens.    *)
(* runs counts the ticks each task was picked at since the first new cycle *)
(* after that.                                                             *)
(***************************************************************************)
EXTENDS Sched

VARIABLES phase,        \* "open", then "settled", then "counting"
          runs,         \* history
          total_ticks   \* since the tasks settled, modulo 2

cycleVars == <<schedVars, phase, runs, total_ticks>>

CycleInit ==
    /\ SchedInit
    /\ phase = "open"
    /\ runs = [t \in Task |-> 0]
    /\ total_ticks = 0

Unsettled ==
    /\ phase = "open"
    /\ SchedNext
    /\ UNCHANGED <<phase, runs, total_ticks>>

Settle ==
    /\ phase = "open"
    /\ irq
    /\ phase' = "settled"
    /\ UNCHANGED <<schedVars, runs, total_ticks>>

\* All tasks but idle have aged to 0: the next tick starts a new cycle.
CycleOver == \A t \in Queued(sched_queue) \ {Idle} : prio_d[t] = LevelSusp

Ticks == total_ticks' = (total_ticks + 1) % 2

CycleTick ==
    /\ phase # "open"
    /\ SchedTick
    /\ Ticks
    /\ phase' = IF CycleOver THEN "counting" ELSE phase
    /\ runs' = [t \in Task |->
                  (IF CycleOver THEN 0 ELSE runs[t])
                  + (IF phase' = "counting" /\ t = running_task' THEN 1 ELSE 0)]

CycleNext == Unsettled \/ Settle \/ CycleTick

\* The timer does not stop.
CycleSpec ==
    CycleInit /\ [][CycleNext]_cycleVars /\ WF_total_ticks(phase # "open" /\ Ticks)

\* sched.c:79-81: in a complete cycle each task runs as many times as its
\* static priority says, whatever was suspended, half aged or forked when the
\* tasks settled, and whatever order the tie breaks produce.
CycleRunsEqualStaticPriority ==
    phase = "counting" /\ CycleOver =>
        \A t \in Queued(sched_queue) \ {Idle} : runs[t] = prio_s[t]

\* The concern of sched.c:28-39: within a cycle no task gets ahead of one with
\* a higher static priority, although the dynamic priorities do cross.
NoPriorityInversion ==
    phase = "counting" =>
        \A t, u \in Queued(sched_queue) \ {Idle} :
            prio_s[t] > prio_s[u] => runs[t] >= runs[u]

\* sched.c:19-26: ageing keeps every task from starving, those that were
\* suspended when the tasks settled included.
NoStarvation ==
    \A t \in Task \ {Idle} :
        phase # "open" /\ t \in Queued(sched_queue) ~> running_task = t

=============================================================================
