---------------------------- MODULE SchedProofs ----------------------------
(***************************************************************************)
(* Proofs about Sched and the cycle that SchedCycle counts, for every set  *)
(* of tasks and every MaxPrio.                                             *)
(***************************************************************************)
EXTENDS SchedCycle, SeqLemmas

\* Type correctness and the queue invariant support each other: the shape of
\* the queue bounds the priorities that the actions compute.
SchedInv == SchedTypeOK /\ QueueInv

-----------------------------------------------------------------------------
(* The operators of SchedQueue.                                            *)

\* The walk at pick stops in the queue, as the task at the tail is never
\* suspended, and it stops at the first place it can.
LEMMA PickPosProperties ==
    ASSUME NEW q \in Seq(Task), Len(q) > 0,
           NEW pd \in [Task -> Int], pd[q[Len(q)]] # LevelSusp
    PROVE  /\ PickPos(q, pd) \in 1 .. Len(q)
           /\ StopsAt(q, pd, PickPos(q, pd))
           /\ \A j \in 1 .. Len(q) : StopsAt(q, pd, j) => PickPos(q, pd) <= j
<1>. DEFINE S == {i \in 1 .. Len(q) : StopsAt(q, pd, i)}
<1>1. Len(q) \in S
  BY DEF StopsAt
<1>2. S \subseteq Nat /\ S # {}
  BY <1>1
<1>. HIDE DEF S
<1>3. Min(S) \in S /\ \A j \in S : Min(S) <= j
  BY <1>2, MinOfNats
<1>. QED
  BY <1>3 DEF S, PickPos

\* The task picked is queued and has the level of the place where the walk
\* stopped, which is not the level of suspended tasks.
LEMMA PickProperties ==
    ASSUME NEW q \in Seq(Task), Len(q) > 0,
           NEW pd \in [Task -> Int], pd[q[Len(q)]] # LevelSusp,
           NEW running \in Task
    PROVE  /\ Pick(q, pd, running) \in Queued(q)
           /\ pd[Pick(q, pd, running)] = pd[q[PickPos(q, pd)]]
           /\ pd[Pick(q, pd, running)] # LevelSusp
<1>. DEFINE i == PickPos(q, pd)
<1>1. i \in 1 .. Len(q) /\ StopsAt(q, pd, i)
  BY PickPosProperties
<1>. HIDE DEF i
<1>2. CASE InTieGroup(q, pd, i, running)
  <2>1. PICK k \in i .. Len(q) : q[k] = running /\ \A m \in i .. k : pd[q[m]] = pd[q[i]]
    BY <1>2 DEF InTieGroup
  <2>2. k \in 1 .. Len(q) /\ pd[q[k]] = pd[q[i]]
    BY <1>1, <2>1
  <2>. QED
    BY <1>1, <1>2, <2>1, <2>2 DEF Pick, i, Queued, ToSet, StopsAt
<1>3. CASE ~InTieGroup(q, pd, i, running)
  BY <1>1, <1>3 DEF Pick, i, Queued, ToSet, StopsAt
<1>. QED
  BY <1>2, <1>3

\* The place where insert_task_sorted links a task: everything before it has
\* a higher static priority, nothing from there on has.
LEMMA InsertPosProperties ==
    ASSUME NEW q \in Seq(Task), NEW ps \in [Task -> Int], NEW p \in Int,
           \A i, j \in 1 .. Len(q) : i < j => ps[q[i]] >= ps[q[j]]
    PROVE  /\ InsertPos(q, ps, p) \in 1 .. Len(q) + 1
           /\ \A j \in 1 .. Len(q) : j < InsertPos(q, ps, p) => ps[q[j]] > p
           /\ \A j \in 1 .. Len(q) : j >= InsertPos(q, ps, p) => ps[q[j]] <= p
<1>. DEFINE S == {i \in 1 .. Len(q) : p >= ps[q[i]]}
<1>1. InsertPos(q, ps, p) = IF S = {} THEN Len(q) + 1 ELSE Min(S)
  BY DEF InsertPos
<1>2. CASE S = {}
  <2>1. \A j \in 1 .. Len(q) : ps[q[j]] > p
    <3>1. \A j \in 1 .. Len(q) : q[j] \in Task
      OBVIOUS
    <3>. QED
      BY <1>2, <3>1
  <2>. QED
    BY <1>1, <1>2, <2>1
<1>3. CASE S # {}
  <2>1. S \subseteq Nat
    OBVIOUS
  <2>. HIDE DEF S
  <2>2. Min(S) \in S /\ \A j \in S : Min(S) <= j
    BY <1>3, <2>1, MinOfNats
  <2>3. \A j \in 1 .. Len(q) : ps[q[j]] \in Int
    OBVIOUS
  <2>4. \A j \in 1 .. Len(q) : j < Min(S) => ps[q[j]] > p
    BY <2>2, <2>3 DEF S
  <2>5. Min(S) \in 1 .. Len(q) /\ ps[q[Min(S)]] <= p
    BY <2>2, <2>3 DEF S
  <2>6. \A j \in 1 .. Len(q) : j >= Min(S) => ps[q[j]] <= p
    BY <2>3, <2>5
  <2>. QED
    BY <1>1, <1>3, <2>4, <2>5, <2>6
<1>. QED
  BY <1>2, <1>3

-----------------------------------------------------------------------------
(* The list: what every mutation of it must keep.                          *)

\* The pairs of tasks that may follow each other in the queue.
Precedes(ps) ==
    {e \in Task \X Task : e[1] # e[2] /\ ps[e[1]] >= ps[e[2]]}

ListOK(q, ps) ==
    /\ Pairwise(Precedes(ps), q)
    /\ Len(q) > 0 /\ q[Len(q)] = Idle

\* The pairs in other words.
LEMMA PrecedesPair ==
    ASSUME NEW ps, NEW x \in Task, NEW y \in Task
    PROVE  <<x, y>> \in Precedes(ps) <=> x # y /\ ps[x] >= ps[y]
BY DEF Precedes

\* ListOK is the part of QueueInv that speaks of the list alone.
LEMMA ListOKMeaning ==
    ASSUME NEW q \in Seq(Task), NEW ps
    PROVE  ListOK(q, ps) <=>
              /\ \A i, j \in 1 .. Len(q) : q[i] = q[j] => i = j
              /\ \A i, j \in 1 .. Len(q) : i < j => ps[q[i]] >= ps[q[j]]
              /\ Len(q) > 0 /\ q[Len(q)] = Idle
<1>1. ASSUME NEW i \in 1 .. Len(q), NEW j \in 1 .. Len(q)
      PROVE  <<q[i], q[j]>> \in Precedes(ps) <=> q[i] # q[j] /\ ps[q[i]] >= ps[q[j]]
  BY PrecedesPair
<1>2. ASSUME ListOK(q, ps)
      PROVE  /\ \A i, j \in 1 .. Len(q) : q[i] = q[j] => i = j
             /\ \A i, j \in 1 .. Len(q) : i < j => ps[q[i]] >= ps[q[j]]
  <2>1. ASSUME NEW i \in 1 .. Len(q), NEW j \in 1 .. Len(q), i < j
        PROVE  q[i] # q[j] /\ ps[q[i]] >= ps[q[j]]
    BY <1>1, <1>2, <2>1 DEF ListOK, Pairwise
  <2>2. ASSUME NEW i \in 1 .. Len(q), NEW j \in 1 .. Len(q), q[i] = q[j]
        PROVE  i = j
    <3>1. ~(i < j) /\ ~(j < i)
      BY <2>1, <2>2
    <3>. QED
      BY <3>1
  <2>. QED
    BY <2>1, <2>2
<1>3. ASSUME \A i, j \in 1 .. Len(q) : q[i] = q[j] => i = j,
             \A i, j \in 1 .. Len(q) : i < j => ps[q[i]] >= ps[q[j]]
      PROVE  Pairwise(Precedes(ps), q)
  <2>1. ASSUME NEW i \in 1 .. Len(q), NEW j \in 1 .. Len(q), i < j
        PROVE  <<q[i], q[j]>> \in Precedes(ps)
    BY <1>1, <1>3, <2>1
  <2>. QED
    BY <2>1 DEF Pairwise
<1>. QED
  BY <1>2, <1>3 DEF ListOK

\* The order depends on the priorities of the tasks in the list only.
LEMMA ListOKCongruence ==
    ASSUME NEW q \in Seq(Task), NEW ps, NEW rs, ListOK(q, ps),
           \A x \in Queued(q) : rs[x] = ps[x]
    PROVE  ListOK(q, rs)
<1>1. \A i \in 1 .. Len(q) : q[i] \in Task /\ rs[q[i]] = ps[q[i]]
  BY InToSet DEF Queued
<1>2. ASSUME NEW i \in 1 .. Len(q), NEW j \in 1 .. Len(q), i < j
      PROVE  <<q[i], q[j]>> \in Precedes(rs)
  <2>1. <<q[i], q[j]>> \in Precedes(ps)
    BY <1>2 DEF ListOK, Pairwise
  <2>. QED
    BY <1>1, <2>1, PrecedesPair
<1>. QED
  BY <1>2 DEF ListOK, Pairwise

\* insert_task_sorted keeps the list in order, for a task that is not in it
\* and a priority above that of idle.
LEMMA InsertKeepsList ==
    ASSUME NEW q \in Seq(Task), NEW ps \in [Task -> Int], ListOK(q, ps),
           NEW t \in Task, t \notin Queued(q),
           NEW p \in Int, p > ps[Idle]
    PROVE  /\ InsertSorted(q, ps, t, p) \in Seq(Task)
           /\ ListOK(InsertSorted(q, ps, t, p), [ps EXCEPT ![t] = p])
           /\ Queued(InsertSorted(q, ps, t, p)) = Queued(q) \cup {t}
<1>. DEFINE rs == [ps EXCEPT ![t] = p]
            R  == Precedes(rs)
            k  == InsertPos(q, ps, p)
            r  == InsertAt(q, k, t)
<1>1. ASSUME NEW i \in 1 .. Len(q), NEW j \in 1 .. Len(q), i < j
      PROVE  ps[q[i]] >= ps[q[j]]
  <2>1. <<q[i], q[j]>> \in Precedes(ps)
    BY <1>1 DEF ListOK, Pairwise
  <2>. QED
    BY <2>1, PrecedesPair
<1>2. /\ k \in 1 .. Len(q) + 1
      /\ \A j \in 1 .. Len(q) : j < k => ps[q[j]] > p
      /\ \A j \in 1 .. Len(q) : j >= k => ps[q[j]] <= p
  BY <1>1, InsertPosProperties
<1>. HIDE DEF k
<1>3. r \in Seq(Task) /\ IsInsertion(r, q, k, t)
  BY <1>2, InsertAtProperties
<1>4. r = InsertSorted(q, ps, t, p)
  BY DEF InsertSorted, k
<1>. HIDE DEF r
<1>5. \A j \in 1 .. Len(q) : q[j] \in Task /\ q[j] # t /\ rs[q[j]] = ps[q[j]]
  BY InToSet DEF Queued
<1>6. rs[t] = p /\ \A x \in Task : rs[x] \in Int
  OBVIOUS
<1>7. ListOK(q, rs)
  <2>1. \A x \in Queued(q) : rs[x] = ps[x]
    BY <1>5, InToSet DEF Queued
  <2>. QED
    BY <2>1, ListOKCongruence
<1>. HIDE DEF rs
<1>8. \A j \in 1 .. Len(q) :
         IF j < k THEN <<q[j], t>> \in R ELSE <<t, q[j]>> \in R
  <2>1. \A j \in 1 .. Len(q) : IF j < k THEN rs[q[j]] >= rs[t] ELSE rs[t] >= rs[q[j]]
    BY <1>2, <1>5, <1>6
  <2>. QED
    BY <1>5, <2>1, PrecedesPair
<1>9. Pairwise(R, q)
  BY <1>7 DEF ListOK
<1>. HIDE DEF R
<1>10. Pairwise(R, r)
  BY <1>2, <1>3, <1>8, <1>9, InsertedPairs
<1>12. k <= Len(q)
  <2>1. ps[q[Len(q)]] < p
    BY DEF ListOK
  <2>2. Len(q) \in 1 .. Len(q) /\ ps[q[Len(q)]] \in Int
    BY DEF ListOK
  <2>. QED
    BY <1>2, <2>1, <2>2
<1>13. Len(r) > 0 /\ r[Len(r)] = Idle
  <2>1. PICK n \in 1 .. Len(r) : n = Len(r) /\ n > k /\ n - 1 = Len(q)
    BY <1>2, <1>3, <1>12 DEF IsInsertion
  <2>2. r[n] = q[n - 1]
    BY <1>2, <1>3, <2>1 DEF IsInsertion
  <2>. QED
    BY <2>1, <2>2, <1>2 DEF ListOK
<1>14. Queued(r) = Queued(q) \cup {t}
  BY <1>2, <1>3, InsertedMembers DEF Queued
<1>. QED
  BY <1>3, <1>4, <1>10, <1>13, <1>14 DEF ListOK, R, rs

\* The unlinking in task_kill takes out its task and nothing else.
LEMMA UnlinkKeepsList ==
    ASSUME NEW q \in Seq(Task), NEW ps, ListOK(q, ps),
           NEW t \in Queued(q) \ {Idle}
    PROVE  /\ Unlink(q, t) \in Seq(Task)
           /\ ListOK(Unlink(q, t), ps)
           /\ Queued(Unlink(q, t)) = Queued(q) \ {t}
<1>. DEFINE R == Precedes(ps)
            k == PosOf(q, t)
            r == RemoveAt(q, k)
<1>1. k \in 1 .. Len(q) /\ q[k] = t
  BY InToSet DEF PosOf, Queued
<1>2. r = Unlink(q, t)
  BY DEF Unlink
<1>. HIDE DEF k
<1>3. r \in Seq(Task) /\ IsRemoval(r, q, k)
  BY <1>1, RemoveAtProperties
<1>. HIDE DEF r
<1>4. Pairwise(R, q)
  BY DEF ListOK
<1>. HIDE DEF R
<1>5. Pairwise(R, r)
  BY <1>1, <1>3, <1>4, RemovedPairs
<1>6. k < Len(q)
  BY <1>1 DEF ListOK
<1>7. Len(r) > 0 /\ r[Len(r)] = Idle
  <2>1. Len(r) + 1 = Len(q) /\ ~(Len(r) < k) /\ Len(r) \in 1 .. Len(q) - 1
    BY <1>1, <1>3, <1>6 DEF IsRemoval
  <2>2. r[Len(r)] = q[Len(q)]
    BY <1>3, <2>1 DEF IsRemoval
  <2>. QED
    BY <2>1, <2>2, <1>1 DEF ListOK
<1>8. \A i \in 1 .. Len(q) : q[i] = q[k] => i = k
  BY <1>1, ListOKMeaning
<1>9. Queued(r) = Queued(q) \ {t}
  BY <1>1, <1>3, <1>8, RemovedMembers DEF Queued
<1>. QED
  BY <1>2, <1>3, <1>5, <1>7, <1>9 DEF ListOK, R

-----------------------------------------------------------------------------
(* The priorities.                                                         *)

\* PrioritiesInRange, for any queue and priorities.
InRange(q, ps, pd) ==
    \A t \in Queued(q) :
        IF t = Idle
        THEN ps[t] = LevelIdle /\ pd[t] = LevelIdle
        ELSE ps[t] \in Prio /\ pd[t] \in LevelSusp .. ps[t]

\* Only tasks are queued.
LEMMA QueuedAreTasks ==
    ASSUME NEW q \in Seq(Task)
    PROVE  \A x \in Queued(q) : x \in Task
BY InToSet DEF Queued

\* In front of idle is every other task of the list.
LEMMA FrontIsRest ==
    ASSUME NEW q \in Seq(Task), NEW ps, ListOK(q, ps)
    PROVE  InFrontOfIdle(q) = Queued(q) \ {Idle}
<1>1. \A x : x \in Queued(q) <=> \E i \in 1 .. Len(q) : q[i] = x
  BY InToSet DEF Queued
<1>2. ASSUME NEW j \in 1 .. Len(q), q[j] # Idle, NEW k \in 1 .. j
      PROVE  q[k] # Idle
  <2>1. Len(q) \in 1 .. Len(q) /\ k \in 1 .. Len(q) /\ k < Len(q)
    BY <1>2 DEF ListOK
  <2>2. q[k] # q[Len(q)]
    BY <2>1, ListOKMeaning
  <2>. QED
    BY <2>2 DEF ListOK
<1>3. \A x \in InFrontOfIdle(q) : x \in Queued(q) \ {Idle}
  BY <1>1 DEF InFrontOfIdle
<1>4. \A x \in Queued(q) \ {Idle} : x \in InFrontOfIdle(q)
  BY <1>1, <1>2 DEF InFrontOfIdle
<1>. QED
  BY <1>3, <1>4

\* Starting a new cycle keeps the priorities in range.
LEMMA ResetKeepsRange ==
    ASSUME NEW q \in Seq(Task),
           NEW ps \in [Task -> LevelIdle .. MaxPrio],
           NEW pd \in [Task -> LevelIdle .. MaxPrio],
           ListOK(q, ps), InRange(q, ps, pd)
    PROVE  /\ ResetPriorities(q, ps, pd) \in [Task -> LevelIdle .. MaxPrio]
           /\ InRange(q, ps, ResetPriorities(q, ps, pd))
           /\ \A t \in Queued(q) \ {Idle} : ResetPriorities(q, ps, pd)[t] = ps[t]
<1>1. InFrontOfIdle(q) = Queued(q) \ {Idle}
  BY FrontIsRest
<1>2. \A t \in Queued(q) : t \in Task
  BY InToSet DEF Queued
<1>3. \A t \in Task : ResetPriorities(q, ps, pd)[t] =
                         IF t \in Queued(q) \ {Idle} THEN ps[t] ELSE pd[t]
  BY <1>1 DEF ResetPriorities
<1>4. ResetPriorities(q, ps, pd) \in [Task -> LevelIdle .. MaxPrio]
  BY DEF ResetPriorities
<1>5. \A t \in Queued(q) \ {Idle} :
         ps[t] \in LevelSusp .. ps[t]
  BY MaxPrioAssumption DEF InRange, Prio, LevelSusp, LevelMin
<1>. QED
  BY <1>2, <1>3, <1>4, <1>5 DEF InRange

\* With the list in order and the priorities in range the walk at pick finds
\* a task of the list that is not suspended.
LEMMA PickInList ==
    ASSUME NEW q \in Seq(Task), NEW ps,
           NEW pd \in [Task -> LevelIdle .. MaxPrio],
           ListOK(q, ps), InRange(q, ps, pd), NEW running \in Task
    PROVE  /\ Idle \in Queued(q) /\ pd[Idle] = LevelIdle
           /\ PickPos(q, pd) \in 1 .. Len(q)
           /\ \A j \in 1 .. Len(q) : StopsAt(q, pd, j) => PickPos(q, pd) <= j
           /\ Pick(q, pd, running) \in Queued(q)
           /\ Pick(q, pd, running) \in Task
           /\ pd[Pick(q, pd, running)] = pd[q[PickPos(q, pd)]]
           /\ pd[Pick(q, pd, running)] # LevelSusp
<1>1. Idle \in Queued(q) /\ Len(q) > 0 /\ q[Len(q)] = Idle
  BY InToSet DEF ListOK, Queued
<1>2. pd[Idle] = LevelIdle /\ pd[q[Len(q)]] # LevelSusp
  BY <1>1 DEF InRange, LevelIdle, LevelSusp
<1>3. pd \in [Task -> Int]
  BY MaxPrioAssumption DEF LevelIdle
<1>4. \A t \in Queued(q) : t \in Task
  BY InToSet DEF Queued
<1>. QED
  BY <1>1, <1>2, <1>3, <1>4, PickPosProperties, PickProperties

-----------------------------------------------------------------------------
(* The invariant.                                                          *)

\* What SchedInv says, in the terms of the lemmas above.
LEMMA InvMeaning ==
    SchedInv <=> /\ SchedTypeOK
                 /\ ListOK(sched_queue, prio_s)
                 /\ InRange(sched_queue, prio_s, prio_d)
                 /\ RunningQueued
<1>1. ASSUME SchedTypeOK
      PROVE  QueueInjective /\ QueueSorted /\ IdleLast <=> ListOK(sched_queue, prio_s)
  <2>1. sched_queue \in Seq(Task)
    BY <1>1 DEF SchedTypeOK
  <2>. QED
    BY <2>1, ListOKMeaning DEF QueueInjective, QueueSorted, IdleLast
<1>2. PrioritiesInRange <=> InRange(sched_queue, prio_s, prio_d)
  BY DEF PrioritiesInRange, InRange
<1>. QED
  BY <1>1, <1>2 DEF SchedInv, QueueInv

\* The same after a step.
LEMMA InvMeaningPrime ==
    SchedInv' <=> /\ SchedTypeOK'
                  /\ ListOK(sched_queue', prio_s')
                  /\ InRange(sched_queue', prio_s', prio_d')
                  /\ RunningQueued'
<1>1. ASSUME SchedTypeOK'
      PROVE  (QueueInjective /\ QueueSorted /\ IdleLast)' <=> ListOK(sched_queue', prio_s')
  <2>1. sched_queue' \in Seq(Task)
    BY <1>1 DEF SchedTypeOK
  <2>. QED
    BY <2>1, ListOKMeaning DEF QueueInjective, QueueSorted, IdleLast
<1>2. PrioritiesInRange' <=> InRange(sched_queue', prio_s', prio_d')
  BY DEF PrioritiesInRange, InRange
<1>. QED
  BY <1>1, <1>2 DEF SchedInv, QueueInv

\* init_task leaves idle alone in the queue, interrupts off.
LEMMA SchedInitInv == SchedInit => SchedInv
<1>. SUFFICES ASSUME SchedInit PROVE SchedInv
  OBVIOUS
<1>1. sched_queue = <<Idle>> /\ sched_queue \in Seq(Task) /\ Len(sched_queue) = 1
  BY IdleAssumption DEF SchedInit
<1>2. SchedTypeOK
  <2>1. LevelIdle \in LevelIdle .. MaxPrio /\ LevelSusp \in LevelIdle .. MaxPrio
    BY MaxPrioAssumption DEF LevelIdle, LevelSusp
  <2>2. prio_s \in [Task -> LevelIdle .. MaxPrio]
    BY <2>1 DEF SchedInit
  <2>. QED
    BY <1>1, <2>2, IdleAssumption DEF SchedInit, SchedTypeOK
<1>3. ListOK(sched_queue, prio_s)
  BY <1>1 DEF ListOK, Pairwise
<1>4. \A t \in Queued(sched_queue) : t = Idle
  <2>1. Queued(sched_queue) = {sched_queue[i] : i \in 1 .. 1}
    BY <1>1 DEF Queued, ToSet
  <2>. QED
    BY <1>1, <2>1
<1>5. InRange(sched_queue, prio_s, prio_d)
  BY <1>4, IdleAssumption DEF InRange, SchedInit
<1>. QED
  BY <1>2, <1>3, <1>5, InvMeaning DEF RunningQueued, SchedInit

\* The tick leaves the list alone; the two choices and the ageing stay in range.
LEMMA TickInv == SchedInv /\ SchedTick => SchedInv'
<1>. SUFFICES ASSUME SchedInv, SchedTick PROVE SchedInv'
  OBVIOUS
<1>. DEFINE first  == Pick(sched_queue, prio_d, running_task)
            fresh  == IF first = Idle
                      THEN ResetPriorities(sched_queue, prio_s, prio_d)
                      ELSE prio_d
            picked == Pick(sched_queue, fresh, running_task)
<1>1. /\ SchedTypeOK
      /\ ListOK(sched_queue, prio_s)
      /\ InRange(sched_queue, prio_s, prio_d)
  BY InvMeaning
<1>2. /\ sched_queue \in Seq(Task) /\ running_task \in Task
      /\ prio_s \in [Task -> LevelIdle .. MaxPrio]
      /\ prio_d \in [Task -> LevelIdle .. MaxPrio]
  BY <1>1 DEF SchedTypeOK
<1>3. /\ running_task' = picked
      /\ prio_d' = IF picked # Idle /\ fresh[picked] > 0
                   THEN [fresh EXCEPT ![picked] = @ - 1] ELSE fresh
      /\ UNCHANGED <<sched_queue, prio_s, irq>>
  BY DEF SchedTick, Aged
<1>4. /\ fresh \in [Task -> LevelIdle .. MaxPrio]
      /\ InRange(sched_queue, prio_s, fresh)
  BY <1>1, <1>2, ResetKeepsRange
<1>. HIDE DEF fresh
<1>5. picked \in Queued(sched_queue) /\ picked \in Task
  BY <1>1, <1>2, <1>4, PickInList
<1>. HIDE DEF picked
<1>6. prio_d' \in [Task -> LevelIdle .. MaxPrio]
  <2>1. CASE picked # Idle /\ fresh[picked] > 0
    <3>1. fresh[picked] - 1 \in LevelIdle .. MaxPrio
      BY <1>4, <1>5, <2>1, MaxPrioAssumption DEF LevelIdle
    <3>. QED
      BY <1>3, <1>4, <2>1, <3>1
  <2>. QED
    BY <1>3, <1>4, <2>1
<1>7. InRange(sched_queue, prio_s, prio_d')
  <2>1. CASE picked # Idle /\ fresh[picked] > 0
    <3>1. fresh[picked] \in LevelSusp .. prio_s[picked] /\ prio_s[picked] \in Prio
      BY <1>4, <1>5, <2>1 DEF InRange
    <3>2. fresh[picked] - 1 \in LevelSusp .. prio_s[picked]
      BY <2>1, <3>1, MaxPrioAssumption DEF LevelSusp, Prio, LevelMin
    <3>3. \A t \in Queued(sched_queue) : t \in Task
      BY <1>2, InToSet DEF Queued
    <3>. QED
      BY <1>3, <1>4, <2>1, <3>2, <3>3 DEF InRange
  <2>. QED
    BY <1>3, <1>4, <2>1
<1>8. SchedTypeOK'
  BY <1>1, <1>3, <1>5, <1>6 DEF SchedTypeOK
<1>9. RunningQueued'
  BY <1>3, <1>5 DEF RunningQueued
<1>. QED
  BY <1>1, <1>3, <1>7, <1>8, <1>9, InvMeaningPrime

\* Both ways of making a task link it with its own static priority.
LEMMA LinkInv ==
    ASSUME SchedInv, NEW t \in Task, t \notin Queued(sched_queue),
           NEW p \in Prio, NEW d \in LevelSusp .. p,
           prio_s' = [prio_s EXCEPT ![t] = p],
           prio_d' = [prio_d EXCEPT ![t] = d],
           sched_queue' = InsertSorted(sched_queue, prio_s, t, p),
           irq' \in BOOLEAN, irq' => irq,
           UNCHANGED running_task
    PROVE  SchedInv'
<1>1. /\ SchedTypeOK
      /\ ListOK(sched_queue, prio_s)
      /\ InRange(sched_queue, prio_s, prio_d)
      /\ RunningQueued
  BY InvMeaning
<1>2. /\ sched_queue \in Seq(Task) /\ running_task \in Task
      /\ prio_s \in [Task -> LevelIdle .. MaxPrio]
      /\ prio_d \in [Task -> LevelIdle .. MaxPrio]
      /\ prio_s \in [Task -> Int]
  BY <1>1, MaxPrioAssumption DEF SchedTypeOK, LevelIdle
<1>3. Idle \in Queued(sched_queue) /\ prio_s[Idle] = LevelIdle
  BY <1>1, <1>2, InToSet DEF ListOK, InRange, Queued
<1>4. p \in Int /\ p > prio_s[Idle] /\ p \in LevelIdle .. MaxPrio /\ d \in LevelIdle .. MaxPrio
  BY <1>3, MaxPrioAssumption DEF Prio, LevelMin, LevelIdle, LevelSusp
<1>5. /\ sched_queue' \in Seq(Task)
      /\ ListOK(sched_queue', prio_s')
      /\ Queued(sched_queue') = Queued(sched_queue) \cup {t}
  <2>1. /\ InsertSorted(sched_queue, prio_s, t, p) \in Seq(Task)
        /\ ListOK(InsertSorted(sched_queue, prio_s, t, p), [prio_s EXCEPT ![t] = p])
        /\ Queued(InsertSorted(sched_queue, prio_s, t, p)) = Queued(sched_queue) \cup {t}
    <3>1. /\ sched_queue \in Seq(Task) /\ prio_s \in [Task -> Int]
          /\ ListOK(sched_queue, prio_s) /\ t \notin Queued(sched_queue)
          /\ p \in Int /\ p > prio_s[Idle]
      BY <1>1, <1>2, <1>4
    <3>. QED
      BY <3>1, InsertKeepsList, ZenonT(40)
  <2>. QED
    BY <2>1
<1>6. SchedTypeOK'
  BY <1>1, <1>2, <1>4, <1>5 DEF SchedTypeOK
<1>7. InRange(sched_queue', prio_s', prio_d')
  <2>1. \A x \in Queued(sched_queue) :
           x \in Task /\ x # t /\ prio_s'[x] = prio_s[x] /\ prio_d'[x] = prio_d[x]
    BY <1>2, InToSet, SMTT(40) DEF Queued
  <2>2. t # Idle /\ prio_s'[t] = p /\ prio_d'[t] = d
    BY <1>2, <1>3
  <2>. QED
    BY <1>1, <1>5, <2>1, <2>2 DEF InRange
<1>8. RunningQueued'
  BY <1>1, <1>5 DEF RunningQueued
<1>. QED
  BY <1>5, <1>6, <1>7, <1>8, InvMeaningPrime

\* One step per action.
LEMMA SchedNextInv == SchedInv /\ [SchedNext]_schedVars => SchedInv'
<1>. SUFFICES ASSUME SchedInv, [SchedNext]_schedVars PROVE SchedInv'
  OBVIOUS
<1>1. /\ SchedTypeOK
      /\ ListOK(sched_queue, prio_s)
      /\ InRange(sched_queue, prio_s, prio_d)
      /\ RunningQueued
  BY InvMeaning
<1>2. /\ sched_queue \in Seq(Task) /\ running_task \in Task
      /\ prio_s \in [Task -> LevelIdle .. MaxPrio]
      /\ prio_d \in [Task -> LevelIdle .. MaxPrio]
      /\ irq \in BOOLEAN
  BY <1>1 DEF SchedTypeOK
<1>3. \A x \in Queued(sched_queue) : x \in Task
  BY <1>2, QueuedAreTasks
<1>4. CASE EnableInterrupts
  BY <1>1, <1>4, InvMeaningPrime DEF EnableInterrupts, SchedTypeOK, RunningQueued
<1>5. CASE SchedTick
  BY <1>5, TickInv
<1>6. ASSUME NEW t \in Task, NEW p \in Prio, CreateTask(t, p) PROVE SchedInv'
  <2>1. p \in LevelSusp .. p
    BY MaxPrioAssumption DEF Prio, LevelMin, LevelSusp
  <2>. QED
    BY <1>6, <2>1, LinkInv DEF CreateTask
<1>7. ASSUME NEW t \in Task, ForkTask(t) PROVE SchedInv'
  <2>1. running_task \in Queued(sched_queue) \ {Idle}
    BY <1>1, <1>7 DEF ForkTask, RunningQueued
  <2>2. prio_s[running_task] \in Prio /\ prio_d[running_task] \in LevelSusp .. prio_s[running_task]
    BY <1>1, <2>1 DEF InRange
  <2>. QED
    BY <1>2, <1>7, <2>2, LinkInv DEF ForkTask
<1>8. CASE SuspendRunning
  <2>1. running_task \in Queued(sched_queue) \ {Idle}
    BY <1>1, <1>8 DEF SuspendRunning, RunningQueued
  <2>2. prio_d' \in [Task -> LevelIdle .. MaxPrio]
    BY <1>2, <1>8, MaxPrioAssumption DEF SuspendRunning, LevelIdle, LevelSusp
  <2>3. LevelSusp \in LevelSusp .. prio_s[running_task]
    BY <1>1, <2>1, MaxPrioAssumption DEF InRange, Prio, LevelSusp, LevelMin
  <2>4. InRange(sched_queue, prio_s, prio_d')
    BY <1>1, <1>2, <1>3, <1>8, <2>1, <2>3 DEF SuspendRunning, InRange
  <2>. QED
    BY <1>1, <1>8, <2>2, <2>4, InvMeaningPrime
       DEF SuspendRunning, SchedTypeOK, RunningQueued
<1>9. ASSUME NEW t \in Task, UnlinkTask(t) PROVE SchedInv'
  <2>1. /\ sched_queue' \in Seq(Task)
        /\ ListOK(sched_queue', prio_s)
        /\ Queued(sched_queue') = Queued(sched_queue) \ {t}
    BY <1>1, <1>2, <1>9, UnlinkKeepsList DEF UnlinkTask
  <2>2. InRange(sched_queue', prio_s, prio_d)
    BY <1>1, <2>1 DEF InRange
  <2>. QED
    BY <1>1, <1>9, <2>1, <2>2, InvMeaningPrime DEF UnlinkTask, SchedTypeOK, RunningQueued
<1>10. ASSUME NEW W \in SUBSET Task, WakeTasks(W) PROVE SchedInv'
  <2>1. prio_d' \in [Task -> LevelIdle .. MaxPrio]
    BY <1>2, <1>10 DEF WakeTasks
  <2>2. \A x \in W : prio_s[x] \in LevelSusp .. prio_s[x]
    BY <1>1, <1>10, MaxPrioAssumption DEF WakeTasks, InRange, Prio, LevelSusp, LevelMin
  <2>3. InRange(sched_queue, prio_s, prio_d')
    BY <1>1, <1>3, <1>10, <2>2 DEF WakeTasks, InRange
  <2>. QED
    BY <1>1, <1>10, <2>1, <2>3, InvMeaningPrime DEF WakeTasks, SchedTypeOK, RunningQueued
<1>11. CASE SwitchFromDead
  <2>. DEFINE awake == {i \in 1 .. Len(sched_queue) : prio_d[sched_queue[i]] # LevelSusp}
  <2>1. prio_d' \in [Task -> LevelIdle .. MaxPrio] /\ InRange(sched_queue, prio_s, prio_d')
    <3>1. CASE prio_d' = prio_d
      BY <1>1, <1>2, <3>1
    <3>2. CASE prio_d' = [t \in Task |-> IF t \in Queued(sched_queue) \ {Idle}
                                         THEN prio_s[t] ELSE prio_d[t]]
      <4>1. \A x \in Queued(sched_queue) \ {Idle} : prio_s[x] \in LevelSusp .. prio_s[x]
        BY <1>1, MaxPrioAssumption DEF InRange, Prio, LevelSusp, LevelMin
      <4>. QED
        BY <1>1, <1>2, <1>3, <3>2, <4>1 DEF InRange
    <3>. QED
      BY <1>11, <3>1, <3>2 DEF SwitchFromDead
  <2>2. running_task' \in Queued(sched_queue)
    <3>1. Head(sched_queue) \in Queued(sched_queue)
      BY <1>1, <1>2, InToSet DEF ListOK, Queued
    <3>2. CASE awake # {}
      <4>1. awake \subseteq Nat
        OBVIOUS
      <4>2. Min(awake) \in awake
        BY <3>2, <4>1, MinOfNats
      <4>3. sched_queue[Min(awake)] \in Queued(sched_queue)
        BY <1>2, <4>2, InToSet DEF Queued
      <4>. QED
        BY <1>11, <3>2, <4>3 DEF SwitchFromDead
    <3>. QED
      BY <1>11, <3>1, <3>2 DEF SwitchFromDead
  <2>. QED
    BY <1>1, <1>3, <1>11, <2>1, <2>2, InvMeaningPrime
       DEF SwitchFromDead, SchedTypeOK, RunningQueued
<1>12. CASE UNCHANGED schedVars
  BY <1>1, <1>12, InvMeaningPrime DEF schedVars, SchedTypeOK, RunningQueued
<1>. QED
  BY <1>4, <1>5, <1>6, <1>7, <1>8, <1>9, <1>10, <1>11, <1>12 DEF SchedNext

\* The inductive invariant: types, list, priority ranges and the place of
\* running_task in the queue, whatever the tasks do (task.c:40-65, sched.c).
THEOREM SchedInvariant == SchedSpec => []SchedInv
BY SchedInitInv, SchedNextInv, PTL DEF SchedSpec

\* The priorities, the queue and the running task have their types.
THEOREM SchedTypeCorrect == SchedSpec => []SchedTypeOK
<1>1. SchedInv => SchedTypeOK
  BY DEF SchedInv
<1>. QED
  BY <1>1, SchedInvariant, PTL

\* The queue keeps the order and the membership its readers rely on.
THEOREM QueueCorrect == SchedSpec => []QueueInv
<1>1. SchedInv => QueueInv
  BY DEF SchedInv
<1>. QED
  BY <1>1, SchedInvariant, PTL

-----------------------------------------------------------------------------
(* What a tick never does.                                                 *)

\* In a new cycle the walk stops at the head, so idle is not picked unless it
\* is the head.
LEMMA NewCyclePicksHead ==
    ASSUME NEW q \in Seq(Task),
           NEW ps \in [Task -> LevelIdle .. MaxPrio],
           NEW pd \in [Task -> LevelIdle .. MaxPrio],
           ListOK(q, ps), InRange(q, ps, pd), NEW running \in Task,
           q[1] # Idle
    PROVE  Pick(q, ResetPriorities(q, ps, pd), running) # Idle
<1>. DEFINE fresh == ResetPriorities(q, ps, pd)
<1>1. /\ fresh \in [Task -> LevelIdle .. MaxPrio]
      /\ InRange(q, ps, fresh)
      /\ \A t \in Queued(q) \ {Idle} : fresh[t] = ps[t]
  BY ResetKeepsRange
<1>. HIDE DEF fresh
<1>2. \A i \in 1 .. Len(q) : q[i] \in Queued(q) /\ q[i] \in Task
  BY InToSet DEF Queued
<1>3. Len(q) > 1 /\ 1 \in 1 .. Len(q) /\ 2 \in 1 .. Len(q)
  BY DEF ListOK
<1>4. fresh[q[1]] = ps[q[1]] /\ fresh[q[1]] \in Prio
  BY <1>1, <1>2, <1>3 DEF InRange
<1>5. fresh[q[1]] # LevelSusp /\ fresh[q[1]] # LevelIdle
  BY <1>4, MaxPrioAssumption DEF Prio, LevelMin, LevelSusp, LevelIdle
<1>6. fresh[q[2]] <= ps[q[2]] /\ ps[q[2]] \in Int /\ fresh[q[2]] \in Int
  <2>1. CASE q[2] = Idle
    BY <1>1, <1>2, <1>3, <2>1 DEF InRange, LevelIdle
  <2>2. CASE q[2] # Idle
    BY <1>1, <1>2, <1>3, <2>2, MaxPrioAssumption DEF InRange, Prio, LevelMin
  <2>. QED
    BY <2>1, <2>2
<1>7. ps[q[1]] >= ps[q[2]]
  BY <1>3, ListOKMeaning
<1>8. fresh[q[1]] >= fresh[q[2]]
  <2>1. ps[q[1]] \in Int
    BY <1>4, MaxPrioAssumption DEF Prio, LevelMin
  <2>. QED
    BY <1>4, <1>6, <1>7, <2>1
<1>9. StopsAt(q, fresh, 1)
  BY <1>5, <1>8 DEF StopsAt
<1>10. /\ PickPos(q, fresh) \in 1 .. Len(q)
       /\ PickPos(q, fresh) <= 1
       /\ fresh[Pick(q, fresh, running)] = fresh[q[PickPos(q, fresh)]]
       /\ fresh[Idle] = LevelIdle
  BY <1>1, <1>3, <1>9, PickInList
<1>11. PickPos(q, fresh) = 1
  BY <1>10
<1>. QED
  BY <1>5, <1>10, <1>11 DEF fresh

\* Idle is picked only when every other task is down to level 0: the last
\* task above it would have stopped the walk.
LEMMA IdlePickedLast ==
    ASSUME NEW q \in Seq(Task),
           NEW ps \in [Task -> LevelIdle .. MaxPrio],
           NEW pd \in [Task -> LevelIdle .. MaxPrio],
           ListOK(q, ps), InRange(q, ps, pd), NEW running \in Task,
           Pick(q, pd, running) = Idle
    PROVE  \A t \in Queued(q) \ {Idle} : pd[t] = LevelSusp
<1>. DEFINE n == Len(q)
            S == {d \in 1 .. n : d < n /\ pd[q[n - d]] > 0}
<1>1. \A i \in 1 .. n : q[i] \in Queued(q) /\ q[i] \in Task /\ pd[q[i]] \in Int
  BY InToSet, MaxPrioAssumption DEF Queued, LevelIdle
<1>2. n > 0 /\ q[n] = Idle /\ \A i \in 1 .. n : i < n => q[i] # Idle
  <2>1. \A i, j \in 1 .. n : q[i] = q[j] => i = j
    BY ListOKMeaning
  <2>. QED
    BY <2>1, SMTT(40) DEF ListOK
<1>3. \A i \in 1 .. n : i < n => pd[q[i]] >= 0
  BY <1>1, <1>2, MaxPrioAssumption DEF InRange, LevelSusp, Prio, LevelMin
<1>4. /\ PickPos(q, pd) \in 1 .. n
      /\ \A j \in 1 .. n : StopsAt(q, pd, j) => PickPos(q, pd) <= j
      /\ pd[q[PickPos(q, pd)]] = -1
      /\ pd[q[n]] = -1
  BY <1>2, PickInList DEF LevelIdle
<1>5. PickPos(q, pd) = n
  <2>1. ~(PickPos(q, pd) < n)
    BY <1>3, <1>4
  <2>. QED
    BY <1>4, <2>1
<1>6. ASSUME NEW j \in 1 .. n, j < n PROVE ~StopsAt(q, pd, j)
  BY <1>4, <1>5, <1>6
<1>7. S = {}
  <2>. SUFFICES ASSUME S # {} PROVE FALSE
    OBVIOUS
  <2>1. S \subseteq Nat
    OBVIOUS
  <2>. HIDE DEF S
  <2>2. PICK d \in S : \A e \in S : d <= e
    BY <2>1, MinOfNats
  <2>0. d \in 1 .. n /\ d < n /\ pd[q[n - d]] > 0
    BY DEF S
  <2>a. n - d \in 1 .. n /\ n - d < n
    BY <2>0
  <2>3. PICK j \in 1 .. n : j = n - d /\ j < n /\ pd[q[j]] > 0
    BY <2>0, <2>a
  <2>4. PICK m \in 1 .. n : m = j + 1
    BY <2>3
  <2>5. pd[q[m]] <= 0
    <3>1. CASE m = n
      BY <1>4, <3>1
    <3>2. CASE m < n
      <4>0. n \in Nat /\ d \in 1 .. n /\ m = n - d + 1
        BY <2>0, <2>3, <2>4
      <4>a. n \in Int /\ d \in Int /\ m \in Int /\ 1 <= d /\ d <= n /\ m < n
        BY <3>2, <4>0
      <4>1. d - 1 \in 1 .. n /\ d - 1 < n /\ n - (d - 1) = m
        BY <4>0, <4>a
      <4>2. d - 1 \notin S
        BY <2>0, <2>2
      <4>3. ~(pd[q[m]] > 0)
        BY <4>1, <4>2 DEF S
      <4>. QED
        BY <1>1, <4>3
    <3>. QED
      BY <2>4, <3>1, <3>2
  <2>6. StopsAt(q, pd, j)
    BY <1>1, <2>3, <2>4, <2>5 DEF StopsAt, LevelSusp
  <2>. QED
    BY <1>6, <2>3, <2>6
<1>8. ASSUME NEW i \in 1 .. n, i < n PROVE pd[q[i]] = 0
  <2>1. n - i \in 1 .. n /\ n - i < n /\ n - (n - i) = i
    BY <1>8
  <2>2. n - i \notin S
    BY <1>7
  <2>3. ~(pd[q[i]] > 0)
    BY <2>1, <2>2
  <2>. QED
    BY <1>1, <1>3, <1>8, <2>3
<1>9. \A t \in Queued(q) : \E i \in 1 .. n : q[i] = t
  BY InToSet DEF Queued
<1>. QED
  BY <1>2, <1>8, <1>9 DEF LevelSusp

\* sched.c:188-193: the processor idles exactly when there is nothing else in
\* the queue.
THEOREM IdlesOnlyAlone == SchedSpec => TickIdlesOnlyAlone
<1>1. ASSUME SchedInv, SchedTick
      PROVE  running_task' = Idle <=> sched_queue = <<Idle>>
  <2>1. /\ ListOK(sched_queue, prio_s)
        /\ InRange(sched_queue, prio_s, prio_d)
        /\ sched_queue \in Seq(Task) /\ running_task \in Task
        /\ prio_s \in [Task -> LevelIdle .. MaxPrio]
        /\ prio_d \in [Task -> LevelIdle .. MaxPrio]
    BY <1>1, InvMeaning DEF SchedTypeOK
  <2>2. CASE sched_queue = <<Idle>>
    <3>1. Queued(sched_queue) = {sched_queue[i] : i \in 1 .. 1}
      BY <2>2 DEF Queued, ToSet
    <3>2. running_task' \in Queued(sched_queue)
      <4>1. SchedInv' /\ irq'
        BY <1>1, TickInv DEF SchedTick
      <4>2. sched_queue' = sched_queue
        BY <1>1 DEF SchedTick
      <4>. QED
        BY <4>1, <4>2 DEF SchedInv, QueueInv, RunningQueued
    <3>. QED
      BY <2>2, <3>1, <3>2
  <2>3. CASE sched_queue # <<Idle>>
    <3>1. sched_queue[1] # Idle
      <4>1. Len(sched_queue) # 1
        BY <2>1, <2>3 DEF ListOK
      <4>2. 1 \in 1 .. Len(sched_queue) /\ Len(sched_queue) \in 1 .. Len(sched_queue)
        BY <2>1 DEF ListOK
      <4>. QED
        BY <2>1, <4>1, <4>2, ListOKMeaning
    <3>2. Pick(sched_queue, ResetPriorities(sched_queue, prio_s, prio_d), running_task) # Idle
      BY <2>1, <3>1, NewCyclePicksHead
    <3>. QED
      BY <1>1, <2>3, <3>2 DEF SchedTick
  <2>. QED
    BY <2>2, <2>3
<1>2. SchedInv /\ [SchedNext]_schedVars
         => [SchedTick => (running_task' = Idle <=> sched_queue = <<Idle>>)]_schedVars
  BY <1>1
<1>. QED
  BY <1>2, SchedInvariant, PTL DEF SchedSpec, TickIdlesOnlyAlone

\* sched.c:147-151: a suspended task gets the processor only when a new cycle
\* begins, and a new cycle begins only when every task is down to level 0.
THEOREM SkipsSuspended == SchedSpec => TickSkipsSuspended
<1>. DEFINE Fresh(t) == prio_d[t] = LevelSusp /\ prio_d'[t] = prio_s[t]
<1>1. ASSUME SchedInv, SchedTick, prio_d[running_task'] = LevelSusp,
             NEW t \in Queued(sched_queue) \ {Idle, running_task'}
      PROVE  Fresh(t)
  <2>. DEFINE reset == ResetPriorities(sched_queue, prio_s, prio_d)
              first == Pick(sched_queue, prio_d, running_task)
  <2>1. /\ ListOK(sched_queue, prio_s)
        /\ InRange(sched_queue, prio_s, prio_d)
        /\ sched_queue \in Seq(Task) /\ running_task \in Task
        /\ prio_s \in [Task -> LevelIdle .. MaxPrio]
        /\ prio_d \in [Task -> LevelIdle .. MaxPrio]
    BY <1>1, InvMeaning DEF SchedTypeOK
  <2>2. prio_d[first] # LevelSusp
    BY <2>1, PickInList
  <2>3. first = Idle
    BY <1>1, <2>2 DEF SchedTick
  <2>4. prio_d[t] = LevelSusp
    BY <2>1, <2>3, IdlePickedLast
  <2>5. reset[t] = prio_s[t] /\ t \in Task /\ reset \in [Task -> LevelIdle .. MaxPrio]
    BY <2>1, ResetKeepsRange, QueuedAreTasks
  <2>. HIDE DEF reset
  <2>6. prio_d'[t] = reset[t]
    BY <1>1, <2>3, <2>5 DEF SchedTick, Aged, reset
  <2>. QED
    BY <2>4, <2>5, <2>6
<1>2. SchedInv /\ [SchedNext]_schedVars =>
         [SchedTick /\ prio_d[running_task'] = LevelSusp =>
             \A t \in Queued(sched_queue) \ {Idle, running_task'} :
                 /\ prio_d[t] = LevelSusp
                 /\ prio_d'[t] = prio_s[t]]_schedVars
  BY <1>1
<1>. QED
  BY <1>2, SchedInvariant, PTL DEF SchedSpec, TickSkipsSuspended


---------------------------------------------------------------------------
(* What a task gets in a scheduling cycle, for every history before the    *)
(* tasks settled                                                           *)

\* A task that is passed over for one with a lower static priority is used up,
\* or has fewer levels left than the one picked: the walk climbs all the way
\* from it to the place where it stops (sched.c:162-186).
LEMMA PassedOverIsBehind ==
    ASSUME NEW q \in Seq(Task),
           NEW ps \in [Task -> LevelIdle .. MaxPrio],
           NEW pd \in [Task -> LevelIdle .. MaxPrio],
           ListOK(q, ps), InRange(q, ps, pd), NEW running \in Task,
           NEW t \in Queued(q) \ {Idle},
           ps[t] > ps[Pick(q, pd, running)]
    PROVE  pd[t] = LevelSusp \/ pd[t] <= pd[Pick(q, pd, running)]
<1>. DEFINE n == Len(q)
            i == PickPos(q, pd)
            u == Pick(q, pd, running)
            S == {d \in 0 .. i - 1 : pd[q[i - d]] = 0 \/ pd[q[i - d]] <= pd[q[i]]}
<1>1. /\ i \in 1 .. n
      /\ \A j \in 1 .. n : StopsAt(q, pd, j) => i <= j
      /\ u \in Task /\ pd[u] = pd[q[i]]
  BY PickInList
<1>2. \A j \in 1 .. n : q[j] \in Queued(q) /\ q[j] \in Task /\ pd[q[j]] \in Int /\ ps[q[j]] \in Int
  <2>1. \A j \in 1 .. n : q[j] \in Queued(q) /\ q[j] \in Task
    BY InToSet DEF Queued
  <2>2. \A x \in Task : pd[x] \in Int /\ ps[x] \in Int
    BY MaxPrioAssumption DEF LevelIdle
  <2>. QED
    BY <2>1, <2>2
<1>3. \A j \in 1 .. n : j < n => pd[q[j]] >= 0
  <2>1. \A j, k \in 1 .. n : q[j] = q[k] => j = k
    BY ListOKMeaning
  <2>2. n \in 1 .. n /\ q[n] = Idle
    BY DEF ListOK
  <2>3. \A j \in 1 .. n : j < n => q[j] # Idle
    BY <2>1, <2>2
  <2>. QED
    BY <1>2, <2>3, MaxPrioAssumption DEF InRange, LevelSusp, Prio, LevelMin
<1>4. PICK k \in i .. n : u = q[k] /\ \A m \in i .. k : pd[q[m]] = pd[q[i]]
  BY <1>1, SMTT(40) DEF Pick, InTieGroup
<1>. HIDE DEF i, u
<1>5. PICK j \in 1 .. n : q[j] = t
  BY InToSet DEF Queued
<1>6. j < k
  <2>1. \A a, b \in 1 .. n : a < b => ps[q[a]] >= ps[q[b]]
    BY ListOKMeaning
  <2>2. k \in 1 .. n /\ ps[q[j]] > ps[q[k]]
    BY <1>1, <1>4, <1>5 DEF u
  <2>3. ~(k < j) /\ k # j
    BY <1>2, <2>1, <2>2, SMTT(40)
  <2>. QED
    BY <2>2, <2>3
<1>7. CASE j >= i
  BY <1>1, <1>2, <1>4, <1>5, <1>6, <1>7 DEF u
<1>8. CASE j < i
  <2>1. 0 \in S
    BY <1>1, <1>2
  <2>2. ASSUME NEW d \in 1 .. i - 1, d - 1 \in S PROVE d \in S
    <3>0. i \in 1 .. n /\ n \in Nat
      BY <1>1
    <3>1. PICK a \in 1 .. n : a = i - d /\ a < i /\ a < n
      BY <3>0, SMTT(40)
    <3>2. PICK b \in 1 .. n : b = a + 1 /\ b = i - (d - 1)
      BY <1>1, <3>1
    <3>. DEFINE x == pd[q[a]]
                y == pd[q[b]]
                z == pd[q[i]]
    <3>3. x \in Int /\ y \in Int /\ z \in Int
      BY <1>1, <1>2
    <3>4. ~StopsAt(q, pd, a)
      BY <1>1, <3>1
    <3>5. x = 0 \/ ~(x >= y)
      BY <3>1, <3>2, <3>4 DEF StopsAt, LevelSusp
    <3>6. x >= 0
      BY <1>3, <3>1
    <3>7. y = 0 \/ y <= z
      BY <2>2, <3>2
    <3>8. x = 0 \/ x <= z
      <4>. HIDE DEF x, y, z
      <4>. QED
        BY <3>3, <3>5, <3>6, <3>7
    <3>. QED
      BY <1>1, <3>1, <3>8
  <2>3. 0 .. i - 1 \subseteq S
    <3>1. i - 1 \in Nat
      BY <1>1
    <3>. HIDE DEF S
    <3>. QED
      BY <2>1, <2>2, <3>1, CountingUp
  <2>4. i - j \in 0 .. i - 1 /\ i - (i - j) = j
    BY <1>1, <1>8
  <2>5. pd[q[j]] = 0 \/ pd[q[j]] <= pd[q[i]]
    BY <2>3, <2>4
  <2>. QED
    BY <1>1, <1>5, <2>5 DEF u, LevelSusp
<1>. QED
  BY <1>1, <1>7, <1>8

\* Each task's ticks in this cycle and the levels it has left add up to its
\* static priority.
Balanced == phase = "counting" =>
    \A t \in Queued(sched_queue) \ {Idle} : runs[t] + prio_d[t] = prio_s[t]

CycleTypeOK ==
    /\ phase \in {"open", "settled", "counting"}
    /\ runs \in [Task -> Nat]

\* The balance makes the order of the counts inductive: a task that has run
\* less than one below it would have more levels left than that one.
CycleInv == SchedInv /\ CycleTypeOK /\ Balanced /\ NoPriorityInversion

\* Nothing is counted yet.
LEMMA CycleInitInv == CycleInit => CycleInv
BY SchedInitInv DEF CycleInit, CycleInv, CycleTypeOK, Balanced, NoPriorityInversion

\* What a tick does to the two sides of the balance: the cycle goes on with
\* levels fresh and ticks sofar, and the picked task trades one for the other.
LEMMA CycleTickTrades ==
    ASSUME CycleInv, CycleTick, phase' = "counting"
    PROVE  \E fresh \in [Task -> LevelIdle .. MaxPrio], sofar \in [Task -> Nat] :
              LET u == running_task'
                  L == Queued(sched_queue) \ {Idle}
              IN  /\ u \in Queued(sched_queue)
                  /\ \A t \in L : sofar[t] + fresh[t] = prio_s[t]
                  /\ \A t, v \in L : prio_s[t] > prio_s[v] => sofar[t] >= sofar[v]
                  /\ \A t \in L : prio_s[t] > prio_s[u] =>
                        fresh[t] = LevelSusp \/ fresh[t] <= fresh[u]
                  /\ \A t \in L : prio_d'[t] = IF t = u THEN fresh[t] - 1 ELSE fresh[t]
                  /\ u \in L => fresh[u] > 0
                  /\ \A t \in Task : runs'[t] = IF t = u THEN sofar[t] + 1 ELSE sofar[t]
<1>. DEFINE q     == sched_queue
            L     == Queued(q) \ {Idle}
            u     == running_task'
            first == Pick(q, prio_d, running_task)
            fresh == IF CycleOver THEN ResetPriorities(q, prio_s, prio_d) ELSE prio_d
            sofar == [t \in Task |-> IF CycleOver THEN 0 ELSE runs[t]]
<1>1. /\ ListOK(q, prio_s) /\ InRange(q, prio_s, prio_d)
      /\ q \in Seq(Task) /\ running_task \in Task
      /\ prio_s \in [Task -> LevelIdle .. MaxPrio]
      /\ prio_d \in [Task -> LevelIdle .. MaxPrio]
  BY InvMeaning DEF CycleInv, SchedTypeOK
<1>2. CycleOver => first = Idle
  <2>1. first \in Queued(q) /\ prio_d[first] # LevelSusp
    BY <1>1, PickInList
  <2>. QED
    BY <2>1 DEF CycleOver
<1>3. first = Idle => CycleOver
  BY <1>1, IdlePickedLast DEF CycleOver
<1>4. u = Pick(q, fresh, running_task) /\ prio_d' = Aged(fresh, u)
  BY <1>2, <1>3 DEF CycleTick, SchedTick
<1>5. /\ fresh \in [Task -> LevelIdle .. MaxPrio]
      /\ InRange(q, prio_s, fresh)
      /\ CycleOver => \A t \in L : fresh[t] = prio_s[t]
  BY <1>1, ResetKeepsRange, SMTT(40)
<1>6. \A x \in Queued(q) : x \in Task
  BY <1>1, QueuedAreTasks
<1>7. sofar \in [Task -> Nat]
  BY DEF CycleInv, CycleTypeOK
<1>8. ~CycleOver => phase = "counting"
  BY DEF CycleTick
<1>9. \A t \in L : sofar[t] + fresh[t] = prio_s[t]
  <2>1. CASE CycleOver
    BY <1>1, <1>5, <1>6, <2>1, MaxPrioAssumption DEF LevelIdle
  <2>2. CASE ~CycleOver
    BY <1>6, <1>8, <2>2 DEF CycleInv, Balanced
  <2>. QED
    BY <2>1, <2>2
<1>10. \A t, v \in L : prio_s[t] > prio_s[v] => sofar[t] >= sofar[v]
  <2>1. CASE CycleOver
    BY <1>6, <2>1
  <2>2. CASE ~CycleOver
    BY <1>6, <1>8, <2>2 DEF CycleInv, NoPriorityInversion
  <2>. QED
    BY <2>1, <2>2
<1>11. \A t \in Task : runs'[t] = IF t = u THEN sofar[t] + 1 ELSE sofar[t]
  BY <1>7 DEF CycleTick, CycleInv, CycleTypeOK
<1>. HIDE DEF fresh, sofar
<1>12. u \in Queued(q) /\ fresh[u] # LevelSusp
  BY <1>1, <1>4, <1>5, PickInList
<1>13. \A t \in L : prio_s[t] > prio_s[u] => fresh[t] = LevelSusp \/ fresh[t] <= fresh[u]
  BY <1>1, <1>4, <1>5, PassedOverIsBehind
<1>14. u \in L => fresh[u] > 0
  BY <1>1, <1>5, <1>6, <1>12, MaxPrioAssumption DEF InRange, LevelSusp, Prio, LevelMin
<1>15. \A t \in L : prio_d'[t] = IF t = u THEN fresh[t] - 1 ELSE fresh[t]
  BY <1>4, <1>5, <1>6, <1>14 DEF Aged
<1>. QED
  BY <1>5, <1>7, <1>9, <1>10, <1>11, <1>12, <1>13, <1>14, <1>15

\* Only a tick of a settled system moves the counts.
LEMMA CycleNextInv == CycleInv /\ [CycleNext]_cycleVars => CycleInv'
<1>. SUFFICES ASSUME CycleInv, [CycleNext]_cycleVars PROVE CycleInv'
  OBVIOUS
<1>1. SchedInv /\ CycleTypeOK
  BY DEF CycleInv
<1>2. CASE Unsettled
  BY <1>1, <1>2, SchedNextInv
     DEF Unsettled, CycleInv, CycleTypeOK, Balanced, NoPriorityInversion
<1>3. CASE Settle
  <2>1. SchedInv'
    BY <1>1, <1>3, SchedNextInv DEF Settle
  <2>. QED
    BY <1>1, <1>3, <2>1
       DEF Settle, CycleInv, CycleTypeOK, Balanced, NoPriorityInversion
<1>4. CASE CycleTick
  <2>1. SchedInv'
    BY <1>1, <1>4, SchedNextInv DEF CycleTick, SchedNext
  <2>2. CycleTypeOK'
    BY <1>1, <1>4 DEF CycleTick, CycleTypeOK
  <2>3. CASE phase' # "counting"
    BY <2>1, <2>2, <2>3 DEF CycleInv, Balanced, NoPriorityInversion
  <2>4. CASE phase' = "counting"
    <3>. DEFINE L == Queued(sched_queue) \ {Idle}
                u == running_task'
    <3>1. PICK fresh \in [Task -> LevelIdle .. MaxPrio], sofar \in [Task -> Nat] :
             /\ u \in Queued(sched_queue)
             /\ \A t \in L : sofar[t] + fresh[t] = prio_s[t]
             /\ \A t, v \in L : prio_s[t] > prio_s[v] => sofar[t] >= sofar[v]
             /\ \A t \in L : prio_s[t] > prio_s[u] =>
                   fresh[t] = LevelSusp \/ fresh[t] <= fresh[u]
             /\ \A t \in L : prio_d'[t] = IF t = u THEN fresh[t] - 1 ELSE fresh[t]
             /\ u \in L => fresh[u] > 0
             /\ \A t \in Task : runs'[t] = IF t = u THEN sofar[t] + 1 ELSE sofar[t]
      BY <1>4, <2>4, CycleTickTrades
    <3>2. sched_queue' = sched_queue /\ prio_s' = prio_s
      BY <1>4 DEF CycleTick, SchedTick
    <3>3. \A t \in L : t \in Task /\ fresh[t] \in Int /\ sofar[t] \in Nat /\ prio_s[t] \in Int
      <4>1. sched_queue \in Seq(Task) /\ prio_s \in [Task -> LevelIdle .. MaxPrio]
        BY <1>1, InvMeaning DEF SchedTypeOK
      <4>. QED
        BY <4>1, QueuedAreTasks, MaxPrioAssumption DEF LevelIdle
    <3>4. Balanced'
      <4>1. \A t \in L : runs'[t] + prio_d'[t] = prio_s[t]
        BY <3>1, <3>3
      <4>. QED
        BY <3>2, <4>1 DEF Balanced
    <3>5. ASSUME NEW t \in L, NEW v \in L, prio_s[t] > prio_s[v]
          PROVE  runs'[t] >= runs'[v]
      <4>1. sofar[t] >= sofar[v]
        BY <3>1, <3>5
      <4>2. CASE v # u
        BY <3>1, <3>3, <4>1, <4>2
      <4>3. CASE v = u
        <5>1. t # u
          BY <3>3, <3>5, <4>3
        <5>2. runs'[t] = sofar[t] /\ runs'[v] = sofar[v] + 1
          BY <3>1, <3>3, <4>3, <5>1
        <5>3. /\ sofar[t] + fresh[t] = prio_s[t]
              /\ sofar[v] + fresh[v] = prio_s[v]
              /\ fresh[v] > 0
              /\ fresh[t] = 0 \/ fresh[t] <= fresh[v]
          BY <3>1, <3>5, <4>3 DEF LevelSusp
        <5>. QED
          BY <3>3, <3>5, <5>2, <5>3
      <4>. QED
        BY <4>2, <4>3
    <3>6. NoPriorityInversion'
      BY <3>2, <3>5 DEF NoPriorityInversion
    <3>. QED
      BY <2>1, <2>2, <3>4, <3>6 DEF CycleInv
  <2>. QED
    BY <2>3, <2>4
<1>5. CASE UNCHANGED cycleVars
  <2>1. SchedInv'
    BY <1>1, <1>5, SchedNextInv DEF cycleVars
  <2>. QED
    BY <1>1, <1>5, <2>1
       DEF cycleVars, schedVars, CycleInv, CycleTypeOK, Balanced, NoPriorityInversion
<1>. QED
  BY <1>2, <1>3, <1>4, <1>5 DEF CycleNext

\* The inductive invariant holds.
LEMMA CycleInvariant == CycleSpec => []CycleInv
BY CycleInitInv, CycleNextInv, PTL DEF CycleSpec

\* sched.c:79-81: in a complete cycle each task runs as many times as its
\* static priority says.
THEOREM CycleIsFair == CycleSpec => []CycleRunsEqualStaticPriority
<1>1. ASSUME CycleInv PROVE CycleRunsEqualStaticPriority
  <2>1. \A t \in Queued(sched_queue) : t \in Task
    BY <1>1, InvMeaning, QueuedAreTasks DEF CycleInv, SchedTypeOK
  <2>. QED
    BY <1>1, <2>1 DEF CycleInv, CycleTypeOK, Balanced, CycleOver, LevelSusp, CycleRunsEqualStaticPriority
<1>. QED
  BY <1>1, CycleInvariant, PTL

\* sched.c:28-39: within a cycle no task gets ahead of one with a higher
\* static priority.
THEOREM HigherPriorityRunsMore == CycleSpec => []NoPriorityInversion
<1>1. CycleInv => NoPriorityInversion
  BY DEF CycleInv
<1>. QED
  BY <1>1, CycleInvariant, PTL

=============================================================================
