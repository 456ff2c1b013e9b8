---------------------------- MODULE SchedProofs ----------------------------
(***************************************************************************)
(* Theorems about the scheduler, for every set of tasks.  The invariant is *)
(* proved in three layers: that the queue is exclusive; that nothing is    *)
(* stranded and no wake is lost; and that the dead stay off the queue, if  *)
(* they exit with no wake noted, which do_exit relies on and does not      *)
(* establish.                                                              *)
(***************************************************************************)
EXTENDS SchedRefines, QueueProofs, TLAPS

-----------------------------------------------------------------------------
(* schedule() and wake_up_process(). *)

\* What schedule() does to the queue: the running task is put at the back if it
\* is to run again, the next task is taken off the front, and nobody else is
\* touched.
LEMMA ScheduleFacts ==
  ASSUME TypeOK, QueueExclusive, NEW st, NEW sp
  PROVE  /\ NextTask(st, sp) \in Everyone
         /\ QueueAfter(st, sp) \in Seq(Tasks)
         /\ NoDuplicates(QueueAfter(st, sp))
         /\ NextTask(st, sp) \notin Contents(QueueAfter(st, sp))
         /\ NextTask(st, sp) = Swapper => QueueAfter(st, sp) = <<>>
         /\ \A t \in Tasks :
              (t = NextTask(st, sp) \/ t \in Contents(QueueAfter(st, sp)))
                <=> (t \in Contents(schedule_queue) \/ (t = current /\ Requeues(st, sp)))
<1> DEFINE q == QueueBefore(st, sp)
<1>1. /\ q \in Seq(Tasks) /\ NoDuplicates(q)
      /\ \A t \in Tasks : t \in Contents(q)
           <=> (t \in Contents(schedule_queue) \/ (t = current /\ Requeues(st, sp)))
  <2>1. CASE Requeues(st, sp)
    <3>1. current \in Tasks
      BY <2>1 DEF Requeues, TypeOK, Everyone
    <3>2. /\ q = Append(schedule_queue, current)
          /\ schedule_queue \in Seq(Tasks)
          /\ NoDuplicates(schedule_queue) /\ current \notin Contents(schedule_queue)
      BY <2>1 DEF QueueBefore, TypeOK, QueueExclusive
    <3>3. /\ Append(schedule_queue, current) \in Seq(Tasks)
          /\ Contents(Append(schedule_queue, current))
               = Contents(schedule_queue) \union {current}
          /\ NoDuplicates(Append(schedule_queue, current))
      BY <3>1, <3>2, AppendFacts
    <3> QED BY <2>1, <3>2, <3>3
  <2>2. CASE ~Requeues(st, sp)
    BY <2>2 DEF QueueBefore, TypeOK, QueueExclusive
  <2> QED BY <2>1, <2>2
<1>2. CASE q = <<>>
  <2>1. NextTask(st, sp) = Swapper /\ QueueAfter(st, sp) = <<>>
    BY <1>2 DEF NextTask, QueueAfter
  <2>2. Contents(<<>>) = {} /\ NoDuplicates(<<>>) /\ <<>> \in Seq(Tasks)
    BY DEF Contents, NoDuplicates
  <2> QED BY <1>1, <1>2, <2>1, <2>2, TaskAssumption DEF Everyone
<1>3. CASE q # <<>>
  <2>1. NextTask(st, sp) = Head(q) /\ QueueAfter(st, sp) = Tail(q)
    BY <1>3 DEF NextTask, QueueAfter
  <2>2. /\ Head(q) \in Tasks /\ Tail(q) \in Seq(Tasks)
        /\ Contents(q) = Contents(Tail(q)) \union {Head(q)}
        /\ NoDuplicates(Tail(q)) /\ Head(q) \notin Contents(Tail(q))
    BY <1>1, <1>3, TailFacts
  <2> QED BY <1>1, <2>1, <2>2, TaskAssumption DEF Everyone
<1> QED BY <1>2, <1>3

\* wake_up_process(t) queues t, or notes the wake when t is running.
LEMMA WakeUpFacts ==
  ASSUME TypeOK, QueueExclusive, NEW t \in Tasks, WakeUp(t)
  PROVE  /\ schedule_queue' \in Seq(Tasks)
         /\ NoDuplicates(schedule_queue')
         /\ current \notin Contents(schedule_queue')
         /\ wakeup_current' \in [Tasks -> BOOLEAN]
         /\ t # current => /\ wakeup_current' = wakeup_current
                           /\ Contents(schedule_queue')
                                = Contents(schedule_queue) \union {t}
         /\ t = current => /\ wakeup_current' = [wakeup_current EXCEPT ![t] = TRUE]
                           /\ schedule_queue' = schedule_queue
<1>1. CASE t = current
  BY <1>1 DEF WakeUp, TypeOK, QueueExclusive
<1>2. CASE t # current /\ t \in Contents(schedule_queue)
  BY <1>2 DEF WakeUp, TypeOK, QueueExclusive
<1>3. CASE t # current /\ t \notin Contents(schedule_queue)
  <2>1. schedule_queue \in Seq(Tasks) /\ NoDuplicates(schedule_queue)
    BY DEF TypeOK, QueueExclusive
  <2>2. /\ Append(schedule_queue, t) \in Seq(Tasks)
        /\ Contents(Append(schedule_queue, t)) = Contents(schedule_queue) \union {t}
        /\ NoDuplicates(Append(schedule_queue, t))
    BY <1>3, <2>1, AppendFacts
  <2>3. schedule_queue' = Append(schedule_queue, t) /\ wakeup_current' = wakeup_current
    BY <1>3 DEF WakeUp
  <2> QED BY <1>3, <2>2, <2>3 DEF TypeOK, QueueExclusive
<1> QED BY <1>1, <1>2, <1>3

\* A call of schedule() keeps the types and the exclusiveness of the queue,
\* whatever its caller wrote into the task_struct before the call.
LEMMA ScheduleKeepsQueue ==
  ASSUME TypeOK, QueueExclusive,
         NEW st \in [Tasks -> Alive \union Gone], NEW sp \in [Tasks -> BOOLEAN],
         NEW fr \in SUBSET Tasks, Schedule(st, sp, fr),
         stop_loop' \in SUBSET Tasks, bug' = bug
  PROVE  TypeOK' /\ QueueExclusive'
<1>1. /\ NextTask(st, sp) \in Everyone
      /\ QueueAfter(st, sp) \in Seq(Tasks)
      /\ NoDuplicates(QueueAfter(st, sp))
      /\ NextTask(st, sp) \notin Contents(QueueAfter(st, sp))
  BY ScheduleFacts
<1>2. Freed(st, sp, fr) \in SUBSET Tasks
  BY DEF Freed
<1>3. current' \in Everyone /\ schedule_queue' \in Seq(Tasks)
  BY <1>1 DEF Schedule
<1>4. state' \in [Tasks -> Alive \union Gone] /\ stopped' \in [Tasks -> BOOLEAN]
  BY DEF Schedule, Gone
<1>5. wakeup_current' \in [Tasks -> BOOLEAN]
  BY DEF Schedule, TypeOK
<1>6. free_tasks' \in SUBSET Tasks /\ started' \in SUBSET Everyone
  BY <1>1, <1>2 DEF Schedule, TypeOK
<1>7. schedule_pit_counter' \in 0..MaxTick
  BY TickAssumption DEF Schedule, TypeOK
<1>8. bug' \in {"none", "child_reaper", "do_exit", "deliver_signal"}
  BY DEF TypeOK
<1>9. QueueExclusive'
  BY <1>1 DEF Schedule, QueueExclusive
<1> QED BY <1>3, <1>4, <1>5, <1>6, <1>7, <1>8, <1>9 DEF TypeOK

-----------------------------------------------------------------------------
(* First layer: types, and the exclusiveness of the queue. *)

QueueInv == TypeOK /\ QueueExclusive

LEMMA QueueInit == Init => QueueInv
<1> SUFFICES ASSUME Init PROVE QueueInv
  OBVIOUS
<1>1. /\ <<>> \in Seq(Tasks) /\ NoDuplicates(<<>>) /\ Contents(<<>>) = {}
      /\ InitTask \in Tasks /\ Swapper # InitTask
  BY TaskAssumption DEF NoDuplicates, Contents
<1>2. /\ schedule_queue = Append(<<>>, InitTask)
      /\ Append(<<>>, InitTask) \in Seq(Tasks)
      /\ Contents(Append(<<>>, InitTask)) = {InitTask}
      /\ NoDuplicates(Append(<<>>, InitTask))
  <2>1. schedule_queue = Append(<<>>, InitTask)
    BY DEF Init
  <2>2. /\ Append(<<>>, InitTask) \in Seq(Tasks)
        /\ Contents(Append(<<>>, InitTask)) = Contents(<<>>) \union {InitTask}
        /\ NoDuplicates(<<>>) /\ InitTask \notin Contents(<<>>)
             => NoDuplicates(Append(<<>>, InitTask))
    <3> DEFINE q == <<>>
    <3>1. q \in Seq(Tasks) /\ InitTask \in Tasks
      BY <1>1
    <3> HIDE DEF q
    <3>2. /\ Append(q, InitTask) \in Seq(Tasks)
          /\ Contents(Append(q, InitTask)) = Contents(q) \union {InitTask}
          /\ NoDuplicates(q) /\ InitTask \notin Contents(q)
               => NoDuplicates(Append(q, InitTask))
      BY <3>1, AppendFacts
    <3> QED BY <3>2 DEF q
  <2>3. Contents(<<>>) \union {InitTask} = {InitTask}
    BY <1>1
  <2> QED BY <1>1, <2>1, <2>2, <2>3
<1>3. TypeOK
  BY <1>1, <1>2, TickAssumption DEF Init, TypeOK, Everyone, Alive, Gone
<1>4. QueueExclusive
  BY <1>1, <1>2 DEF Init, QueueExclusive
<1> QED BY <1>3, <1>4 DEF QueueInv

LEMMA QueueStep == QueueInv /\ [Next]_vars => QueueInv'
<1> SUFFICES ASSUME TypeOK, QueueExclusive, [Next]_vars PROVE TypeOK' /\ QueueExclusive'
  BY DEF QueueInv
<1> USE DEF Alive, Gone, Sleeping, Everyone
<1>1. CASE BeginWait
  BY <1>1 DEF BeginWait, InTask, TypeOK, QueueExclusive
<1>2. CASE EndWait
  BY <1>2 DEF EndWait, InTask, TypeOK, QueueExclusive
<1>3. CASE Dispatch
  <2>1. Schedule(state, stopped, free_tasks) /\ UNCHANGED <<stop_loop, bug>>
    BY <1>3 DEF Dispatch, Sleep, CondSchedule, SwapperLoop
  <2>2. stop_loop' \in SUBSET Tasks
    BY <2>1 DEF TypeOK
  <2> QED BY <2>1, <2>2, ScheduleKeepsQueue DEF TypeOK
<1>4. ASSUME NEW b \in BOOLEAN, DoExit(b) PROVE TypeOK' /\ QueueExclusive'
  <2> DEFINE st == [state EXCEPT ![current] = IF b THEN "DEAD" ELSE "ZOMBIE"]
             fr == IF b THEN free_tasks \union {current} ELSE free_tasks
  <2>1. Schedule(st, stopped, fr) /\ UNCHANGED <<stop_loop, bug>>
    BY <1>4 DEF DoExit
  <2>2. /\ st \in [Tasks -> Alive \union Gone] /\ fr \in SUBSET Tasks
        /\ stop_loop' \in SUBSET Tasks /\ stopped \in [Tasks -> BOOLEAN]
    BY <1>4, <2>1 DEF DoExit, InTask, TypeOK
  <2> QED BY <2>1, <2>2, ScheduleKeepsQueue
<1>5. CASE ReaperExit
  BY <1>5 DEF ReaperExit, TypeOK, QueueExclusive
<1>6. CASE Stop
  <2> DEFINE sp == [stopped EXCEPT ![current] = TRUE]
  <2>1. /\ Schedule(state, sp, free_tasks) /\ UNCHANGED bug
        /\ stop_loop' \in SUBSET Tasks /\ sp \in [Tasks -> BOOLEAN]
    BY <1>6 DEF Stop, InTask, TypeOK
  <2> QED BY <2>1, ScheduleKeepsQueue DEF TypeOK
<1>7. CASE AfterStop
  BY <1>7 DEF AfterStop, TypeOK, QueueExclusive
<1>8. CASE AfterExit
  BY <1>8 DEF AfterExit, TypeOK, QueueExclusive
<1>9. ASSUME NEW t \in Tasks, Clone(t) PROVE TypeOK' /\ QueueExclusive'
  BY <1>9 DEF Clone, TypeOK, QueueExclusive
<1>10. ASSUME NEW t \in Tasks, Reap(t) PROVE TypeOK' /\ QueueExclusive'
  BY <1>10 DEF Reap, TypeOK, QueueExclusive
<1>11. ASSUME NEW t \in Tasks, Continue(t) PROVE TypeOK' /\ QueueExclusive'
  <2>1. WakeUp(t) /\ UNCHANGED current
    BY <1>11 DEF Continue
  <2>2. /\ schedule_queue' \in Seq(Tasks) /\ NoDuplicates(schedule_queue')
        /\ current \notin Contents(schedule_queue')
        /\ wakeup_current' \in [Tasks -> BOOLEAN]
    BY <2>1, WakeUpFacts
  <2> QED BY <1>11, <2>2 DEF Continue, TypeOK, QueueExclusive
<1>12. ASSUME NEW t \in Tasks, Wake(t) PROVE TypeOK' /\ QueueExclusive'
  <2>1. WakeUp(t) /\ UNCHANGED current
    BY <1>12 DEF Wake
  <2>2. /\ schedule_queue' \in Seq(Tasks) /\ NoDuplicates(schedule_queue')
        /\ current \notin Contents(schedule_queue')
        /\ wakeup_current' \in [Tasks -> BOOLEAN]
    BY <2>1, WakeUpFacts
  <2> QED BY <1>12, <2>2 DEF Wake, TypeOK, QueueExclusive
<1>13. CASE Tick
  BY <1>13, TickAssumption DEF Tick, TypeOK, QueueExclusive
<1>14. CASE UNCHANGED vars
  BY <1>14 DEF vars, TypeOK, QueueExclusive
<1> QED
  BY <1>1, <1>2, <1>3, <1>4, <1>5, <1>6, <1>7, <1>8, <1>9, <1>10, <1>11, <1>12,
     <1>13, <1>14 DEF Next, Halted

\* Every variable of the scheduler keeps its type.
THEOREM TypeCorrect == Spec => []TypeOK
<1>1. QueueInv => TypeOK
  BY DEF QueueInv
<1> QED BY QueueInit, QueueStep, <1>1, PTL DEF Spec

\* No interleaving of schedule() and wake_up_process() queues a task twice or
\* queues the task that is running, also when a task exits with a wake pending.
THEOREM QueueIsExclusive == Spec => []QueueExclusive
<1>1. QueueInv => QueueExclusive
  BY DEF QueueInv
<1> QED BY QueueInit, QueueStep, <1>1, PTL DEF Spec

-----------------------------------------------------------------------------
(* Who is queued only moves forward.                                        *)

\* The action of NoOvertaking.
KeepsOrder ==
  \A i \in 1..Len(schedule_queue), j \in 1..Len(schedule_queue') :
    schedule_queue[i] = schedule_queue'[j] => j <= i

\* A queue that stays as it is: no task is in it twice, so none has two places.
LEMMA SameQueueKeepsOrder ==
  ASSUME TypeOK, QueueExclusive, schedule_queue' = schedule_queue
  PROVE  KeepsOrder
<1>1. /\ Len(schedule_queue) \in Nat
      /\ \A i, j \in 1..Len(schedule_queue) :
           schedule_queue[i] = schedule_queue[j] => i = j
  BY DEF TypeOK, QueueExclusive, NoDuplicates
<1> QED BY <1>1 DEF KeepsOrder

\* A task that joins the queue joins behind everybody in it.
LEMMA AppendKeepsPlaces ==
  ASSUME TypeOK, QueueExclusive, NEW t \in Tasks, t \notin Contents(schedule_queue),
         NEW i \in 1..Len(schedule_queue), NEW j \in 1..Len(Append(schedule_queue, t)),
         schedule_queue[i] = Append(schedule_queue, t)[j]
  PROVE  i = j
<1>1. schedule_queue \in Seq(Tasks) /\ Len(schedule_queue) \in Nat
  BY DEF TypeOK
<1>2. /\ Len(Append(schedule_queue, t)) = Len(schedule_queue) + 1
      /\ \A k \in 1..Len(schedule_queue) : Append(schedule_queue, t)[k] = schedule_queue[k]
      /\ Append(schedule_queue, t)[Len(schedule_queue) + 1] = t
  BY <1>1
<1>3. CASE j = Len(schedule_queue) + 1
  BY <1>2, <1>3 DEF Contents
<1>4. CASE j # Len(schedule_queue) + 1
  <2>1. j \in 1..Len(schedule_queue)
    BY <1>1, <1>2, <1>4
  <2>2. schedule_queue[i] = schedule_queue[j]
    BY <1>2, <2>1
  <2> QED BY <2>1, <2>2 DEF QueueExclusive, NoDuplicates
<1> QED BY <1>3, <1>4

\* schedule() takes the first off the queue it may have put current at the end
\* of, so everybody else moves up by one place.
LEMMA ScheduleKeepsOrder ==
  ASSUME TypeOK, QueueExclusive, NEW st, NEW sp, NEW fr, Schedule(st, sp, fr)
  PROVE  KeepsOrder
<1> DEFINE q == QueueBefore(st, sp)
<1>1. ASSUME NEW i \in 1..Len(schedule_queue), NEW j \in 1..Len(q),
             schedule_queue[i] = q[j]
      PROVE  i = j
  <2>1. CASE Requeues(st, sp)
    <3>1. current \in Tasks /\ current \notin Contents(schedule_queue)
      BY <2>1 DEF Requeues, TypeOK, Everyone, QueueExclusive
    <3>2. q = Append(schedule_queue, current)
      BY <2>1 DEF QueueBefore
    <3> QED BY <1>1, <3>1, <3>2, AppendKeepsPlaces
  <2>2. CASE ~Requeues(st, sp)
    <3>1. q = schedule_queue
      BY <2>2 DEF QueueBefore
    <3> QED BY <1>1, <3>1 DEF QueueExclusive, NoDuplicates
  <2> QED BY <2>1, <2>2
<1>2. q \in Seq(Tasks)
  <2>1. schedule_queue \in Seq(Tasks)
    BY DEF TypeOK
  <2>2. Requeues(st, sp) => current \in Tasks
    BY DEF Requeues, TypeOK, Everyone
  <2> QED BY <2>1, <2>2 DEF QueueBefore
<1>3. schedule_queue' = IF q = <<>> THEN <<>> ELSE Tail(q)
  BY DEF Schedule, QueueAfter
<1> HIDE DEF q
<1> SUFFICES ASSUME NEW i \in 1..Len(schedule_queue), NEW j \in 1..Len(schedule_queue'),
                    schedule_queue[i] = schedule_queue'[j]
             PROVE  j <= i
  BY DEF KeepsOrder
<1>4. q # <<>> /\ schedule_queue' = Tail(q)
  BY <1>3
<1>5. j + 1 \in 1..Len(q) /\ Tail(q)[j] = q[j + 1]
  BY <1>2, <1>4
<1>6. i = j + 1
  BY <1>1, <1>4, <1>5
<1> QED BY <1>6

\* wake_up_process(t) puts t at the back, when it is not queued yet.
LEMMA WakeUpKeepsOrder ==
  ASSUME TypeOK, QueueExclusive, NEW t \in Tasks, WakeUp(t)
  PROVE  KeepsOrder
<1>1. CASE schedule_queue' = schedule_queue
  BY <1>1, SameQueueKeepsOrder
<1>2. CASE schedule_queue' # schedule_queue
  <2>1. t \notin Contents(schedule_queue) /\ schedule_queue' = Append(schedule_queue, t)
    BY <1>2 DEF WakeUp
  <2>2. ASSUME NEW i \in 1..Len(schedule_queue), NEW j \in 1..Len(schedule_queue'),
               schedule_queue[i] = schedule_queue'[j]
        PROVE  j <= i
    BY <2>1, <2>2, AppendKeepsPlaces
  <2> QED BY <2>2 DEF KeepsOrder
<1> QED BY <1>1, <1>2

LEMMA OrderStep == QueueInv /\ [Next]_vars => [KeepsOrder]_vars
<1> SUFFICES ASSUME TypeOK, QueueExclusive, [Next]_vars PROVE KeepsOrder
  BY DEF QueueInv
<1>1. CASE Dispatch
  BY <1>1, ScheduleKeepsOrder DEF Dispatch, Sleep, CondSchedule, SwapperLoop
<1>2. ASSUME NEW b \in BOOLEAN, DoExit(b) PROVE KeepsOrder
  <2> PICK st, fr : Schedule(st, stopped, fr)
    BY <1>2 DEF DoExit
  <2> QED BY ScheduleKeepsOrder
<1>3. CASE Stop
  BY <1>3, ScheduleKeepsOrder DEF Stop
<1>4. ASSUME NEW t \in Tasks, Continue(t) \/ Wake(t) PROVE KeepsOrder
  BY <1>4, WakeUpKeepsOrder DEF Continue, Wake
<1>5. ASSUME NEW t \in Tasks, Clone(t) \/ Reap(t) PROVE UNCHANGED schedule_queue
  BY <1>5 DEF Clone, Reap
<1>6. BeginWait \/ EndWait \/ ReaperExit \/ AfterStop \/ AfterExit \/ Tick \/ Halted
      \/ UNCHANGED vars => UNCHANGED schedule_queue
  BY DEF BeginWait, EndWait, ReaperExit, AfterStop, AfterExit, Tick, Halted, vars
<1>7. UNCHANGED schedule_queue => KeepsOrder
  BY SameQueueKeepsOrder
<1> QED BY <1>1, <1>2, <1>3, <1>4, <1>5, <1>6, <1>7 DEF Next

\* The queue is a FIFO: no call of schedule() or wake_up_process() moves a
\* queued task further from the front.
THEOREM NeverOvertaken == Spec => NoOvertaking
<1>1. QueueInv /\ [Next]_vars
        => [\A i \in 1..Len(schedule_queue), j \in 1..Len(schedule_queue') :
              schedule_queue[i] = schedule_queue'[j] => j <= i]_vars
  BY OrderStep DEF KeepsOrder
<1> QED BY QueueInit, QueueStep, <1>1, PTL DEF Spec, NoOvertaking

-----------------------------------------------------------------------------
(* Second layer: nothing stranded, no wake lost, also when a task exits    *)
(* with a wake pending.                                                    *)

LifeInv ==
  /\ NoneStranded
  /\ SelfWakeTaken
  /\ IdleHasFreed
  /\ Bookkeeping

\* A call of schedule() keeps the second layer when its caller changed the
\* fields of the running task only and stops inside the stop loop only.
LEMMA ScheduleKeepsLife ==
  ASSUME TypeOK, QueueExclusive, LifeInv,
         NEW st \in [Tasks -> Alive \union Gone], NEW sp \in [Tasks -> BOOLEAN],
         NEW fr \in SUBSET Tasks, Schedule(st, sp, fr),
         \A t \in Tasks : t # current => st[t] = state[t],
         current \in Tasks => st[current] # "FREE",
         \A t \in fr : st[t] = "DEAD",
         \A t \in Tasks : t # current => sp[t] = stopped[t],
         \A t \in Tasks : sp[t] => t \in stop_loop',
         stop_loop \subseteq stop_loop', stop_loop' \in SUBSET Tasks,
         \A t \in stop_loop' : st[t] = "RUNNING"
  PROVE  LifeInv'
<1> DEFINE N == NextTask(st, sp)
           Q == QueueAfter(st, sp)
           F == Freed(st, sp, fr)
<1>1. \A t \in Tasks : (t = N \/ t \in Contents(Q))
         <=> (t \in Contents(schedule_queue) \/ (t = current /\ Requeues(st, sp)))
  BY ScheduleFacts
<1>2. current' = N /\ schedule_queue' = Q /\ stopped' = sp
  BY DEF Schedule
<1>3. /\ F \subseteq fr
      /\ \A t \in Tasks : state'[t] = IF t \in F THEN "FREE" ELSE st[t]
      /\ free_tasks' = fr \ F
      /\ started' = (started \ F) \union {N}
  BY DEF Schedule, Freed
<1>4. NoneStranded'
  <2> SUFFICES ASSUME NEW t \in Tasks, t \in started', state'[t] = "RUNNING",
                      ~stopped'[t], t # N
               PROVE  t \in Contents(Q)
    BY <1>2 DEF NoneStranded
  <2>1. t \in started /\ st[t] = "RUNNING" /\ ~sp[t]
    BY <1>2, <1>3
  <2>2. CASE t = current
    <3>1. Requeues(st, sp)
      BY <2>1, <2>2, TaskAssumption DEF Requeues
    <3> QED BY <1>1, <2>2, <3>1
  <2>3. CASE t # current
    BY <1>1, <2>1, <2>3 DEF LifeInv, NoneStranded
  <2> QED BY <2>2, <2>3
<1>5. SelfWakeTaken'
  <2> SUFFICES ASSUME NEW t \in Tasks, wakeup_current'[t], t \notin stop_loop'
               PROVE  FALSE
    BY DEF SelfWakeTaken
  <2>1. /\ wakeup_current \in [Tasks -> BOOLEAN]
        /\ wakeup_current' = IF Requeues(st, sp)
                               THEN [wakeup_current EXCEPT ![current] = FALSE]
                               ELSE wakeup_current
    BY DEF Schedule, TypeOK
  <2>2. wakeup_current[t]
    BY <2>1
  <2>3. t = current
    BY <2>2 DEF LifeInv, SelfWakeTaken
  <2>4. Requeues(st, sp)
    BY <2>2, <2>3, TaskAssumption DEF Requeues
  <2> QED BY <2>1, <2>3, <2>4
<1>6. IdleHasFreed'
  BY <1>2, <1>3 DEF IdleHasFreed, LifeInv, Bookkeeping, Freed
<1>7. Bookkeeping'
  <2>1. \A t \in Tasks : stopped'[t] => t \in stop_loop'
    BY <1>2
  <2>2. \A t \in stop_loop' : state'[t] = "RUNNING"
    BY <1>3
  <2>3. \A t \in free_tasks' : state'[t] = "DEAD"
    BY <1>3
  <2>4. {current', Swapper} \subseteq started'
    BY <1>2, <1>3, TaskAssumption DEF LifeInv, Bookkeeping
  <2>5. ASSUME NEW t \in Tasks \ {current'}, state'[t] = "FREE" PROVE t \notin started'
    <3>1. t \in F \/ (t # current /\ state[t] = "FREE")
      BY <1>3, <2>5
    <3> QED BY <1>2, <1>3, <2>5, <3>1 DEF LifeInv, Bookkeeping
  <2> QED BY <2>1, <2>2, <2>3, <2>4, <2>5 DEF Bookkeeping
<1> QED BY <1>4, <1>5, <1>6, <1>7 DEF LifeInv

LEMMA LifeInit == Init => LifeInv
<1> SUFFICES ASSUME Init PROVE LifeInv
  OBVIOUS
<1>1. Contents(<<InitTask>>) = {InitTask}
  <2>1. Len(<<InitTask>>) = 1 /\ <<InitTask>>[1] = InitTask
    OBVIOUS
  <2>2. \A i \in 1..Len(<<InitTask>>) : <<InitTask>>[i] = InitTask
    BY <2>1
  <2>3. 1 \in 1..Len(<<InitTask>>)
    BY <2>1
  <2> QED BY <2>1, <2>2, <2>3 DEF Contents
<1> QED
  BY <1>1, TaskAssumption DEF Init, LifeInv, NoneStranded, SelfWakeTaken,
     IdleHasFreed, Bookkeeping

LEMMA LifeStep == QueueInv /\ LifeInv /\ [Next]_vars => LifeInv'
<1> SUFFICES ASSUME TypeOK, QueueExclusive, LifeInv, [Next]_vars PROVE LifeInv'
  BY DEF QueueInv
<1> USE DEF LifeInv, NoneStranded, SelfWakeTaken, IdleHasFreed, Bookkeeping
<1>1. CASE BeginWait
  BY <1>1 DEF BeginWait, InTask, TypeOK, Sleeping, Gone
<1>2. CASE EndWait
  BY <1>2 DEF EndWait, InTask, TypeOK, Sleeping, Gone
<1>3. CASE Dispatch
  <2>1. Schedule(state, stopped, free_tasks) /\ UNCHANGED <<stop_loop, bug>>
    BY <1>3 DEF Dispatch, Sleep, CondSchedule, SwapperLoop
  <2>2. current \in Tasks => state[current] # "FREE"
    BY <1>3, TaskAssumption
       DEF Dispatch, Sleep, CondSchedule, SwapperLoop, InTask, Sleeping
  <2>3. /\ state \in [Tasks -> Alive \union Gone] /\ stopped \in [Tasks -> BOOLEAN]
        /\ free_tasks \in SUBSET Tasks /\ stop_loop \in SUBSET Tasks
    BY DEF TypeOK
  <2> QED BY <2>1, <2>2, <2>3, ScheduleKeepsLife
<1>4. ASSUME NEW b \in BOOLEAN, DoExit(b) PROVE LifeInv'
  <2> DEFINE st == [state EXCEPT ![current] = IF b THEN "DEAD" ELSE "ZOMBIE"]
             fr == IF b THEN free_tasks \union {current} ELSE free_tasks
  <2>1. /\ Schedule(st, stopped, fr) /\ UNCHANGED <<stop_loop, bug>>
        /\ current \in Tasks \ stop_loop
    BY <1>4 DEF DoExit, InTask
  <2>2. /\ st \in [Tasks -> Alive \union Gone] /\ stopped \in [Tasks -> BOOLEAN]
        /\ fr \in SUBSET Tasks /\ stop_loop \in SUBSET Tasks
    BY <2>1 DEF TypeOK, Gone
  <2>3. /\ \A t \in Tasks : t # current => st[t] = state[t]
        /\ st[current] # "FREE"
        /\ \A t \in fr : st[t] = "DEAD"
        /\ \A t \in stop_loop : st[t] = "RUNNING"
    <3>1. state[current] # "DEAD"
      BY <1>4 DEF DoExit, InTask
    <3> QED BY <2>1, <3>1 DEF TypeOK
  <2> HIDE DEF st, fr
  <2> QED BY <2>1, <2>2, <2>3, ScheduleKeepsLife
<1>5. CASE ReaperExit
  BY <1>5 DEF ReaperExit, InTask, TypeOK
<1>6. CASE Stop
  <2> DEFINE sp == [stopped EXCEPT ![current] = TRUE]
  <2>1. /\ Schedule(state, sp, free_tasks) /\ UNCHANGED bug
        /\ current \in Tasks /\ state[current] = "RUNNING"
        /\ stop_loop' = stop_loop \union {current}
    BY <1>6 DEF Stop, InTask
  <2>2. /\ state \in [Tasks -> Alive \union Gone] /\ sp \in [Tasks -> BOOLEAN]
        /\ free_tasks \in SUBSET Tasks /\ stop_loop' \in SUBSET Tasks
    BY <2>1 DEF TypeOK
  <2>3. /\ \A t \in Tasks : t # current => sp[t] = stopped[t]
        /\ \A t \in Tasks : sp[t] => t \in stop_loop'
        /\ \A t \in stop_loop' : state[t] = "RUNNING"
    BY <2>1 DEF TypeOK
  <2> HIDE DEF sp
  <2> QED BY <2>1, <2>2, <2>3, ScheduleKeepsLife
<1>7. CASE AfterStop
  BY <1>7 DEF AfterStop
<1>8. CASE AfterExit
  BY <1>8 DEF AfterExit
<1>9. ASSUME NEW t \in Tasks, Clone(t) PROVE LifeInv'
  BY <1>9 DEF Clone, InTask, TypeOK
<1>10. ASSUME NEW t \in Tasks, Reap(t) PROVE LifeInv'
  <2>1. /\ current \in Tasks /\ state[t] = "ZOMBIE"
        /\ free_tasks' = free_tasks \union {t}
        /\ UNCHANGED <<current, schedule_queue, wakeup_current, stopped,
                       stop_loop, started, bug>>
    BY <1>10 DEF Reap, InTask
  <2>2. \A u \in Tasks : state'[u] = IF u = t THEN "DEAD" ELSE state[u]
    BY <1>10 DEF Reap, TypeOK
  <2>3. NoneStranded' /\ SelfWakeTaken'
    BY <2>1, <2>2
  <2>4. IdleHasFreed'
    BY <2>1, TaskAssumption
  <2>5. Bookkeeping'
    BY <2>1, <2>2 DEF TypeOK
  <2> QED BY <2>3, <2>4, <2>5
<1>11. ASSUME NEW t \in Tasks, Continue(t) PROVE LifeInv'
  <2>1. WakeUp(t) /\ t # current
    BY <1>11 DEF Continue
  <2>2. /\ wakeup_current' = wakeup_current
        /\ Contents(schedule_queue') = Contents(schedule_queue) \union {t}
    BY <2>1, WakeUpFacts
  <2> QED BY <1>11, <2>1, <2>2 DEF Continue, InTask, TypeOK
<1>12. ASSUME NEW t \in Tasks, Wake(t) PROVE LifeInv'
  <2>1. WakeUp(t)
    BY <1>12 DEF Wake
  <2>2. CASE t = current
    <3>1. /\ wakeup_current' = [wakeup_current EXCEPT ![t] = TRUE]
          /\ schedule_queue' = schedule_queue
      BY <2>1, <2>2, WakeUpFacts
    <3> QED BY <1>12, <2>1, <2>2, <3>1 DEF Wake, TypeOK
  <2>3. CASE t # current
    <3>1. /\ wakeup_current' = wakeup_current
          /\ Contents(schedule_queue') = Contents(schedule_queue) \union {t}
      BY <2>1, <2>3, WakeUpFacts
    <3> QED BY <1>12, <2>1, <2>3, <3>1 DEF Wake
  <2> QED BY <2>2, <2>3
<1>13. CASE Tick
  BY <1>13 DEF Tick
<1>14. CASE UNCHANGED vars
  BY <1>14 DEF vars
<1> QED
  BY <1>1, <1>2, <1>3, <1>4, <1>5, <1>6, <1>7, <1>8, <1>9, <1>10, <1>11, <1>12,
     <1>13, <1>14 DEF Next, Halted

\* No runnable task is ever off both `current' and the queue, so none is
\* forgotten, whatever wakes and exits come between (schedule, wake_up_process).
THEOREM NothingStranded == Spec => []NoneStranded
<1>1. LifeInv => NoneStranded
  BY DEF LifeInv
<1> QED BY QueueInit, QueueStep, LifeInit, LifeStep, <1>1, PTL DEF Spec

\* A wake noted in wakeup_current is taken by the task's own schedule() before it
\* loses the processor.
THEOREM SelfWakeIsTaken == Spec => []SelfWakeTaken
<1>1. LifeInv => SelfWakeTaken
  BY DEF LifeInv
<1> QED BY QueueInit, QueueStep, LifeInit, LifeStep, <1>1, PTL DEF Spec

-----------------------------------------------------------------------------
(* Third layer: the dead stay off the queue, but for those that exit with a *)
(* wake pending.                                                           *)

\* A call of schedule() by a task that has not exited, or that exits with no wake
\* noted, queues nobody who has exited.
LEMMA ScheduleKeepsGone ==
  ASSUME TypeOK, QueueExclusive, ExitedNeverRuns, bug # "child_reaper",
         NEW st \in [Tasks -> Alive \union Gone], NEW sp, NEW fr \in SUBSET Tasks,
         Schedule(st, sp, fr),
         \A t \in Tasks : t # current => st[t] = state[t],
         current \in Tasks \ StaleExits /\ st[current] \in Gone => ~wakeup_current[current],
         \A t \in fr : st[t] = "DEAD"
  PROVE  ExitedNeverRuns'
<1> DEFINE N == NextTask(st, sp)
           Q == QueueAfter(st, sp)
<1>1. \A t \in Tasks : (t = N \/ t \in Contents(Q))
         <=> (t \in Contents(schedule_queue) \/ (t = current /\ Requeues(st, sp)))
  BY ScheduleFacts
<1>2. current' = N /\ schedule_queue' = Q
  BY DEF Schedule
<1>3. /\ Freed(st, sp, fr) \subseteq fr
      /\ \A t \in Tasks : state'[t] = IF t \in Freed(st, sp, fr) THEN "FREE" ELSE st[t]
  BY DEF Schedule, Freed
<1>4. ASSUME NEW t \in Tasks \ StaleExits, state'[t] \in Gone
      PROVE  t # N /\ t \notin Contents(Q)
  <2>1. st[t] \in Gone
    BY <1>3, <1>4 DEF Gone
  <2>2. CASE t = current
    <3>1. ~Requeues(st, sp)
      BY <2>1, <2>2 DEF Requeues, Gone
    <3>2. t \notin Contents(schedule_queue)
      BY <2>2 DEF QueueExclusive
    <3> QED BY <1>1, <3>1, <3>2
  <2>3. CASE t # current
    <3>1. t \notin Contents(schedule_queue)
      BY <2>1, <2>3 DEF ExitedNeverRuns
    <3> QED BY <1>1, <2>3, <3>1
  <2> QED BY <2>2, <2>3
<1> QED BY <1>2, <1>4 DEF ExitedNeverRuns

LEMMA GoneInit == Init => ExitedNeverRuns
<1> SUFFICES ASSUME Init PROVE ExitedNeverRuns
  OBVIOUS
<1>1. \A t \in Contents(<<InitTask>>) : t = InitTask
  BY DEF Contents
<1> QED BY <1>1, TaskAssumption DEF Init, ExitedNeverRuns, Gone

LEMMA GoneStep == QueueInv /\ LifeInv /\ ExitedNeverRuns /\ [Next]_vars => ExitedNeverRuns'
<1> SUFFICES ASSUME TypeOK, QueueExclusive, LifeInv, ExitedNeverRuns, [Next]_vars
             PROVE  ExitedNeverRuns'
  BY DEF QueueInv
<1>1. CASE BeginWait
  BY <1>1 DEF BeginWait, InTask, TypeOK, Sleeping, Gone, ExitedNeverRuns
<1>2. CASE EndWait
  BY <1>2 DEF EndWait, InTask, TypeOK, Sleeping, Gone, ExitedNeverRuns
<1>3. CASE Dispatch
  <2>1. Schedule(state, stopped, free_tasks) /\ bug = "none"
    BY <1>3 DEF Dispatch, Sleep, CondSchedule, SwapperLoop, InTask
  <2>2. current \in Tasks \ StaleExits => state[current] \notin Gone
    BY <2>1 DEF ExitedNeverRuns
  <2>3. /\ state \in [Tasks -> Alive \union Gone] /\ free_tasks \in SUBSET Tasks
        /\ \A t \in free_tasks : state[t] = "DEAD"
    BY DEF TypeOK, LifeInv, Bookkeeping
  <2> QED BY <2>1, <2>2, <2>3, ScheduleKeepsGone
<1>4. ASSUME NEW b \in BOOLEAN, DoExit(b) PROVE ExitedNeverRuns'
  <2> DEFINE st == [state EXCEPT ![current] = IF b THEN "DEAD" ELSE "ZOMBIE"]
             fr == IF b THEN free_tasks \union {current} ELSE free_tasks
  <2>1. /\ Schedule(st, stopped, fr) /\ bug = "none" /\ current \in Tasks
        /\ current \notin StaleExits => ~wakeup_current[current]
        /\ state[current] \in Alive
    BY <1>4 DEF DoExit, InTask
  <2>2. st \in [Tasks -> Alive \union Gone] /\ fr \in SUBSET Tasks
    BY <2>1 DEF TypeOK, Gone
  <2>3. /\ \A t \in Tasks : t # current => st[t] = state[t]
        /\ \A t \in fr : st[t] = "DEAD"
    <3>1. state[current] # "DEAD"
      BY <2>1 DEF Alive, Sleeping
    <3> QED BY <2>1, <3>1 DEF TypeOK, LifeInv, Bookkeeping
  <2> HIDE DEF st, fr
  <2> QED BY <2>1, <2>2, <2>3, ScheduleKeepsGone
<1>5. CASE ReaperExit
  BY <1>5 DEF ReaperExit, ExitedNeverRuns
<1>6. CASE Stop
  <2> DEFINE sp == [stopped EXCEPT ![current] = TRUE]
  <2>1. Schedule(state, sp, free_tasks) /\ bug = "none" /\ state[current] = "RUNNING"
    BY <1>6 DEF Stop, InTask
  <2>2. /\ state \in [Tasks -> Alive \union Gone] /\ free_tasks \in SUBSET Tasks
        /\ \A t \in free_tasks : state[t] = "DEAD"
    BY DEF TypeOK, LifeInv, Bookkeeping
  <2>3. state[current] \notin Gone
    BY <2>1 DEF Gone
  <2> HIDE DEF sp
  <2> QED BY <2>1, <2>2, <2>3, ScheduleKeepsGone
<1>7. CASE AfterStop
  BY <1>7 DEF AfterStop, ExitedNeverRuns
<1>8. CASE AfterExit
  BY <1>8 DEF AfterExit, ExitedNeverRuns
<1>9. ASSUME NEW t \in Tasks, Clone(t) PROVE ExitedNeverRuns'
  BY <1>9 DEF Clone, InTask, TypeOK, Gone, ExitedNeverRuns
<1>10. ASSUME NEW t \in Tasks, Reap(t) PROVE ExitedNeverRuns'
  BY <1>10 DEF Reap, InTask, TypeOK, Gone, ExitedNeverRuns
<1>11. ASSUME NEW t \in Tasks, Continue(t) PROVE ExitedNeverRuns'
  <2>1. WakeUp(t) /\ t # current /\ state[t] = "RUNNING"
    BY <1>11 DEF Continue, InTask, LifeInv, Bookkeeping
  <2>2. Contents(schedule_queue') = Contents(schedule_queue) \union {t}
    BY <2>1, WakeUpFacts
  <2> QED BY <1>11, <2>1, <2>2 DEF Continue, Gone, ExitedNeverRuns
<1>12. ASSUME NEW t \in Tasks, Wake(t) PROVE ExitedNeverRuns'
  <2>1. WakeUp(t) /\ state[t] \notin Gone
    BY <1>12 DEF Wake, Alive, Sleeping, Gone
  <2>2. \/ schedule_queue' = schedule_queue
        \/ Contents(schedule_queue') = Contents(schedule_queue) \union {t}
    BY <2>1, WakeUpFacts
  <2> QED BY <1>12, <2>1, <2>2 DEF Wake, ExitedNeverRuns
<1>13. CASE Tick
  BY <1>13 DEF Tick, ExitedNeverRuns
<1>14. CASE UNCHANGED vars
  BY <1>14 DEF vars, ExitedNeverRuns
<1> QED
  BY <1>1, <1>2, <1>3, <1>4, <1>5, <1>6, <1>7, <1>8, <1>9, <1>10, <1>11, <1>12,
     <1>13, <1>14 DEF Next, Halted

\* A task that has exited is never queued and never runs again, so its stack can be
\* freed: of all tasks but those that may reach do_exit with wakeup_current set, and
\* also when there are such.
THEOREM ExitedIsGone == Spec => []ExitedNeverRuns
BY QueueInit, QueueStep, LifeInit, LifeStep, GoneInit, GoneStep, PTL DEF Spec

-----------------------------------------------------------------------------
(* Sched implements ReadySet: the initial state maps to an initial state,   *)
(* and every step maps to a step of ReadySet or to a stutter.               *)

\* What the mapped variables are worth while the scheduler's invariant holds.
LEMMA MappedTypes ==
  ASSUME TypeOK
  PROVE  Contents(schedule_queue) \subseteq Tasks
BY DEF TypeOK, Contents

LEMMA MappedInit == Init => Abstract!ReadyInit
<1> SUFFICES ASSUME Init PROVE Abstract!ReadyInit
  OBVIOUS
<1>1. Contents(<<InitTask>>) = {InitTask}
  <2>1. Len(<<InitTask>>) = 1 /\ <<InitTask>>[1] = InitTask
    OBVIOUS
  <2>2. \A i \in 1..Len(<<InitTask>>) : <<InitTask>>[i] = InitTask
    BY <2>1
  <2>3. 1 \in 1..Len(<<InitTask>>)
    BY <2>1
  <2> QED BY <2>1, <2>2, <2>3 DEF Contents
<1>2. schedule_queue = <<InitTask>> /\ current = Swapper
  BY DEF Init
<1>3. {t \in Tasks : wakeup_current[t]} = {}
  BY DEF Init
<1>4. \E t \in Tasks : Contents(schedule_queue) = {t}
  BY <1>1, <1>2, TaskAssumption
<1> QED BY <1>2, <1>3, <1>4 DEF Abstract!ReadyInit

\* schedule() with its queue is schedule() with a set.
LEMMA MappedSchedule ==
  ASSUME TypeOK, QueueExclusive, NEW st, NEW sp, NEW fr,
         Schedule(st, sp, fr),
         current \in Tasks => sp[current] \in BOOLEAN
  PROVE  Abstract!ReadyNext
<1> PICK runs \in BOOLEAN : runs <=> (current \in Tasks /\ st[current] = "RUNNING")
  <2>1. (current \in Tasks /\ st[current] = "RUNNING") \in BOOLEAN
    OBVIOUS
  <2> QED BY <2>1
<1> PICK stops \in BOOLEAN : stops <=> (current \in Tasks /\ sp[current])
  <2>1. (current \in Tasks /\ sp[current]) \in BOOLEAN
    OBVIOUS
  <2> QED BY <2>1
<1> DEFINE N == NextTask(st, sp)
           Q == QueueAfter(st, sp)
           stays == current \in Tasks /\ ~stops
                      /\ (runs \/ current \in {t \in Tasks : wakeup_current[t]})
           r == IF stays THEN Contents(schedule_queue) \union {current}
                         ELSE Contents(schedule_queue)
<1>1. /\ N \in Tasks \union {Swapper} /\ N \notin Contents(Q)
      /\ N = Swapper => Q = <<>>
      /\ \A t \in Tasks : (t = N \/ t \in Contents(Q))
            <=> (t \in Contents(schedule_queue) \/ (t = current /\ Requeues(st, sp)))
  BY ScheduleFacts DEF Everyone
<1>2. stays <=> Requeues(st, sp)
  BY TaskAssumption DEF Requeues, TypeOK, Everyone
<1>3. Contents(Q) \subseteq Tasks /\ Contents(<<>>) = {} /\ Contents(schedule_queue) \subseteq Tasks
  BY ScheduleFacts, MappedTypes DEF Contents
<1>4. \A t \in Tasks : t \in r <=> (t = N \/ t \in Contents(Q))
  BY <1>1, <1>2
<1>5. r \subseteq Tasks
  BY <1>3
<1>6. N \in (IF r = {} THEN {Swapper} ELSE r)
  <2>1. CASE N = Swapper
    BY <2>1, <1>1, <1>3, <1>4, <1>5, TaskAssumption
  <2>2. CASE N \in Tasks
    BY <2>2, <1>4
  <2> QED BY <1>1, <2>1, <2>2
<1>7. Contents(Q) = r \ {N}
  BY <1>1, <1>3, <1>4, <1>5
<1>8. {t \in Tasks : wakeup_current'[t]}
        = IF stays THEN {t \in Tasks : wakeup_current[t]} \ {current}
                   ELSE {t \in Tasks : wakeup_current[t]}
  <2>1. wakeup_current' = IF Requeues(st, sp)
                            THEN [wakeup_current EXCEPT ![current] = FALSE]
                            ELSE wakeup_current
    BY DEF Schedule
  <2> QED BY <1>2, <2>1 DEF TypeOK
<1>9. current' = N /\ schedule_queue' = Q
  BY DEF Schedule
<1>10. Abstract!Suspend(runs, stops)
  BY <1>6, <1>7, <1>8, <1>9 DEF Abstract!Suspend
<1> QED BY <1>10 DEF Abstract!ReadyNext

\* wake_up_process() with its queue is wake_up_process() with a set.
LEMMA MappedWakeUp ==
  ASSUME TypeOK, QueueExclusive, NEW t \in Tasks, WakeUp(t), UNCHANGED current
  PROVE  Abstract!ReadyNext
<1>1. CASE t = current
  <2>1. /\ wakeup_current' = [wakeup_current EXCEPT ![t] = TRUE]
        /\ schedule_queue' = schedule_queue
    BY <1>1, WakeUpFacts
  <2>2. {u \in Tasks : wakeup_current'[u]} = {u \in Tasks : wakeup_current[u]} \union {t}
    BY <2>1 DEF TypeOK
  <2>3. Abstract!WakeUp(t)
    BY <1>1, <2>1, <2>2 DEF Abstract!WakeUp
  <2> QED BY <2>3 DEF Abstract!ReadyNext
<1>2. CASE t # current
  <2>1. /\ wakeup_current' = wakeup_current
        /\ Contents(schedule_queue') = Contents(schedule_queue) \union {t}
    BY <1>2, WakeUpFacts
  <2>2. Abstract!WakeUp(t)
    BY <1>2, <2>1 DEF Abstract!WakeUp
  <2> QED BY <2>2 DEF Abstract!ReadyNext
<1> QED BY <1>1, <1>2

LEMMA MappedStep ==
  ASSUME TypeOK, QueueExclusive, SelfWakeTaken, Bookkeeping, [Next]_vars
  PROVE  [Abstract!ReadyNext]_(Abstract!schedvars)
<1> DEFINE Stutter == UNCHANGED <<current, schedule_queue, wakeup_current>>
<1>0. Stutter => UNCHANGED Abstract!schedvars
  BY DEF Abstract!schedvars
<1>1. CASE Dispatch
  <2>1. Schedule(state, stopped, free_tasks)
    BY <1>1 DEF Dispatch, Sleep, CondSchedule, SwapperLoop
  <2> QED BY <2>1, MappedSchedule DEF TypeOK
<1>2. ASSUME NEW b \in BOOLEAN, DoExit(b) PROVE Abstract!ReadyNext
  <2> PICK st, fr : Schedule(st, stopped, fr)
    BY <1>2 DEF DoExit
  <2> QED BY MappedSchedule DEF TypeOK
<1>3. CASE Stop
  <2> DEFINE sp == [stopped EXCEPT ![current] = TRUE]
  <2>1. Schedule(state, sp, free_tasks) /\ current \in Tasks
    BY <1>3 DEF Stop, InTask
  <2>2. sp[current] \in BOOLEAN
    BY <2>1 DEF TypeOK
  <2> HIDE DEF sp
  <2> QED BY <2>1, <2>2, MappedSchedule
<1>4. ASSUME NEW t \in Tasks, Clone(t) PROVE Stutter
  <2>1. t # current /\ t \notin stop_loop
    BY <1>4 DEF Clone, Bookkeeping
  <2>2. ~wakeup_current[t]
    BY <2>1 DEF SelfWakeTaken
  <2>3. wakeup_current' = [wakeup_current EXCEPT ![t] = FALSE]
    BY <1>4 DEF Clone
  <2>4. wakeup_current' = wakeup_current
    BY <2>2, <2>3 DEF TypeOK
  <2> QED BY <1>4, <2>4 DEF Clone
<1>5. ASSUME NEW t \in Tasks, Continue(t) PROVE Abstract!ReadyNext
  BY <1>5, MappedWakeUp DEF Continue
<1>6. ASSUME NEW t \in Tasks, Wake(t) PROVE Abstract!ReadyNext
  BY <1>6, MappedWakeUp DEF Wake
<1>7. ASSUME NEW t \in Tasks, Reap(t) PROVE Stutter
  BY <1>7 DEF Reap
<1>8. BeginWait \/ EndWait \/ ReaperExit \/ AfterStop \/ AfterExit \/ Tick \/ Halted
      \/ UNCHANGED vars => Stutter
  BY DEF BeginWait, EndWait, ReaperExit, AfterStop, AfterExit, Tick, Halted, vars
<1> QED
  BY <1>0, <1>1, <1>2, <1>3, <1>4, <1>5, <1>6, <1>7, <1>8 DEF Next

\* task/sched.c implements ReadySet: the code that waits and wakes may rely on
\* ReadySet's promise.
THEOREM SchedImplementsReadySet == Spec => ImplementsReadySet
<1>1. QueueInv /\ LifeInv /\ [Next]_vars => [Abstract!ReadyNext]_(Abstract!schedvars)
  BY MappedStep DEF QueueInv, LifeInv
<1> QED
  BY QueueInit, QueueStep, LifeInit, LifeStep, MappedInit, <1>1, PTL
     DEF Spec, ImplementsReadySet, Abstract!ReadySpec
=============================================================================
