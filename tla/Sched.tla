------------------------------- MODULE Sched -------------------------------
(***************************************************************************)
(* The scheduler of task/sched.c: one processor, one running task          *)
(* (`current'), a FIFO of runnable tasks (`schedule_queue') and a swapper   *)
(* that runs when the FIFO is empty.                                       *)
(*                                                                         *)
(* The kernel is not preemptive.  A task gives the processor up when it    *)
(* calls schedule() in the kernel (to wait, to stop, to exit) or, on the   *)
(* way back to user mode, in cond_schedule().  Interrupt handlers run      *)
(* between any two steps of the running task and may wake any task that is  *)
(* registered with a device, the running one included.  schedule() and     *)
(* wake_up_process() run with interrupts off, so each is one step.         *)
(*                                                                         *)
(* The parts of clone.c, exit.c and signal.c that read or write the fields *)
(* the scheduler looks at are modelled here with them; what else they do   *)
(* is in other modules.                                                    *)
(***************************************************************************)
EXTENDS Queues

CONSTANTS
  Tasks,      \* the task structures that can be allocated
  InitTask,   \* init_task, the child reaper: its ppid is 0
  Swapper,    \* swapper_task, which is never queued
  MaxTick,    \* bound: the PIT counter saturates here
  StaleExits  \* the tasks that may reach do_exit with wakeup_current set

SCHEDULE_TICK == 1

ASSUME TaskAssumption == InitTask \in Tasks /\ Swapper \notin Tasks
ASSUME TickAssumption == MaxTick \in Nat /\ MaxTick >= SCHEDULE_TICK
ASSUME StaleAssumption == StaleExits \subseteq Tasks

VARIABLES
  current,               \* the task whose kernel stack is in use
  schedule_queue,        \* FIFO of tasks to run next
  state,                 \* task_struct.state; "FREE" when there is no struct
  wakeup_current,        \* task_struct.wakeup_current
  stopped,               \* task_struct.stopped
  stop_loop,             \* tasks inside deliver_signal's `while (stopped)'
  free_tasks,            \* dead tasks whose stack is not given back yet
  started,               \* tasks that have run at least once
  schedule_pit_counter,  \* ticks since the last switch
  bug                    \* where BUG() or panic() halted the kernel, or "none"

vars == <<current, schedule_queue, state, wakeup_current, stopped, stop_loop,
          free_tasks, started, schedule_pit_counter, bug>>

Everyone == Tasks \union {Swapper}
Sleeping == {"INTERRUPTIBLE", "UNINTERRUPTIBLE"}
Alive    == {"RUNNING"} \union Sleeping
Gone     == {"ZOMBIE", "DEAD", "FREE"}

TypeOK ==
  /\ current \in Everyone
  /\ schedule_queue \in Seq(Tasks)
  /\ state \in [Tasks -> Alive \union Gone]
  /\ wakeup_current \in [Tasks -> BOOLEAN]
  /\ stopped \in [Tasks -> BOOLEAN]
  /\ stop_loop \in SUBSET Tasks
  /\ free_tasks \in SUBSET Tasks
  /\ started \in SUBSET Everyone
  /\ schedule_pit_counter \in 0..MaxTick
  /\ bug \in {"none", "child_reaper", "do_exit", "deliver_signal"}

(***************************************************************************)
(* kernel_main has reached its idle loop: the swapper runs, and init_task  *)
(* has been cloned and woken.                                              *)
(***************************************************************************)
Init ==
  /\ current = Swapper
  /\ schedule_queue = <<InitTask>>
  /\ state = [t \in Tasks |-> IF t = InitTask THEN "RUNNING" ELSE "FREE"]
  /\ wakeup_current = [t \in Tasks |-> FALSE]
  /\ stopped = [t \in Tasks |-> FALSE]
  /\ stop_loop = {}
  /\ free_tasks = {}
  /\ started = {Swapper}
  /\ schedule_pit_counter = 0
  /\ bug = "none"

-----------------------------------------------------------------------------
(***************************************************************************)
(* schedule().  Its callers change current's state and stopped flag just   *)
(* before the call, so the operator takes the values it finds there: st    *)
(* for `state', sp for `stopped', fr for `free_tasks'.                     *)
(***************************************************************************)
\* Variants of Requeues with a bug, for the properties to notice: the swapper
\* is queued like a task; a noted wake is not looked at; the state is not.
RequeuesSwapper(st, sp) ==
  current = Swapper \/ (~sp[current] /\ (st[current] = "RUNNING" \/ wakeup_current[current]))
RequeuesRunning(st, sp) == current # Swapper /\ ~sp[current] /\ st[current] = "RUNNING"
RequeuesAny(st, sp)     == current # Swapper /\ ~sp[current]

Requeues(st, sp) ==
  /\ current # Swapper
  /\ ~sp[current]
  /\ st[current] = "RUNNING" \/ wakeup_current[current]

\* With a bug: current goes to the front.
QueueBeforeFirst(st, sp) ==
  IF Requeues(st, sp) THEN <<current>> \o schedule_queue ELSE schedule_queue

QueueBefore(st, sp) ==
  IF Requeues(st, sp) THEN Append(schedule_queue, current) ELSE schedule_queue

NextTask(st, sp) ==
  LET q == QueueBefore(st, sp) IN IF q = <<>> THEN Swapper ELSE Head(q)

\* With a bug: the next task is looked at and not taken out.
QueueAfterPeek(st, sp) == QueueBefore(st, sp)

QueueAfter(st, sp) ==
  LET q == QueueBefore(st, sp) IN IF q = <<>> THEN <<>> ELSE Tail(q)

\* do_free_tasks() is reached by a task that returns from its own schedule():
\* a task that never ran starts at entry_task instead and frees nothing.
Freed(st, sp, fr) == IF NextTask(st, sp) \in started THEN fr ELSE {}

Schedule(st, sp, fr) ==
  /\ current' = NextTask(st, sp)
  /\ schedule_queue' = QueueAfter(st, sp)
  /\ wakeup_current' = IF Requeues(st, sp)
                         THEN [wakeup_current EXCEPT ![current] = FALSE]
                         ELSE wakeup_current
  /\ schedule_pit_counter' =
       IF NextTask(st, sp) = current THEN schedule_pit_counter ELSE 0
  /\ stopped' = sp
  /\ state' = [t \in Tasks |-> IF t \in Freed(st, sp, fr) THEN "FREE" ELSE st[t]]
  /\ free_tasks' = fr \ Freed(st, sp, fr)
  /\ started' = (started \ Freed(st, sp, fr)) \union {NextTask(st, sp)}

\* Variants of wake_up_process with a bug: no look whether t is queued already;
\* t is put at the front.
WakeUpTwice(t) ==
  IF t = current
    THEN wakeup_current' = [wakeup_current EXCEPT ![t] = TRUE] /\ UNCHANGED schedule_queue
    ELSE schedule_queue' = Append(schedule_queue, t) /\ UNCHANGED wakeup_current
WakeUpFirst(t) ==
  IF t = current
    THEN wakeup_current' = [wakeup_current EXCEPT ![t] = TRUE] /\ UNCHANGED schedule_queue
    ELSE /\ schedule_queue' = IF t \in Contents(schedule_queue)
                                THEN schedule_queue ELSE <<t>> \o schedule_queue
         /\ UNCHANGED wakeup_current

\* wake_up_process(t)
WakeUp(t) ==
  IF t = current
    THEN /\ wakeup_current' = [wakeup_current EXCEPT ![t] = TRUE]
         /\ UNCHANGED schedule_queue
    ELSE /\ schedule_queue' = IF t \in Contents(schedule_queue)
                                THEN schedule_queue
                                ELSE Append(schedule_queue, t)
         /\ UNCHANGED wakeup_current

-----------------------------------------------------------------------------
(***************************************************************************)
(* What the running task does.                                             *)
(***************************************************************************)
\* current executes ordinary kernel or user code (it is not the swapper, it
\* is not in deliver_signal's stop loop and it has not exited).
InTask ==
  /\ bug = "none"
  /\ current \in Tasks \ stop_loop
  /\ state[current] \in Alive

\* A wait loop: current->state = TASK_(UN)INTERRUPTIBLE; ... schedule(); ...
\* current->state = TASK_RUNNING.
BeginWait ==
  /\ InTask /\ state[current] = "RUNNING"
  /\ \E s \in Sleeping : state' = [state EXCEPT ![current] = s]
  /\ UNCHANGED <<current, schedule_queue, wakeup_current, stopped, stop_loop,
                 free_tasks, started, schedule_pit_counter, bug>>

Sleep ==
  /\ InTask /\ state[current] \in Sleeping
  /\ Schedule(state, stopped, free_tasks)
  /\ UNCHANGED <<stop_loop, bug>>

EndWait ==
  /\ InTask /\ state[current] \in Sleeping
  /\ state' = [state EXCEPT ![current] = "RUNNING"]
  /\ UNCHANGED <<current, schedule_queue, wakeup_current, stopped, stop_loop,
                 free_tasks, started, schedule_pit_counter, bug>>

\* return_to_userspace: cond_schedule()
CondSchedule ==
  /\ InTask /\ state[current] = "RUNNING"
  /\ schedule_pit_counter >= SCHEDULE_TICK
  /\ Schedule(state, stopped, free_tasks)
  /\ UNCHANGED <<stop_loop, bug>>

\* do_clone: a fresh task_struct, runnable but not queued until it is woken.
Clone(t) ==
  /\ InTask /\ state[current] = "RUNNING"
  /\ state[t] = "FREE" /\ t # current
  /\ state' = [state EXCEPT ![t] = "RUNNING"]
  /\ wakeup_current' = [wakeup_current EXCEPT ![t] = FALSE]
  /\ stopped' = [stopped EXCEPT ![t] = FALSE]
  /\ UNCHANGED <<current, schedule_queue, stop_loop, free_tasks, started,
                 schedule_pit_counter, bug>>

\* do_exit: current becomes a zombie, or, when its parent ignores SIGCHLD,
\* reaps itself (_do_wait); then it calls schedule() and must not return.
DoExit(reaps_itself) ==
  /\ InTask /\ state[current] = "RUNNING" /\ current # InitTask
  /\ wakeup_current[current] => current \in StaleExits
  /\ LET st == [state EXCEPT ![current] = IF reaps_itself THEN "DEAD" ELSE "ZOMBIE"]
         fr == IF reaps_itself THEN free_tasks \union {current} ELSE free_tasks
     IN  Schedule(st, stopped, fr)
  /\ UNCHANGED <<stop_loop, bug>>

\* do_exit of the child reaper: panic("Killing process tree!").
ReaperExit ==
  /\ InTask /\ state[current] = "RUNNING" /\ current = InitTask
  /\ bug' = "child_reaper"
  /\ state' = [state EXCEPT ![current] = "ZOMBIE"]
  /\ UNCHANGED <<current, schedule_queue, wakeup_current, stopped, stop_loop,
                 free_tasks, started, schedule_pit_counter>>

\* _do_wait, called by a parent on a zombie.
Reap(t) ==
  /\ InTask /\ state[current] = "RUNNING"
  /\ state[t] = "ZOMBIE"
  /\ state' = [state EXCEPT ![t] = "DEAD"]
  /\ free_tasks' = free_tasks \union {t}
  /\ UNCHANGED <<current, schedule_queue, wakeup_current, stopped, stop_loop,
                 started, schedule_pit_counter, bug>>

\* deliver_signal, SIG_STOP: current->stopped = true; while (...) schedule().
Stop ==
  /\ InTask /\ state[current] = "RUNNING"
  /\ stop_loop' = stop_loop \union {current}
  /\ Schedule(state, [stopped EXCEPT ![current] = TRUE], free_tasks)
  /\ UNCHANGED bug

\* With a bug: the task is not woken.
ContinueAsleep(t) ==
  /\ InTask /\ state[current] = "RUNNING"
  /\ stopped[t] /\ t # current
  /\ stopped' = [stopped EXCEPT ![t] = FALSE]
  /\ UNCHANGED <<current, schedule_queue, state, wakeup_current, stop_loop,
                 free_tasks, started, schedule_pit_counter, bug>>

\* send_sig_info(t, SIGCONT), called by the running task.
Continue(t) ==
  /\ InTask /\ state[current] = "RUNNING"
  /\ stopped[t] /\ t # current
  /\ stopped' = [stopped EXCEPT ![t] = FALSE]
  /\ WakeUp(t)
  /\ UNCHANGED <<current, state, stop_loop, free_tasks, started,
                 schedule_pit_counter, bug>>

\* The stop loop ends and control falls through `case SIG_CONT: BUG()'.
AfterStop ==
  /\ bug = "none"
  /\ current \in stop_loop /\ ~stopped[current]
  /\ bug' = "deliver_signal"
  /\ UNCHANGED <<current, schedule_queue, state, wakeup_current, stopped,
                 stop_loop, free_tasks, started, schedule_pit_counter>>

\* The schedule() of do_exit has returned: BUG().
AfterExit ==
  /\ bug = "none"
  /\ current \in Tasks /\ state[current] \in Gone
  /\ bug' = "do_exit"
  /\ UNCHANGED <<current, schedule_queue, state, wakeup_current, stopped,
                 stop_loop, free_tasks, started, schedule_pit_counter>>

-----------------------------------------------------------------------------
(***************************************************************************)
(* The swapper, the timer, the interrupts, and a halted kernel.            *)
(***************************************************************************)
\* kernel_main: while (list_isempty(&schedule_queue)) hlt; schedule();
SwapperLoop ==
  /\ bug = "none"
  /\ current = Swapper
  /\ schedule_queue # <<>>
  /\ Schedule(state, stopped, free_tasks)
  /\ UNCHANGED <<stop_loop, bug>>

\* pit_schedule: the timer interrupt.
Tick ==
  /\ bug = "none"
  /\ schedule_pit_counter' = IF schedule_pit_counter < MaxTick
                                THEN schedule_pit_counter + 1
                                ELSE schedule_pit_counter
  /\ UNCHANGED <<current, schedule_queue, state, wakeup_current, stopped,
                 stop_loop, free_tasks, started, bug>>

\* wake_up_process(t), from an interrupt handler or from the running task.  A
\* task leaves the structures its wakers look in before it exits, and it is in
\* none of them while it is stopped.
Wake(t) ==
  /\ bug = "none"
  /\ state[t] \in Alive /\ t \notin stop_loop
  /\ WakeUp(t)
  /\ UNCHANGED <<current, state, stopped, stop_loop, free_tasks, started,
                 schedule_pit_counter, bug>>

\* panic(): the processor halts with interrupts off.
Halted == bug # "none" /\ UNCHANGED vars

-----------------------------------------------------------------------------
Dispatch == Sleep \/ CondSchedule \/ SwapperLoop

Next ==
  \/ BeginWait \/ EndWait \/ Dispatch
  \/ \E b \in BOOLEAN : DoExit(b)
  \/ ReaperExit \/ Stop \/ AfterStop \/ AfterExit
  \/ \E t \in Tasks : Clone(t) \/ Reap(t) \/ Continue(t) \/ Wake(t)
  \/ Tick \/ Halted

Spec == Init /\ [][Next]_vars

\* The timer keeps ticking, the swapper keeps polling the queue, and the
\* running task keeps going back to user mode or to sleep.
Fairness == WF_vars(Dispatch) /\ WF_vars(Tick) /\ WF_vars(AfterStop) /\ WF_vars(AfterExit)

FairSpec == Spec /\ Fairness

-----------------------------------------------------------------------------
(***************************************************************************)
(* Correctness.                                                            *)
(***************************************************************************)
\* schedule() appends current without looking for it in the queue, and
\* wake_up_process() may be called for any task at any moment: still no task is
\* queued twice (it would run on a stack that is in use), and the running
\* task is never queued.
QueueExclusive ==
  /\ NoDuplicates(schedule_queue)
  /\ current \notin Contents(schedule_queue)

\* The only references to a runnable task that nobody registered are `current'
\* and the queue: once a task has run, as long as it is RUNNING and not
\* stopped, it is in one of them.
NoneStranded ==
  \A t \in Tasks \cap started :
    state[t] = "RUNNING" /\ ~stopped[t] =>
      t = current \/ t \in Contents(schedule_queue)

\* A wake that arrives while the task still runs is noted in wakeup_current and
\* taken by the task's own next schedule(): it never stays behind with a task
\* that has been switched out (sched.c:98-105), unless that task is stopped.
SelfWakeTaken ==
  \A t \in Tasks : wakeup_current[t] => t = current \/ t \in stop_loop

\* A task that has exited, with no wake noted, is never queued and never runs again,
\* whatever others exit with, so its stack is out of use when do_free_tasks gives it
\* back.
ExitedNeverRuns ==
  bug # "child_reaper" =>
    \A t \in Tasks \ StaleExits : state[t] \in Gone => t # current /\ t \notin Contents(schedule_queue)

\* Stacks of dead tasks are given back no later than the moment the machine
\* goes idle: the swapper never halts while free_tasks has something in it.
IdleHasFreed == current = Swapper => free_tasks = {}

\* The fields that several functions keep in step, which the properties above
\* need to be inductive (SchedProofs): only a task inside the stop loop is
\* stopped, and it is RUNNING there; free_tasks lists dead tasks only
\* (do_free_tasks gives back no stack that is in use); the running task and
\* the swapper have run, and a free task_struct belongs to no task that has,
\* except to a dead one that runs because of a stale wake.
Bookkeeping ==
  /\ \A t \in Tasks : stopped[t] => t \in stop_loop
  /\ \A t \in stop_loop : state[t] = "RUNNING"
  /\ \A t \in free_tasks : state[t] = "DEAD"
  /\ {current, Swapper} \subseteq started
  /\ \A t \in Tasks \ {current} : state[t] = "FREE" => t \notin started

\* A queued task is never overtaken: no step moves it further from the front.
NoOvertaking ==
  [][\A i \in 1..Len(schedule_queue), j \in 1..Len(schedule_queue') :
       schedule_queue[i] = schedule_queue'[j] => j <= i]_vars

\* Every task that is queued gets the processor, whatever the others do, as
\* long as BUG() does not halt the machine.
QueuedRuns ==
  \A t \in Tasks : t \in Contents(schedule_queue) ~> (current = t \/ bug # "none")

\* The assertion at the end of do_exit (exit.c:117-119): schedule() does not
\* return to a task that has exited.
ExitNeverReturns == bug # "do_exit"

\* The assertion of deliver_signal (signal.c:391-392): control never reaches
\* the case of SIGCONT, which is treated when it is sent.
ContNeverDelivered == bug # "deliver_signal"
=============================================================================
