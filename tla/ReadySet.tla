------------------------------ MODULE ReadySet ------------------------------
(***************************************************************************)
(* What the scheduler promises to the code that waits and wakes, without   *)
(* its queue: one task runs; a set of tasks is ready; a task leaves the    *)
(* processor without being ready only when it asked to (it is not RUNNING, *)
(* or it is stopped) and no wake was noted for it; a ready task leaves the *)
(* set only to run.  Sched implements this (SchedRefines.tla), and the     *)
(* modules of the waiting code are built on it.                            *)
(***************************************************************************)
EXTENDS Naturals

CONSTANTS
  Tasks,     \* the task structures that can be allocated
  Swapper    \* the idle task, never ready

ASSUME SwapperAssumption == Swapper \notin Tasks

VARIABLES
  current,   \* the task that runs
  ready,     \* the tasks that wait for the processor
  noted      \* tasks that were woken while they were still running

schedvars == <<current, ready, noted>>

ReadyTypeOK ==
  /\ current \in Tasks \union {Swapper}
  /\ ready \in SUBSET Tasks
  /\ noted \in SUBSET Tasks

\* Some task has been woken and the swapper runs.
ReadyInit ==
  /\ current = Swapper
  /\ \E t \in Tasks : ready = {t}
  /\ noted = {}

\* With a bug: the swapper becomes ready like a task.
SuspendSwapper(runs, stops) ==
  LET stays == ~stops /\ (runs \/ current \in noted)
      r     == IF stays THEN ready \union {current} ELSE ready
  IN  /\ current' \in (IF r = {} THEN {Swapper} ELSE r)
      /\ ready' = r \ {current'}
      /\ noted' = IF stays THEN noted \ {current} ELSE noted

\* schedule(), called by a task that runs on (its state is RUNNING) or sleeps,
\* and that stops or does not.
Suspend(runs, stops) ==
  LET stays == current \in Tasks /\ ~stops /\ (runs \/ current \in noted)
      r     == IF stays THEN ready \union {current} ELSE ready
  IN  /\ current' \in (IF r = {} THEN {Swapper} ELSE r)
      /\ ready' = r \ {current'}
      /\ noted' = IF stays THEN noted \ {current} ELSE noted

\* With a bug: a wake of the running task is forgotten.
WakeUpForgotten(t) ==
  IF t = current
    THEN UNCHANGED <<current, ready, noted>>
    ELSE ready' = ready \union {t} /\ UNCHANGED <<current, noted>>

\* wake_up_process(t)
WakeUp(t) ==
  IF t = current
    THEN noted' = noted \union {t} /\ UNCHANGED <<current, ready>>
    ELSE ready' = ready \union {t} /\ UNCHANGED <<current, noted>>

ReadyNext ==
  \/ \E runs, stops \in BOOLEAN : Suspend(runs, stops)
  \/ \E t \in Tasks : WakeUp(t)

ReadySpec == ReadyInit /\ [][ReadyNext]_schedvars

\* The running task is not in the set a next task is chosen from.
ReadyExclusive == current \notin ready
=============================================================================
