---------------------------- MODULE SchedRefines ----------------------------
(***************************************************************************)
(* Sched implements ReadySet: the FIFO is a way to hold the ready set, and *)
(* wakeup_current the way to note the wake of a task that still runs.      *)
(***************************************************************************)
EXTENDS Sched

Abstract == INSTANCE ReadySet WITH
  ready <- Contents(schedule_queue),
  noted <- {t \in Tasks : wakeup_current[t]}

\* Every step of the scheduler is a step of ReadySet or leaves its variables
\* alone: the code that waits and wakes (wait loops, mutexes, do_wait) may be
\* understood with a set instead of task/sched.c's queue.
ImplementsReadySet == Abstract!ReadySpec
=============================================================================
