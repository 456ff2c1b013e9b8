------------------------------- MODULE Mutex -------------------------------
(***************************************************************************)
(* The mutex of task/mutex.c on top of the scheduler's promise (ReadySet): *)
(* a FIFO of tasks whose front owns the lock.  Nothing is handed over      *)
(* explicitly; a waiter finds out that it owns the lock when it runs and   *)
(* sees itself at the front, so somebody has to wake it at that moment.    *)
(*                                                                         *)
(* A signal can reach a task between any two of its steps (the terminal's  *)
(* interrupt handler sends SIGINT), and ends an interruptible wait.        *)
(***************************************************************************)
EXTENDS ReadySet, Queues

CONSTANT Interruptible   \* whether mutex_lock_interruptable is used

ASSUME InterruptibleAssumption == Interruptible \in BOOLEAN

VARIABLES
  queue,     \* mutex.queue
  state,     \* task_struct.state
  pc,        \* where each task is: see MutexTypeOK
  pending    \* tasks for which signal_pending() holds

mutexvars == <<current, ready, noted, queue, state, pc, pending>>

\* "out": anywhere else; "check": about to test the loop's condition;
\* "sleep": the condition was false, about to call schedule(); "hold": the
\* lock is held and the task runs on; "away": it is held and the task waits
\* for something else meanwhile.
MutexTypeOK ==
  /\ ReadyTypeOK
  /\ queue \in Seq(Tasks)
  /\ state \in [Tasks -> {"RUNNING", "INTERRUPTIBLE", "UNINTERRUPTIBLE"}]
  /\ pc \in [Tasks -> {"out", "check", "sleep", "hold", "away"}]
  /\ pending \in SUBSET Tasks

MutexInit ==
  /\ ReadyInit
  /\ queue = <<>>
  /\ state = [t \in Tasks |-> "RUNNING"]
  /\ pc = [t \in Tasks |-> "out"]
  /\ pending = {}

-----------------------------------------------------------------------------
\* mutex_lock_*: join the queue and set current->state.
Enqueue(how) ==
  /\ queue' = Append(queue, current)
  /\ state' = [state EXCEPT ![current] = how]

\* while (list_peek_front(&mutex->queue) != current && ...)
AtFront == Head(queue) = current

\* -EINTR: the loop, or the test after it, saw a signal.  (One that arrives
\* between the two is taken as if it had arrived in the loop.)
Interrupted == state[current] = "INTERRUPTIBLE" /\ current \in pending

\* With a bug: the next front is not woken.
PassOnSilently ==
  /\ queue' = Tail(queue)
  /\ UNCHANGED schedvars

\* mutex_unlock: the front leaves, and the next front is woken.
PassOn ==
  /\ queue' = Tail(queue)
  /\ IF Tail(queue) # <<>> THEN WakeUp(Head(Tail(queue))) ELSE UNCHANGED schedvars

-----------------------------------------------------------------------------
Lock ==
  /\ current \in Tasks /\ pc[current] = "out"
  /\ \E how \in {"UNINTERRUPTIBLE"} \union (IF Interruptible THEN {"INTERRUPTIBLE"} ELSE {}) :
       Enqueue(how)
  /\ pc' = [pc EXCEPT ![current] = "check"]
  /\ UNCHANGED <<current, ready, noted, pending>>

\* With a bug: the front of the queue is not looked at.
AcquireUntested ==
  /\ current \in Tasks /\ pc[current] = "check"
  /\ ~Interrupted
  /\ state' = [state EXCEPT ![current] = "RUNNING"]
  /\ pc' = [pc EXCEPT ![current] = "hold"]
  /\ UNCHANGED <<current, ready, noted, queue, pending>>

Acquire ==
  /\ current \in Tasks /\ pc[current] = "check"
  /\ AtFront /\ ~Interrupted
  /\ state' = [state EXCEPT ![current] = "RUNNING"]
  /\ pc' = [pc EXCEPT ![current] = "hold"]
  /\ UNCHANGED <<current, ready, noted, queue, pending>>

\* With a bug: the task stays in the queue.
GiveUpQueued ==
  /\ current \in Tasks /\ pc[current] = "check"
  /\ Interrupted
  /\ state' = [state EXCEPT ![current] = "RUNNING"]
  /\ pc' = [pc EXCEPT ![current] = "out"]
  /\ UNCHANGED <<current, ready, noted, queue, pending>>

GiveUp ==
  /\ current \in Tasks /\ pc[current] = "check"
  /\ Interrupted
  /\ state' = [state EXCEPT ![current] = "RUNNING"]
  /\ queue' = Without(queue, current)
  /\ pc' = [pc EXCEPT ![current] = "out"]
  /\ UNCHANGED <<current, ready, noted, pending>>

MustWait ==
  /\ current \in Tasks /\ pc[current] = "check"
  /\ ~AtFront /\ ~Interrupted
  /\ pc' = [pc EXCEPT ![current] = "sleep"]
  /\ UNCHANGED <<current, ready, noted, queue, state, pending>>

Sleep ==
  /\ current \in Tasks /\ pc[current] = "sleep"
  /\ Suspend(FALSE, FALSE)
  /\ pc' = [pc EXCEPT ![current] = "check"]
  /\ UNCHANGED <<queue, state, pending>>

Unlock ==
  /\ current \in Tasks /\ pc[current] = "hold"
  /\ PassOn
  /\ pc' = [pc EXCEPT ![current] = "out"]
  /\ UNCHANGED <<state, pending>>

\* The owner waits for a device, uninterruptibly, with the lock held.
HoldAndWait ==
  /\ current \in Tasks /\ pc[current] = "hold"
  /\ Suspend(FALSE, FALSE)
  /\ pc' = [pc EXCEPT ![current] = "away"]
  /\ state' = [state EXCEPT ![current] = "UNINTERRUPTIBLE"]
  /\ UNCHANGED <<queue, pending>>

Resume ==
  /\ current \in Tasks /\ pc[current] = "away"
  /\ pc' = [pc EXCEPT ![current] = "hold"]
  /\ state' = [state EXCEPT ![current] = "RUNNING"]
  /\ UNCHANGED <<current, ready, noted, queue, pending>>

\* A task outside gives the processor up, to run on or to sleep elsewhere; on
\* its way to user mode it is handed the pending signal.
Leave ==
  /\ current \in Tasks /\ pc[current] = "out"
  /\ \E runs \in BOOLEAN : Suspend(runs, FALSE)
  /\ pending' = pending \ {current}
  /\ UNCHANGED <<queue, state, pc>>

SwapperRuns ==
  /\ current = Swapper /\ ready # {}
  /\ Suspend(TRUE, FALSE)
  /\ UNCHANGED <<queue, state, pc, pending>>

\* A wake from elsewhere: the device's interrupt for the owner, in time or late,
\* or whatever a task outside waits for.
OtherWake(t) ==
  /\ pc[t] \notin {"check", "sleep"}
  /\ WakeUp(t)
  /\ UNCHANGED <<queue, state, pc, pending>>

\* send_sig_info(t), from an interrupt handler or from the running task.
Signal(t) ==
  /\ t \notin pending
  /\ pending' = pending \union {t}
  /\ IF state[t] = "INTERRUPTIBLE" THEN WakeUp(t) ELSE UNCHANGED schedvars
  /\ UNCHANGED <<queue, state, pc>>

MutexNext ==
  \/ Lock \/ Acquire \/ GiveUp \/ MustWait \/ Sleep \/ Unlock
  \/ HoldAndWait \/ Resume \/ Leave \/ SwapperRuns
  \/ \E t \in Tasks : OtherWake(t) \/ Signal(t)

MutexSpec == MutexInit /\ [][MutexNext]_mutexvars

-----------------------------------------------------------------------------
\* A task that was told it has the lock (mutex_lock_* returned 0) is at the
\* front of the queue until it unlocks, so two tasks never hold it together
\* and the BUG() of mutex_unlock (mutex.c:52-53) is not reached.
OwnerIsFront ==
  \A t \in Tasks : pc[t] \in {"hold", "away"} => queue # <<>> /\ Head(queue) = t

\* The queue holds exactly the tasks inside lock..unlock, each once: the BUG()
\* of mutex_lock_* (list_contains, mutex.c:13-14, 34-35) is not reached, and
\* no task that gave up stays behind to be handed the lock.
QueueIsInside ==
  /\ Contents(queue) = {t \in Tasks : pc[t] # "out"}
  /\ NoDuplicates(queue)

\* The lock is never lost: when the task at the front is still a waiter, it is
\* running, ready, or its wake has been noted, so it will find out.
FrontWillRun ==
  queue # <<>> =>
    LET f == Head(queue) IN
      CASE pc[f] = "check" -> f = current \/ f \in ready
        [] pc[f] = "sleep" -> f \in noted
        [] OTHER           -> TRUE
=============================================================================
