------------------------------- MODULE Family -------------------------------
(***************************************************************************)
(* Parents and children: clone, exit and wait (task/clone.c, task/exit.c)  *)
(* with the signals that connect them (task/signal.c), on top of the       *)
(* scheduler's promise (ReadySet).                                         *)
(*                                                                         *)
(* A task that exits becomes a zombie, tells its parent with SIGCHLD, and  *)
(* hands its own children to init; when the parent ignores SIGCHLD it is   *)
(* gone at once.  do_wait and do_waitpg put SIG_DFL in place of the        *)
(* parent's action, sleep until some signal is pending, and find out from  *)
(* the pending SIGCHLD which child it was about.  A second SIGCHLD is      *)
(* dropped while one is pending.                                           *)
(*                                                                         *)
(* One other signal, which any interrupt handler or task may send, stands  *)
(* for all the signals that a handler catches.  A caught SIGCHLD is taken  *)
(* like a default one: both are pending until they are delivered.  pids    *)
(* are never used again, and no two tasks share their signal actions.      *)
(***************************************************************************)
EXTENDS ReadySet

CONSTANTS
  InitTask,    \* init_task, pid 1
  NoTask,      \* no pid: nothing pending, or waitpid(-1)
  CleanWaits   \* whether tasks wait only with SIGCHLD neither pending nor blocked

ASSUME FamilyAssumption ==
  /\ InitTask \in Tasks
  /\ NoTask \notin Tasks
  /\ CleanWaits \in BOOLEAN

VARIABLES
  state,     \* task_struct.state; "NONE" before do_clone
  ppid,      \* task_struct.ppid; the swapper has pid 0
  pc,        \* where each task is: see FamilyTypeOK
  waitfor,   \* the child that do_wait waits for, NoTask in do_waitpg
  action,    \* sigactions[SIGCHLD].sigaction
  oldaction, \* the action that a waiting task will put back
  chld,      \* the pid in the pending SIGCHLD's siginfo, or NoTask
  other,     \* tasks for which another signal is pending
  blocked    \* tasks that block SIGCHLD

sigvars    == <<action, oldaction, chld, other, blocked>>
familyvars == <<current, ready, noted, state, ppid, pc, waitfor, sigvars>>

Living == {"RUNNING", "INTERRUPTIBLE"}

\* In the loop of do_wait or do_waitpg: at its top; about to call schedule();
\* in schedule(); about to ask whether a signal is pending.
Waiting == {"loop", "sleep", "asleep", "test"}

\* "user": in user mode; "return": about to run return_to_userspace; "gone": in
\* do_exit, about to call schedule(); and the stages of Waiting.
FamilyTypeOK ==
  /\ ReadyTypeOK
  /\ state \in [Tasks -> Living \union {"NONE", "ZOMBIE", "DEAD"}]
  /\ ppid \in [Tasks -> Tasks \union {Swapper}]
  /\ pc \in [Tasks -> {"user", "return", "gone"} \union Waiting]
  /\ waitfor \in [Tasks -> Tasks \union {NoTask}]
  /\ action \in [Tasks -> {"DFL", "IGN"}]
  /\ oldaction \in [Tasks -> {"DFL", "IGN"}]
  /\ chld \in [Tasks -> Tasks \union {NoTask}]
  /\ other \in SUBSET Tasks
  /\ blocked \in SUBSET Tasks

\* kernel_main: init has been made and woken; the swapper ignores everything,
\* and init has a copy of its actions.
FamilyInit ==
  /\ ReadyInit /\ ready = {InitTask}
  /\ state = [t \in Tasks |-> IF t = InitTask THEN "RUNNING" ELSE "NONE"]
  /\ ppid = [t \in Tasks |-> Swapper]
  /\ pc = [t \in Tasks |-> "return"]
  /\ waitfor = [t \in Tasks |-> NoTask]
  /\ action = [t \in Tasks |-> "IGN"]
  /\ oldaction = [t \in Tasks |-> "DFL"]
  /\ chld = [t \in Tasks |-> NoTask]
  /\ other = {}
  /\ blocked = {}

-----------------------------------------------------------------------------
\* signal_pending(t)
SignalPending(t) == t \in other \/ (chld[t] # NoTask /\ t \notin blocked)

Children(t) == {c \in Tasks : ppid[c] = t /\ state[c] \notin {"NONE", "DEAD"}}

In(where) == current \in Tasks /\ pc[current] = where
Goto(where) == pc' = [pc EXCEPT ![current] = where]

\* With a bug: nobody is woken.
NotifyNobody(t) == UNCHANGED schedvars

\* The end of send_sig_info(t): an interruptible task is woken.
Notify(t) ==
  IF state[t] = "INTERRUPTIBLE" THEN WakeUp(t) ELSE UNCHANGED schedvars

\* _do_wait(c), and back to the caller.
ReapAndReturn(c) ==
  /\ state' = [state EXCEPT ![c] = "DEAD"]
  /\ Goto("return")

\* The waiting call ends: sigactions[SIGCHLD] = oldaction; its locals are gone.
PutBack ==
  /\ action' = [action EXCEPT ![current] = oldaction[current]]
  /\ oldaction' = [oldaction EXCEPT ![current] = "DFL"]
  /\ waitfor' = [waitfor EXCEPT ![current] = NoTask]

-----------------------------------------------------------------------------
\* The clone system call: do_clone, then wake_up_process of the child.  With
\* CLONE_PARENT the child is current's sibling.  No signal is pending for it
\* and it blocks none.
Clone(c, clone_parent) ==
  /\ In("user")
  /\ state[c] = "NONE"
  /\ clone_parent => current # InitTask
  /\ state' = [state EXCEPT ![c] = "RUNNING"]
  /\ ppid' = [ppid EXCEPT ![c] = IF clone_parent THEN ppid[current] ELSE current]
  /\ action' = [action EXCEPT ![c] = action[current]]
  /\ WakeUp(c)
  /\ Goto("return")
  /\ UNCHANGED <<waitfor, oldaction, chld, other, blocked>>

\* rt_sigaction(SIGCHLD) and rt_sigprocmask.
SetAction ==
  /\ In("user")
  /\ \E a \in {"DFL", "IGN"} : action' = [action EXCEPT ![current] = a]
  /\ Goto("return")
  /\ UNCHANGED <<schedvars, state, ppid, waitfor, oldaction, chld, other, blocked>>

SetMask ==
  /\ In("user")
  /\ blocked' = IF current \in blocked THEN blocked \ {current}
                                       ELSE blocked \union {current}
  /\ Goto("return")
  /\ UNCHANGED <<schedvars, state, ppid, waitfor, action, oldaction, chld, other>>

\* return_to_userspace, after a system call or an interrupt: deliver_signal
\* takes one pending signal (which one depends on their numbers), and only
\* then cond_schedule may let other tasks run.
ReturnToUserspace ==
  /\ In("user") \/ In("return")
  /\ IF SignalPending(current)
       THEN \/ /\ current \in other
               /\ other' = other \ {current} /\ UNCHANGED chld
            \/ /\ chld[current] # NoTask /\ current \notin blocked
               /\ chld' = [chld EXCEPT ![current] = NoTask] /\ UNCHANGED other
       ELSE UNCHANGED <<chld, other>>
  /\ Suspend(TRUE, FALSE) \/ UNCHANGED schedvars
  /\ Goto("user")
  /\ UNCHANGED <<state, ppid, waitfor, action, oldaction, blocked>>

-----------------------------------------------------------------------------
\* With a bug: the children keep the dead parent.
ReparentedNot == ppid

\* Reparent children to init.
Reparented == [c \in Tasks |-> IF c \in Children(current) THEN InitTask ELSE ppid[c]]

\* do_exit, by the exit system call or by a fatal signal: what was pending and
\* the actions are freed; SIGCHLD goes to the parent or, when it ignores that,
\* the task goes straight to TASK_DEAD; the children go to init.  A task is
\* taken to exit with no wake noted; Sched has the other case.
Exit ==
  /\ In("user") \/ In("return")
  /\ current # InitTask /\ current \notin noted
  /\ LET p == ppid[current]
         ignored == action[p] = "IGN"
         heard   == ~ignored /\ chld[p] = NoTask
     IN  /\ state' = [state EXCEPT ![current] = IF ignored THEN "DEAD" ELSE "ZOMBIE"]
         /\ chld' = [chld EXCEPT ![current] = NoTask,
                                  ![p] = IF heard THEN current ELSE @]
         /\ IF heard THEN Notify(p) ELSE UNCHANGED schedvars
  /\ ppid' = Reparented
  /\ other' = other \ {current} /\ blocked' = blocked \ {current}
  /\ action' = [action EXCEPT ![current] = "DFL"]
  /\ Goto("gone")
  /\ UNCHANGED <<waitfor, oldaction>>

ExitSchedule ==
  /\ In("gone")
  /\ Suspend(FALSE, FALSE)
  /\ UNCHANGED <<state, ppid, pc, waitfor, sigvars>>

-----------------------------------------------------------------------------
Clean == CleanWaits => chld[current] = NoTask /\ current \notin blocked

\* With a bug: the parent's own action stays in force.
StartWaitingIgnoring(c) ==
  /\ oldaction' = [oldaction EXCEPT ![current] = action[current]]
  /\ waitfor' = [waitfor EXCEPT ![current] = c]
  /\ Goto("loop")
  /\ UNCHANGED <<state, action>>

\* current waits, with SIG_DFL in place of its own action.
StartWaiting(c) ==
  /\ oldaction' = [oldaction EXCEPT ![current] = action[current]]
  /\ action' = [action EXCEPT ![current] = "DFL"]
  /\ waitfor' = [waitfor EXCEPT ![current] = c]
  /\ Goto("loop")
  /\ UNCHANGED state

\* c is found by its pid, and task->ppid == current->pid.
Waitable(c) == c \in Children(current)

\* waitpid(c): do_wait.
Wait(c) ==
  /\ In("user") /\ Waitable(c) /\ Clean
  /\ IF state[c] = "ZOMBIE"
       THEN ReapAndReturn(c) /\ UNCHANGED <<waitfor, action, oldaction>>
       ELSE StartWaiting(c)
  /\ UNCHANGED <<schedvars, ppid, chld, other, blocked>>

\* waitpid(-1): do_waitpg(0, ...).
WaitAny ==
  /\ In("user") /\ Children(current) # {} /\ Clean
  /\ IF \E c \in Children(current) : state[c] = "ZOMBIE"
       THEN /\ \E c \in Children(current) : state[c] = "ZOMBIE" /\ ReapAndReturn(c)
            /\ UNCHANGED <<waitfor, action, oldaction>>
       ELSE StartWaiting(NoTask)
  /\ UNCHANGED <<schedvars, ppid, chld, other, blocked>>

\* current->state = TASK_INTERRUPTIBLE; schedule(); current->state = TASK_RUNNING.
\* A signal that an interrupt handler sends just before wakes nobody.
WaitPrepares ==
  /\ In("loop")
  /\ state' = [state EXCEPT ![current] = "INTERRUPTIBLE"]
  /\ Goto("sleep")
  /\ UNCHANGED <<schedvars, ppid, waitfor, sigvars>>

WaitSleep ==
  /\ In("sleep")
  /\ Suspend(FALSE, FALSE)
  /\ Goto("asleep")
  /\ UNCHANGED <<state, ppid, waitfor, sigvars>>

WaitWakes ==
  /\ In("asleep")
  /\ state' = [state EXCEPT ![current] = "RUNNING"]
  /\ Goto("test")
  /\ UNCHANGED <<schedvars, ppid, waitfor, sigvars>>

\* No signal is pending: around the loop again.
WaitAgain ==
  /\ In("test") /\ ~SignalPending(current)
  /\ Goto("loop")
  /\ UNCHANGED <<schedvars, state, ppid, waitfor, sigvars>>

\* kernel_peek_pending_sig(SIGCHLD) found what the caller waits for (it does
\* not ask whether SIGCHLD is blocked): the child is reaped.  When the child is
\* gone, do_waitpg reads through an error pointer, and the kernel stops.
WaitReaps ==
  /\ In("test") /\ SignalPending(current)
  /\ LET c == chld[current] IN
       /\ c # NoTask /\ waitfor[current] \in {c, NoTask}
       /\ state[c] # "DEAD"
       /\ ReapAndReturn(c)
  /\ PutBack
  /\ chld' = [chld EXCEPT ![current] = NoTask]
  /\ UNCHANGED <<schedvars, ppid, other, blocked>>

\* -EINTR
WaitInterrupted ==
  /\ In("test") /\ SignalPending(current)
  /\ chld[current] = NoTask \/ waitfor[current] \notin {chld[current], NoTask}
  /\ PutBack
  /\ Goto("return")
  /\ UNCHANGED <<schedvars, state, ppid, chld, other, blocked>>

-----------------------------------------------------------------------------
\* send_sig_info of a caught signal, by an interrupt handler or by kill().
OtherSignal(t) ==
  /\ state[t] \in Living /\ t \notin other
  /\ other' = other \union {t}
  /\ Notify(t)
  /\ UNCHANGED <<state, ppid, pc, waitfor, action, oldaction, chld, blocked>>

SwapperRuns ==
  /\ current = Swapper /\ ready # {}
  /\ Suspend(TRUE, FALSE)
  /\ UNCHANGED <<state, ppid, pc, waitfor, sigvars>>

FamilyNext ==
  \/ \E c \in Tasks, p \in BOOLEAN : Clone(c, p)
  \/ SetAction \/ SetMask \/ ReturnToUserspace
  \/ Exit \/ ExitSchedule
  \/ \E c \in Tasks : Wait(c)
  \/ WaitAny \/ WaitPrepares \/ WaitSleep \/ WaitWakes \/ WaitAgain \/ WaitReaps \/ WaitInterrupted
  \/ \E t \in Tasks : OtherSignal(t)
  \/ SwapperRuns

FamilySpec == FamilyInit /\ [][FamilyNext]_familyvars

-----------------------------------------------------------------------------
\* do_exit looks its parent up and uses the result unchecked (exit.c:94-95,
\* 106): a task that still has to exit, or to be mourned, always has a parent
\* that has not exited itself.
ParentMourns ==
  \A t \in Tasks \ {InitTask} :
    state[t] \in Living \union {"ZOMBIE"} => state[ppid[t]] \in Living

\* do_wait keeps a pointer to the child across schedule() (exit.c:155-167):
\* meanwhile the child is neither freed nor given to another parent.  do_waitpg
\* looks up the pid in a SIGCHLD that is pending (exit.c:218-222): the task is
\* still there, so it never reads through the error pointer.
WaitedChildStays ==
  \A t \in {u \in Tasks : pc[u] \in Waiting} :
    /\ waitfor[t] # NoTask => state[waitfor[t]] # "DEAD" /\ ppid[waitfor[t]] = t
    /\ waitfor[t] = NoTask /\ chld[t] # NoTask => state[chld[t]] # "DEAD"

\* t has gone to sleep in do_wait or do_waitpg, nothing is about to wake it,
\* and c, which it waits for, is a zombie already.
SleepsThrough(t, c) ==
  /\ pc[t] = "asleep" /\ t \notin ready \union {current}
  /\ c \in Children(t) /\ waitfor[t] \in {c, NoTask}
  /\ state[c] = "ZOMBIE"

\* A wait is answered: no task sleeps on in a wait for a child that has exited
\* (`Signal parent so it can mourn us', exit.c:93).  Init is left out: it is
\* never told of the zombies among the children it inherits (exit.c:109-115).
ChildHeard == \A t \in Tasks \ {InitTask}, c \in Tasks : ~SleepsThrough(t, c)
=============================================================================
