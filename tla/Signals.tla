------------------------------ MODULE Signals ------------------------------
(***************************************************************************)
(* Signals (task/signal.c): who is sent one, which one a process takes     *)
(* next, what becomes of the process, its masks and the frames of its      *)
(* handlers.  SIGCHLD and what a wait for children finds are in Family;    *)
(* the other sleeps in Waits; what follows a SIGCONT, a BUG(), in Sched.   *)
(*                                                                         *)
(* A signal is delivered when a process returns to user mode, which every  *)
(* interrupt makes it do.  deliver_signal takes one signal at a time, and  *)
(* the next step of the process may be in user mode.                       *)
(***************************************************************************)
EXTENDS Integers, Sequences, SequencesExt, FiniteSets, FiniteSetsExt

CONSTANTS
  Processes,   \* their pids; the least is the first one
  Used,        \* signal numbers in use
  Masks,       \* masks in use
  MaxFrames,   \* bound: frames that fit on a user stack
  MaxCalls,    \* bound: calls in a behaviour that set something
  IgnoresSegv  \* may a program ignore SIGSEGV?

SIGKILL == 9
SIGSEGV == 11
SIGCONT == 18
SIGSTOP == 19
SIG_UNMASKABLE == {SIGKILL, SIGSTOP, SIGCONT}

ASSUME SignalsAssumption ==
  /\ IsFiniteSet(Processes) /\ Processes \subseteq Nat \ {0, 1} /\ Processes # {}
  /\ Used \subseteq 1 .. 31 /\ {SIGKILL, SIGSEGV} \subseteq Used /\ SIGCONT \notin Used
  /\ {} \in Masks /\ Masks \subseteq SUBSET Used
  /\ MaxFrames \in Nat /\ MaxCalls \in Nat /\ IgnoresSegv \in BOOLEAN

VARIABLES
  process, \* status ("returning": on its way to user mode, about to look for
           \* signals; "asleep" and "waiting": see Wait and Waitpid), ece391,
           \* pgid; sigpending: pending, forced, blocked; sigactions; frames: the
           \* masks in the frames on its stack; astray (history): it has taken
           \* its context from elsewhere than the last of its frames
  chosen,  \* history: the mask that the program chose outside its handlers
  calls    \* number of calls that set something, to bound them

signalsvars == <<process, chosen, calls>>

Action(do, mask) == [do |-> do, mask |-> mask]
SIG_DFL == Action("default", {})
SIG_IGN == Action("ignore", {})
Actions == {SIG_DFL, SIG_IGN} \union {Action("catch", M) : M \in Masks}

\* The signals that set_handler knows.
EceSignals == {8, 11, 2, 14, 10}

default_sig_action(s) ==
  CASE s \in {1, 2, 4, 6, 7, 9, 11, 13, 15} -> "kill"
    [] s \in {19, 20, 21, 22} -> "stop"
    [] OTHER -> "ignore"

Born == [status |-> "user", ece391 |-> FALSE, pgid |-> Min(Processes),
         pending |-> {}, forced |-> {}, blocked |-> {},
         action |-> [s \in Used |-> SIG_DFL], frames |-> << >>, astray |-> FALSE]

SignalsTypeOK ==
  /\ process \in [Processes ->
       [status : {"free", "user", "asleep", "waiting", "returning", "stopped", "zombie", "gone"},
        ece391 : BOOLEAN, pgid : Processes,
        pending : SUBSET Used, forced : SUBSET Used, blocked : SUBSET (Used \ SIG_UNMASKABLE),
        action : [Used -> Actions], frames : Seq(SUBSET (Used \ SIG_UNMASKABLE)),
        astray : BOOLEAN]]
  /\ \A t \in Processes : Len(process[t].frames) <= MaxFrames
  /\ chosen \in [Processes -> SUBSET Used] /\ calls \in 0 .. MaxCalls

\* The first process has been started by execve.
SignalsInit ==
  /\ process = [t \in Processes |->
       IF t = Min(Processes) THEN Born ELSE [Born EXCEPT !.status = "free"]]
  /\ chosen = [t \in Processes |-> {}]
  /\ calls = 0

Living == {t \in Processes : process[t].status \notin {"free", "zombie", "gone"}}
InUserMode(t) == process[t].status = "user"
Counted == calls < MaxCalls /\ calls' = calls + 1
Becomes(t, p) == process' = [process EXCEPT ![t] = p]

(***************************************************************************)
(* What is pending                                                         *)
(***************************************************************************)
fatal_signal_pending(p) == p.pending \intersect (p.forced \union SIG_UNMASKABLE)

signal_pending(p) == fatal_signal_pending(p) \union (p.pending \ p.blocked)

\* With a bug: the highest number is first, also before a fatal one.
signal_pending_highest(p) == Max(signal_pending(p) \union {0})

\* signal_pending_one; bsr is the highest bit.
signal_pending_one(p) ==
  Max(IF fatal_signal_pending(p) # {} THEN fatal_signal_pending(p) ELSE signal_pending(p) \union {0})

(***************************************************************************)
(* Sending                                                                 *)
(***************************************************************************)
\* send_sig_info to p.  What is pending already is dropped.  A sleeper is woken,
\* and the loop that it sleeps in looks whether it has a signal to take.
Sent(p, s) ==
  LET q == [p EXCEPT !.pending = @ \union {s}] IN
  IF s \in p.pending \/ p.action[s] = SIG_IGN THEN p
  ELSE IF p.status \in {"asleep", "waiting"} /\ signal_pending(q) # {}
       THEN [q EXCEPT !.status = "returning"]
       ELSE q

\* force_sig_info
Forced(p, s) == [Sent(p, s) EXCEPT !.forced = @ \union {s}]

\* To all who live among S.  (Zombies are still in the list of tasks, and
\* send_sig_info looks at their sigactions, which have been freed.)
SendTo(S, s) ==
  process' = [t \in Processes |->
    IF t \in S \intersect Living THEN Sent(process[t], s) ELSE process[t]]

Group(g) == {t \in Processes : process[t].status # "free" /\ process[t].pgid = g}

\* kill and tgkill: to a process, a group or everybody.
Kill(t, s) ==
  /\ InUserMode(t) /\ ~process[t].ece391
  /\ \E S \in {{u} : u \in Processes} \union {Group(g) : g \in Processes} \union {Processes} :
       SendTo(S, s)
  /\ UNCHANGED <<chosen, calls>>

\* send_sig_info_pg, which tty_foreground_signal calls with the group in the
\* foreground: nobody hears of it when the leader is gone, and nobody else when
\* the process with that pid is in another group.
send_sig_info_pg(g, s) ==
  /\ process[g].status \notin {"free", "gone"}
  /\ SendTo(IF process[g].pgid = g THEN Group(g) ELSE {g}, s)
  /\ UNCHANGED <<chosen, calls>>

\* A page fault or another exception in user mode.
Fault(t) ==
  /\ InUserMode(t)
  /\ Becomes(t, Sent(process[t], SIGSEGV))
  /\ UNCHANGED <<chosen, calls>>

(***************************************************************************)
(* Delivery                                                                *)
(***************************************************************************)
\* With a bug: the frame gets the mask of the handler.
HandledMasked(p, s) ==
  LET mask == p.action[s].mask \ SIG_UNMASKABLE
  IN  [p EXCEPT !.frames = Append(@, mask), !.status = "user", !.blocked = mask]

\* With a bug: the handler's mask is taken as it was given.
HandledUnmaskable(p, s) ==
  [p EXCEPT !.frames = Append(@, p.blocked), !.status = "user",
            !.blocked = p.action[s].mask]

\* The handler starts, with its frame on the stack and its mask alone.  The frame
\* of an ECE391 program has no mask.  Where the handler will return to, the code
\* at the end of the frame or the program's restorer, it finds out when it does:
\* sigreturn or StrayReturn.
Handled(p, s) ==
  IF p.ece391 THEN [p EXCEPT !.frames = Append(@, {}), !.status = "user"]
  ELSE [p EXCEPT !.frames = Append(@, p.blocked), !.status = "user",
                 !.blocked = p.action[s].mask \ SIG_UNMASKABLE]

\* deliver_signal, up to its recursive call after force_sig.  A frame has no room
\* when the stack is full, or wherever the program has let its stack pointer go.
deliver_signal(t) ==
  LET p == process[t]
      s == signal_pending_one(p)
      q == [p EXCEPT !.pending = @ \ {s}, !.forced = @ \ {s}]
      default == s \in p.forced \union SIG_UNMASKABLE \/ p.action[s] = SIG_DFL
  IN  /\ p.status \in {"user", "returning"}
      /\ s # 0
      /\ \E room \in {FALSE, Len(p.frames) < MaxFrames} : Becomes(t,
           IF default THEN CASE default_sig_action(s) = "kill" -> [q EXCEPT !.status = "zombie"]
                             [] default_sig_action(s) = "stop" -> [q EXCEPT !.status = "stopped"]
                             [] OTHER -> [q EXCEPT !.status = "user"]
           ELSE IF p.action[s] = SIG_IGN THEN [q EXCEPT !.status = "user"]
           ELSE IF room /\ (p.ece391 => s \in EceSignals) THEN Handled(q, s)
           ELSE [Forced(q, SIGSEGV) EXCEPT !.status = "returning"])
      /\ UNCHANGED <<chosen, calls>>

\* Nothing to deliver.
Return(t) ==
  /\ process[t].status = "returning" /\ signal_pending_one(process[t]) = 0
  /\ Becomes(t, [process[t] EXCEPT !.status = "user"])
  /\ UNCHANGED <<chosen, calls>>

\* Both system calls, from the code that deliver_signal has put on the stack: the
\* frame is found from where that code is.
sigreturn(t) ==
  LET p == process[t] IN
  /\ InUserMode(t) /\ p.frames # << >>
  /\ Becomes(t,
       [p EXCEPT !.frames = Front(@), !.status = "returning",
                 !.blocked = IF p.ece391 THEN @ ELSE Last(p.frames) \ SIG_UNMASKABLE])
  /\ UNCHANGED <<chosen, calls>>

\* Both system calls, from anywhere else: the restorer that SA_RESTORER asks for,
\* which lies in the program, or a call of its own.  What is before that place is
\* taken for a frame, with any mask, if it can be read.  So is a frame that the
\* program has written over.  Whatever frames there were are lost track of.
StrayReturn(t) ==
  LET p == process[t] IN
  /\ InUserMode(t)
  /\ \/ Becomes(t, [Forced(p, SIGSEGV) EXCEPT !.status = "returning"])
     \/ \E M \in Masks : Becomes(t,
          [p EXCEPT !.frames = << >>, !.status = "returning", !.astray = @ \/ ~p.ece391,
                    !.blocked = IF p.ece391 THEN @ ELSE M \ SIG_UNMASKABLE])
  /\ UNCHANGED <<chosen, calls>>

(***************************************************************************)
(* Settings                                                                *)
(***************************************************************************)
\* rt_sigaction and, in the ECE391 subsystem, set_handler
SetAction(t, s, a) ==
  /\ InUserMode(t)
  /\ IF process[t].ece391 THEN s \in EceSignals /\ a.mask = {} ELSE s \notin {SIGKILL, SIGSTOP}
  /\ s = SIGSEGV /\ a = SIG_IGN => IgnoresSegv
  /\ a # process[t].action[s]
  /\ process' = [process EXCEPT ![t].action[s] = a]
  /\ Counted
  /\ UNCHANGED chosen

\* rt_sigprocmask
rt_sigprocmask(t, mask) ==
  LET set == mask \ SIG_UNMASKABLE IN
  /\ InUserMode(t) /\ ~process[t].ece391 /\ set # process[t].blocked
  /\ process' = [process EXCEPT ![t].blocked = set]
  /\ chosen' = IF process[t].frames = << >> THEN [chosen EXCEPT ![t] = set] ELSE chosen
  /\ Counted

(***************************************************************************)
(* The life of a process                                                   *)
(***************************************************************************)
\* clone without CLONE_SIGHAND: the child begins with nothing pending or blocked,
\* and with the frames that are on the stack.
Fork(t, c) ==
  LET p == process[t] IN
  /\ InUserMode(t) /\ process[c].status = "free"
  /\ process' = [process EXCEPT ![c] = [p EXCEPT !.pending = {}, !.forced = {}, !.blocked = {}]]
  /\ chosen' = [chosen EXCEPT ![c] = IF p.ece391 \/ p.frames = << >> THEN {} ELSE chosen[t]]
  /\ UNCHANGED calls

\* do_execve; what fails after the point of no return forces a SIGSEGV.
Exec(t, ece391, fails) ==
  LET p == [process[t] EXCEPT !.ece391 = ece391, !.action = [s \in Used |-> SIG_DFL],
                              !.frames = << >>, !.astray = FALSE, !.status = "returning"]
  IN  /\ InUserMode(t)
      /\ Becomes(t, IF fails THEN Forced(p, SIGSEGV) ELSE p)
      /\ chosen' = [chosen EXCEPT ![t] = p.blocked]
      /\ Counted

\* setsid, or setpgid(0, 0)
NewGroup(t) ==
  /\ InUserMode(t) /\ ~process[t].ece391 /\ process[t].pgid # t
  /\ process' = [process EXCEPT ![t].pgid = t]
  /\ Counted
  /\ UNCHANGED chosen

\* A sleep in TASK_INTERRUPTIBLE whose loop looks for signals before it calls
\* schedule(), after it has set the state: with one to take, it does not begin.
Wait(t) ==
  /\ InUserMode(t)
  /\ process' = [process EXCEPT ![t].status =
       IF signal_pending(process[t]) = {} THEN "asleep" ELSE "returning"]
  /\ UNCHANGED <<chosen, calls>>

\* do_wait and do_waitpg sleep before they look, so also when a signal is pending
\* that came while the task was running, and woke nobody.  (nanosleep and poll
\* look, and set the state afterwards: Waits' race "gap" makes a sleep of theirs
\* one like this.)
Waitpid(t) ==
  /\ InUserMode(t)
  /\ process' = [process EXCEPT ![t].status = "waiting"]
  /\ UNCHANGED <<chosen, calls>>

\* What it waits for has come.  (What a signal does is in Sent.)
WaitEnds(t) ==
  /\ process[t].status \in {"asleep", "waiting"}
  /\ process' = [process EXCEPT ![t].status = "returning"]
  /\ UNCHANGED <<chosen, calls>>

Exit(t) ==
  /\ InUserMode(t)
  /\ process' = [process EXCEPT ![t].status = "zombie"]
  /\ UNCHANGED <<chosen, calls>>

Reaped(t) ==
  /\ process[t].status = "zombie"
  /\ Becomes(t, [Born EXCEPT !.status = "gone"])
  /\ UNCHANGED <<chosen, calls>>

SignalsNext ==
  \E t \in Processes :
    \/ deliver_signal(t) \/ Return(t) \/ sigreturn(t) \/ StrayReturn(t) \/ Fault(t)
    \/ Wait(t) \/ Waitpid(t) \/ WaitEnds(t) \/ Exit(t) \/ Reaped(t) \/ NewGroup(t)
    \/ \E s \in Used \ SIG_UNMASKABLE : send_sig_info_pg(t, s)
    \/ \E s \in Used : Kill(t, s) \/ \E a \in Actions : SetAction(t, s, a)
    \/ \E M \in Masks : rt_sigprocmask(t, M)
    \/ \E c \in Processes : Fork(t, c)
    \/ \E ece391, fails \in BOOLEAN : Exec(t, ece391, fails)

\* A process comes back to user mode, by the timer's interrupt if by no other, and
\* one that was woken runs (Sched's QueuedRuns).  Nothing is assumed of a sleep.
SignalsFairness == \A t \in Processes : WF_signalsvars(deliver_signal(t) \/ Return(t))

SignalsSpec == SignalsInit /\ [][SignalsNext]_signalsvars /\ SignalsFairness

(***************************************************************************)
(* Properties                                                              *)
(***************************************************************************)
\* Whatever handlers interrupt each other and whatever they do to the mask, a
\* program that is back from all of them has the mask that it chose, and a process
\* that was forked inside a handler too: the outermost frame keeps it.  That is so
\* as long as they return by the code that the kernel has put on the stack: from a
\* restorer (SA_RESTORER) sigreturn does not find the frame.
MaskComesBack ==
  \A t \in Living :
    LET p == process[t]
    IN  ~p.astray =>
          chosen[t] = IF p.ece391 \/ p.frames = << >> THEN p.blocked ELSE p.frames[1]

\* "priortize fatals", "We assume all forced signals are fatal": SIGKILL, and the
\* SIGSEGV of a program whose frame cannot be made or found or whose execve failed,
\* end the process, whatever it blocks, catches, forks, executes or sleeps for, and
\* whatever else it is sent again and again.  (A stop comes before them, and a
\* stopped process takes nothing.  A wait for children that begins when the signal
\* is pending already does not hear it, nor is one sent again: that may be for ever.)
FatalKills ==
  \A t \in Processes :
    (t \in Living /\ (SIGKILL \in process[t].pending \/ process[t].forced # {}))
      ~> (t \notin Living \/ process[t].status \in {"stopped", "waiting"})
=============================================================================
