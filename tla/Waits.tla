------------------------------- MODULE Waits -------------------------------
(***************************************************************************)
(* Waiting for input and for time: tty_read and the keyboard (char/tty.c), *)
(* udp_read and udp_receive (net/socket.c), rtc_read (char/rtc.c),         *)
(* nanosleep (time/sleep.c) and poll (vfs/poll.c), on the scheduler's      *)
(* promise (ReadySet).                                                     *)
(*                                                                         *)
(* One terminal, one socket and one open RTC file are used by several      *)
(* tasks.  Each has a field `task' for the one task that an interrupt      *)
(* handler wakes.  The waits have no lock: a waiter tests its condition    *)
(* and calls schedule(), and interrupts come between any two of its steps. *)
(*                                                                         *)
(* Three windows in which the code does lose something are opened by the   *)
(* constant Races, so that one can see what each of them breaks.           *)
(***************************************************************************)
EXTENDS ReadySet, Sequences, SequencesExt, Integers

CONSTANTS
  NoTask,      \* task == NULL
  Modes,       \* the terminal modes that are used: TRUE when canonical
  BufferSize,  \* TTY_BUFFER_SIZE
  RtcDivisor,  \* hardware interrupts to a virtual one, for each rate in use
  MaxNap,      \* bound: the longest sleep and time limit, in RTC interrupts
  Together,    \* bound: the sets of calls of which a behaviour uses one
  Packets,     \* the contents of the packets that come
  MaxData,     \* bound: bytes of a socket that wait to be read
  SleepFirst,  \* whether the RTC calls sleep.c's handler before uptime.c's
  Races        \* "reset": a key between the end of tty_read's test and its
               \* assignment; "mode": ioctl while a task waits or keys are
               \* there; "gap": a signal before the state is INTERRUPTIBLE

ASSUME WaitsAssumption ==
  /\ NoTask \notin Tasks \union {Swapper} /\ Modes \subseteq BOOLEAN /\ Modes # {}
  /\ BufferSize \in Nat \ {0} /\ RtcDivisor \subseteq Nat \ {0} /\ RtcDivisor # {}
  /\ MaxNap \in Nat /\ MaxData \in Nat
  /\ \A p \in Packets : p \in Seq(Nat)
  /\ SleepFirst \in BOOLEAN /\ Races \subseteq {"reset", "mode", "gap"}

VARIABLES
  uses,      \* the calls that this behaviour uses; it never changes
  doing,     \* the system call of each task, "out" when it is in none
  step,      \* "check": about to test its condition; "mark": the test failed,
             \* about to set its state; "sleep": about to call schedule();
             \* "take": about to copy; "reset": about to reset the buffer
  state,     \* task_struct.state
  pending,   \* tasks for which signal_pending() holds
  tty,       \* the terminal: task, canonical, buffer, start (buffer_start)
  socket,    \* the socket: task, and data in recv_buf
  rtc,       \* the RTC file: task, counter_mod, divisor, and whether
             \* counter_div changed since the read in progress began
  wants,     \* what each task polls
  left,      \* time until the end of a sleep by the clock; -1 for no end
  sleepq,    \* sleep_queue: the tasks of its entries
  typed,     \* history: the keys that were accepted, and neither erased nor read
  received,  \* history: the bytes that came and were not read
  exact      \* history: every read returned the first of these

waitsvars == <<schedvars, uses, doing, step, state, pending, tty, socket, rtc,
               wants, left, sleepq, typed, received, exact>>

Calls == {"tty", "udp", "rtc", "nap", "poll"}

WaitsTypeOK ==
  /\ ReadyTypeOK
  /\ uses \in Together
  /\ doing \in [Tasks -> Calls \union {"out"}]
  /\ step \in [Tasks -> {"check", "mark", "sleep", "take", "reset"}]
  /\ state \in [Tasks -> {"RUNNING", "INTERRUPTIBLE", "UNINTERRUPTIBLE"}]
  /\ pending \in SUBSET Tasks
  /\ tty \in [task : Tasks \union {NoTask}, canonical : Modes,
              buffer : Seq({"c", "nl"}), start : 0 .. BufferSize]
  /\ Len(tty.buffer) <= BufferSize
  /\ socket \in [task : Tasks \union {NoTask}, data : Seq(Nat)]
  /\ rtc \in [task : Tasks \union {NoTask}, mod : Nat, div : RtcDivisor, passed : BOOLEAN]
  /\ \E d \in RtcDivisor : rtc.mod < d
  /\ wants \in [Tasks -> SUBSET {"tty", "udp"}]
  /\ left \in [Tasks -> -1 .. MaxNap]
  /\ sleepq \in SUBSET Tasks
  /\ typed \in Seq({"c", "nl"}) /\ received \in Seq(Nat) /\ exact \in BOOLEAN

WaitsInit ==
  /\ current = Swapper /\ ready = Tasks /\ noted = {}
  /\ uses \in Together
  /\ doing = [t \in Tasks |-> "out"]
  /\ step = [t \in Tasks |-> "check"]
  /\ state = [t \in Tasks |-> "RUNNING"]
  /\ pending = {}
  /\ \E m \in Modes : tty = [task |-> NoTask, canonical |-> m, buffer |-> << >>, start |-> 0]
  /\ socket = [task |-> NoTask, data |-> << >>]
  /\ \E d \in RtcDivisor : rtc = [task |-> NoTask, mod |-> 0, div |-> d, passed |-> FALSE]
  /\ wants = [t \in Tasks |-> {}]
  /\ left = [t \in Tasks |-> -1]
  /\ sleepq = {}
  /\ typed = << >> /\ received = << >> /\ exact = TRUE

At(call, s) == current \in Tasks /\ doing[current] = call /\ step[current] = s
Goto(s) == step' = [step EXCEPT ![current] = s]
Smaller(a, b) == IF a < b THEN a ELSE b

\* wake_up_process for each of the tasks in S.
Wake(S) ==
  /\ noted' = noted \union (S \intersect {current})
  /\ ready' = ready \union (S \ {current, NoTask})
  /\ UNCHANGED current

Enter(call, s) ==
  /\ call \in uses
  /\ current \in Tasks /\ doing[current] = "out"
  /\ doing' = [doing EXCEPT ![current] = call]
  /\ state' = [state EXCEPT ![current] = s]
  /\ Goto("check")
  /\ UNCHANGED schedvars

\* The call returns to its caller.
Return ==
  /\ doing' = [doing EXCEPT ![current] = "out"]
  /\ state' = [state EXCEPT ![current] = "RUNNING"]
  /\ Goto("check")
  /\ UNCHANGED schedvars

\* schedule() in a loop that set its state before.
Sleep ==
  /\ current \in Tasks /\ doing[current] # "out" /\ step[current] = "sleep"
  /\ Suspend(FALSE, FALSE)
  /\ Goto("check")
  /\ UNCHANGED <<uses, doing, state, pending, tty, socket, rtc, wants, left, sleepq,
                 typed, received, exact>>

\* In the loops of nanosleep and poll, which set it after their test.
Mark ==
  /\ current \in Tasks /\ step[current] = "mark"
  /\ state' = [state EXCEPT ![current] = "INTERRUPTIBLE"]
  /\ Goto("sleep")
  /\ UNCHANGED <<uses, schedvars, doing, pending, tty, socket, rtc, wants, left, sleepq,
                 typed, received, exact>>

(***************************************************************************)
(* The terminal                                                            *)
(***************************************************************************)
\* tty_should_read
ShouldRead(y) ==
  /\ y.buffer # << >>
  /\ y.canonical => Last(y.buffer) = "nl"

\* tty_read; with another reader, it returns -EBUSY.
TtyRead ==
  /\ tty.task = NoTask
  /\ Enter("tty", "INTERRUPTIBLE")
  /\ tty' = [tty EXCEPT !.task = current]
  /\ UNCHANGED <<uses, pending, socket, rtc, wants, left, sleepq, typed, received, exact>>

TtyWait ==
  /\ At("tty", "check")
  /\ ~ShouldRead(tty) /\ current \notin pending
  /\ Goto("sleep")
  /\ UNCHANGED <<uses, schedvars, doing, state, pending, tty, socket, rtc, wants, left, sleepq,
                 typed, received, exact>>

\* -EINTR
TtyInterrupted ==
  /\ At("tty", "check") /\ current \in pending
  /\ tty' = [tty EXCEPT !.task = NoTask]
  /\ Return
  /\ UNCHANGED <<uses, pending, socket, rtc, wants, left, sleepq, typed, received, exact>>

\* With a bug: the keys are read from the beginning of the buffer.
UnreadAll(y) == y.buffer

Unread(y) == SubSeq(y.buffer, y.start + 1, Len(y.buffer))

\* The keys are copied, and the indexes compared.
TtyTake ==
  /\ At("tty", "check")
  /\ ShouldRead(tty) /\ current \notin pending
  /\ \E nbytes \in 1 .. BufferSize :
       LET n == Smaller(nbytes, Len(tty.buffer) - tty.start) IN
       /\ exact' = (exact /\ IsPrefix(SubSeq(Unread(tty), 1, n), typed))
       /\ typed' = SubSeq(typed, n + 1, Len(typed))
       /\ tty' = [tty EXCEPT !.task = NoTask, !.start = @ + n]
       /\ IF tty.start + n = Len(tty.buffer)
            THEN Goto("reset") /\ UNCHANGED <<schedvars, doing, state>>
            ELSE Return
  /\ UNCHANGED <<uses, pending, socket, rtc, wants, left, sleepq, received>>

\* buffer_start = buffer_end = 0
TtyReset ==
  /\ At("tty", "reset")
  /\ tty' = [tty EXCEPT !.buffer = << >>, !.start = 0]
  /\ Return
  /\ UNCHANGED <<uses, pending, socket, rtc, wants, left, sleepq, typed, received, exact>>

\* A committed line stays as it is until it has been read.
Committed == tty.canonical /\ ShouldRead(tty)

\* tty_foreground_keyboard, for the terminal in the foreground: a character,
\* Enter or Backspace.  (Ctrl-C is Signal.)
Key(c) ==
  /\ "tty" \in uses
  /\ "reset" \in Races \/ \A t \in Tasks : step[t] # "reset" \/ tty.canonical
  /\ ~Committed
  /\ IF c = "bs"
       THEN /\ tty.canonical /\ tty.buffer # << >>
            /\ tty' = [tty EXCEPT !.buffer = Front(@)]
            /\ typed' = Front(typed)
            /\ UNCHANGED schedvars
       ELSE /\ Len(tty.buffer) < BufferSize
            /\ tty' = [tty EXCEPT !.buffer = Append(@, c)]
            /\ typed' = Append(typed, c)
            /\ IF tty.canonical => c = "nl" THEN Wake({tty.task}) ELSE UNCHANGED schedvars
  /\ UNCHANGED <<uses, doing, step, state, pending, socket, rtc, wants, left, sleepq,
                 received, exact>>

\* tty_ioctl(TCSETS)
SetMode ==
  /\ current \in Tasks /\ doing[current] = "out"
  /\ "mode" \in Races \/ (tty.task = NoTask /\ tty.buffer = << >>)
  /\ "tty" \in uses
  /\ \E m \in Modes \ {tty.canonical} : tty' = [tty EXCEPT !.canonical = m]
  /\ UNCHANGED <<uses, schedvars, doing, step, state, pending, socket, rtc, wants, left, sleepq,
                 typed, received, exact>>

(***************************************************************************)
(* The socket                                                              *)
(***************************************************************************)
UdpRead ==
  /\ socket.task = NoTask
  /\ Enter("udp", "INTERRUPTIBLE")
  /\ socket' = [socket EXCEPT !.task = current]
  /\ UNCHANGED <<uses, pending, tty, rtc, wants, left, sleepq, typed, received, exact>>

UdpWait ==
  /\ At("udp", "check")
  /\ socket.data = << >> /\ current \notin pending
  /\ Goto("sleep")
  /\ UNCHANGED <<uses, schedvars, doing, state, pending, tty, socket, rtc, wants, left, sleepq,
                 typed, received, exact>>

UdpInterrupted ==
  /\ At("udp", "check") /\ current \in pending
  /\ socket' = [socket EXCEPT !.task = NoTask]
  /\ Return
  /\ UNCHANGED <<uses, pending, tty, rtc, wants, left, sleepq, typed, received, exact>>

UdpReady ==
  /\ At("udp", "check")
  /\ socket.data # << >> /\ current \notin pending
  /\ socket' = [socket EXCEPT !.task = NoTask]
  /\ Goto("take")
  /\ UNCHANGED <<uses, schedvars, doing, state, pending, tty, rtc, wants, left, sleepq,
                 typed, received, exact>>

Rest(data, n) == SubSeq(data, n + 1, Len(data))

\* Between cli() and sti(): more may have come since the data was seen.
UdpTake ==
  /\ At("udp", "take")
  /\ \E nbytes \in 1 .. MaxData :
       LET n == Smaller(nbytes, Len(socket.data)) IN
       /\ exact' = (exact /\ IsPrefix(SubSeq(socket.data, 1, n), received))
       /\ received' = SubSeq(received, n + 1, Len(received))
       /\ socket' = [socket EXCEPT !.data = Rest(@, n)]
  /\ Return
  /\ UNCHANGED <<uses, pending, tty, rtc, wants, left, sleepq, typed>>

\* udp_receive, from the network card's interrupt.
UdpReceive(packet) ==
  /\ "udp" \in uses /\ Len(socket.data) + Len(packet) <= MaxData
  /\ socket' = [socket EXCEPT !.data = @ \o packet]
  /\ received' = received \o packet
  /\ Wake({socket.task})
  /\ UNCHANGED <<uses, doing, step, state, pending, tty, rtc, wants, left, sleepq,
                 typed, exact>>

(***************************************************************************)
(* Time                                                                    *)
(***************************************************************************)
\* rtc_read
RtcRead ==
  /\ rtc.task = NoTask
  /\ Enter("rtc", "UNINTERRUPTIBLE")
  /\ rtc' = [rtc EXCEPT !.task = current, !.passed = FALSE]
  /\ UNCHANGED <<uses, pending, tty, socket, wants, left, sleepq, typed, received, exact>>

RtcWait ==
  /\ At("rtc", "check") /\ ~rtc.passed
  /\ Goto("sleep")
  /\ UNCHANGED <<uses, schedvars, doing, state, pending, tty, socket, rtc, wants, left, sleepq,
                 typed, received, exact>>

RtcEnds ==
  /\ At("rtc", "check") /\ rtc.passed
  /\ rtc' = [rtc EXCEPT !.task = NoTask, !.passed = FALSE]
  /\ Return
  /\ UNCHANGED <<uses, pending, tty, socket, wants, left, sleepq, typed, received, exact>>

\* rtc_write: another rate.
RtcWrite ==
  /\ current \in Tasks /\ doing[current] = "out"
  /\ \E d \in IF "rtc" \in uses THEN RtcDivisor \ {rtc.div} ELSE {} :
       rtc' = [rtc EXCEPT !.div = d]
  /\ UNCHANGED <<uses, schedvars, doing, step, state, pending, tty, socket, wants, left, sleepq,
                 typed, received, exact>>

\* nanosleep, to sleep_add
Nanosleep ==
  /\ Enter("nap", "RUNNING")
  /\ \E n \in 0 .. MaxNap : left' = [left EXCEPT ![current] = n]
  /\ sleepq' = sleepq \union {current}
  /\ UNCHANGED <<uses, pending, tty, socket, rtc, wants, typed, received, exact>>

NapGoesOn ==
  /\ At("nap", "check")
  /\ left[current] > 0 /\ current \notin pending
  /\ Goto("mark")
  /\ UNCHANGED <<uses, schedvars, doing, state, pending, tty, socket, rtc, wants, left, sleepq,
                 typed, received, exact>>

\* With sleep_finalize.
NapEnds ==
  /\ At("nap", "check")
  /\ left[current] = 0 \/ current \in pending
  /\ sleepq' = sleepq \ {current}
  /\ left' = [left EXCEPT ![current] = -1]
  /\ Return
  /\ UNCHANGED <<uses, pending, tty, socket, rtc, wants, typed, received, exact>>

\* With a bug: only the first that is due is woken.
DueOne(l) == LET S == {t \in sleepq : l[t] = 0} IN IF S = {} THEN {} ELSE {CHOOSE t \in S : TRUE}

\* The sleepers whose time has come.
Due(l) == {t \in sleepq : l[t] = 0}

\* With a bug: the loop that brings counter_mod down stops too early.
CountDownEarly(n, d) == IF n > d THEN n % d ELSE n

\* counter_mod, after n interrupts since the last virtual one.
CountDown(n, d) == n % d

\* The clock (uptime.c) has gone on by one interrupt.
Elapsed == [t \in Tasks |-> IF left[t] > 0 THEN left[t] - 1 ELSE left[t]]

\* The RTC's interrupt: the clock, sleep.c's handler and the RTC files'.
Tick ==
  /\ left' = Elapsed
  /\ LET due == Due(IF SleepFirst THEN left ELSE left')
         virtual == rtc.mod + 1 >= rtc.div
     IN  /\ sleepq' = sleepq \ due
         /\ rtc' = [rtc EXCEPT !.mod = CountDown(@ + 1, rtc.div),
                               !.passed = @ \/ (virtual /\ rtc.task # NoTask)]
         /\ Wake(due \union (IF virtual THEN {rtc.task} ELSE {}))
  /\ UNCHANGED <<uses, doing, step, state, pending, tty, socket, wants, typed, received,
                 exact>>

(***************************************************************************)
(* poll                                                                    *)
(***************************************************************************)
Poll ==
  /\ Enter("poll", "RUNNING")
  /\ \E W \in SUBSET (uses \intersect {"tty", "udp"}) : wants' = [wants EXCEPT ![current] = W]
  /\ \E n \in {-1} \union 1 .. MaxNap :
       /\ left' = [left EXCEPT ![current] = n]
       /\ sleepq' = IF n > 0 THEN sleepq \union {current} ELSE sleepq
  /\ UNCHANGED <<uses, pending, tty, socket, rtc, typed, received, exact>>

\* tty_poll, udp_poll: the first task to ask is the one to be woken, and the
\* only one that is told of input.
Registered(object, kind) ==
  IF kind \in wants[current] /\ object.task = NoTask
    THEN [object EXCEPT !.task = current] ELSE object

\* With a bug: the field is not cleared.
CleanedNot(object) == object

\* tty_poll_cb, udp_poll_cb
Cleaned(object) ==
  IF object.task = current THEN [object EXCEPT !.task = NoTask] ELSE object

\* Whether there is an event.
Revents(y, s) ==
  \/ "tty" \in wants[current] /\ y.task = current /\ ShouldRead(y)
  \/ "udp" \in wants[current] /\ s.task = current /\ s.data # << >>

PollGoesOn ==
  LET y == Registered(tty, "tty")
      s == Registered(socket, "udp")
  IN  /\ At("poll", "check")
      /\ current \notin pending /\ ~Revents(y, s) /\ left[current] # 0
      /\ tty' = y /\ socket' = s
      /\ Goto("mark")
      /\ UNCHANGED <<uses, schedvars, doing, state, pending, rtc, wants, left, sleepq,
                     typed, received, exact>>

PollEnds ==
  /\ At("poll", "check")
  /\ \/ current \in pending \/ left[current] = 0
     \/ Revents(Registered(tty, "tty"), Registered(socket, "udp"))
  /\ tty' = Cleaned(tty) /\ socket' = Cleaned(socket)
  /\ sleepq' = sleepq \ {current}
  /\ left' = [left EXCEPT ![current] = -1]
  /\ wants' = [wants EXCEPT ![current] = {}]
  /\ Return
  /\ UNCHANGED <<uses, pending, rtc, typed, received, exact>>

(***************************************************************************)
(* The rest of the system                                                  *)
(***************************************************************************)
\* send_sig_info(t), from the keyboard's interrupt handler (Ctrl-C).
Signal(t) ==
  /\ t \notin pending
  /\ "gap" \in Races \/ step[t] # "mark"
  /\ pending' = pending \union {t}
  /\ IF state[t] = "INTERRUPTIBLE" THEN Wake({t}) ELSE UNCHANGED schedvars
  /\ UNCHANGED <<uses, doing, step, state, tty, socket, rtc, wants, left, sleepq,
                 typed, received, exact>>

\* A task outside goes back to user mode, where the signal's handler runs, and
\* gives the processor up.
Leave ==
  /\ current \in Tasks /\ doing[current] = "out"
  /\ Suspend(TRUE, FALSE)
  /\ pending' = pending \ {current}
  /\ UNCHANGED <<uses, doing, step, state, tty, socket, rtc, wants, left, sleepq,
                 typed, received, exact>>

SwapperRuns ==
  /\ current = Swapper /\ ready # {}
  /\ Suspend(TRUE, FALSE)
  /\ UNCHANGED <<uses, doing, step, state, pending, tty, socket, rtc, wants, left, sleepq,
                 typed, received, exact>>

Begin == TtyRead \/ UdpRead \/ RtcRead \/ Nanosleep \/ Poll

GoOn ==
  \/ TtyWait \/ TtyInterrupted \/ TtyTake \/ TtyReset
  \/ UdpWait \/ UdpInterrupted \/ UdpReady \/ UdpTake
  \/ RtcWait \/ RtcEnds \/ NapGoesOn \/ NapEnds \/ PollGoesOn \/ PollEnds
  \/ Mark \/ Sleep

WaitsNext ==
  \/ Begin \/ GoOn \/ SetMode \/ RtcWrite
  \/ \E c \in {"c", "nl", "bs"} : Key(c)
  \/ \E p \in Packets : UdpReceive(p)
  \/ Tick
  \/ \E t \in Tasks : Signal(t)
  \/ Leave \/ SwapperRuns

WaitsSpec == WaitsInit /\ [][WaitsNext]_waitsvars

\* The RTC ticks, the running task goes on (outside: gives the processor up),
\* and a ready task runs in the end (Sched's QueuedRuns).
Runs(t) == (Sleep \/ Leave \/ SwapperRuns) /\ current' = t

WaitsFairness ==
  /\ WF_waitsvars(Tick) /\ WF_waitsvars(GoOn) /\ WF_waitsvars(Leave \/ SwapperRuns)
  /\ \A t \in Tasks : SF_waitsvars(Runs(t))

WaitsFairSpec == WaitsSpec /\ WaitsFairness

(***************************************************************************)
(* Properties                                                              *)
(***************************************************************************)
Asleep(t) == t # current /\ t \notin ready

\* A task that sleeps still has what it waits for ahead of it.  (A task that
\* polls an object which another task registered with is told of nothing: it is
\* only held to its time limit and to signals.)
AsleepForReason ==
  \A t \in {u \in Tasks : Asleep(u)} :
    CASE doing[t] = "tty" -> tty.task = t /\ ~ShouldRead(tty) /\ t \notin pending
      [] doing[t] = "udp" -> socket.task = t /\ socket.data = << >> /\ t \notin pending
      [] doing[t] = "rtc" -> rtc.task = t /\ ~rtc.passed
      [] doing[t] = "nap" -> t \in sleepq /\ t \notin pending
      [] doing[t] = "poll" ->
           /\ t \notin pending
           /\ left[t] # -1 => t \in sleepq
           /\ ~(tty.task = t /\ ShouldRead(tty)) /\ ~(socket.task = t /\ socket.data # << >>)
      [] OTHER -> FALSE

\* The one field `task' of a terminal, a socket and an RTC file belongs to a
\* task that is inside a call on it.
WaiterIsInside ==
  /\ tty.task # NoTask => \/ doing[tty.task] = "tty"
                          \/ doing[tty.task] = "poll" /\ "tty" \in wants[tty.task]
  /\ socket.task # NoTask => \/ doing[socket.task] = "udp"
                             \/ doing[socket.task] = "poll" /\ "udp" \in wants[socket.task]
  /\ rtc.task # NoTask => doing[rtc.task] = "rtc"
  /\ \A t \in sleepq : doing[t] \in {"nap", "poll"}

\* No wakeup is lost and none is stale: whoever sleeps is registered with what it
\* waits for, which comes later, and whoever is registered has not left, for every
\* order of the tests, the state changes, the interrupts and the calls to
\* schedule().  A call that ended by a signal, a time limit or another object's
\* input leaves no interrupt handler a task to wake.
WaitersMatch == AsleepForReason /\ WaiterIsInside

\* Readers get every key that was accepted and not erased, and every byte that
\* was received, once and in order, however reads are cut up and interrupted.
StreamsExact ==
  /\ exact /\ Unread(tty) = typed /\ socket.data = received

\* A sleep ends, whichever of the RTC's interrupt, a signal and the task's own
\* test comes first.
NapReturns == \A t \in Tasks : (doing[t] = "nap") ~> (doing[t] # "nap")
=============================================================================
