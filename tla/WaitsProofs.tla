---------------------------- MODULE WaitsProofs ----------------------------
(***************************************************************************)
(* Theorems about waiting for input and for time, for every set of tasks,  *)
(* buffers and packets of any size, any number of ticks and either order   *)
(* of the RTC's handlers: types; that no wakeup is lost and none is stale; *)
(* that readers get what came, once and in order.  The last two need that  *)
(* none of the three windows of Races opens.                               *)
(***************************************************************************)
EXTENDS Waits, SequenceTheorems, TLAPS

-----------------------------------------------------------------------------
(* The scheduler's promise. *)

ReadyInv == current \notin ready /\ noted \subseteq {current}

\* schedule(): a task is on the processor or ready afterwards if it was ready, or
\* if it was running and stays.
LEMMA SuspendFacts ==
  ASSUME ReadyTypeOK, ReadyInv, NEW runs \in BOOLEAN, Suspend(runs, FALSE)
  PROVE  /\ ReadyTypeOK' /\ current' \notin ready' /\ noted' = {}
         /\ \A t \in Tasks :
              (t = current' \/ t \in ready')
                <=> (t \in ready \/ (t = current /\ (runs \/ t \in noted)))
<1> DEFINE stays == current \in Tasks /\ (runs \/ current \in noted)
           r == IF stays THEN ready \union {current} ELSE ready
<1>1. /\ current' \in (IF r = {} THEN {Swapper} ELSE r)
      /\ ready' = r \ {current'}
      /\ noted' = IF stays THEN noted \ {current} ELSE noted
  BY DEF Suspend
<1>2. noted' = {}
  BY <1>1 DEF ReadyTypeOK, ReadyInv
<1>3. r \subseteq Tasks
  BY DEF ReadyTypeOK
<1>4. current' \in Tasks \union {Swapper} /\ (current' \in r \/ (r = {} /\ current' = Swapper))
  BY <1>1, <1>3
<1>5. \A t \in Tasks : (t = current' \/ t \in ready') <=> t \in r
  BY <1>1, <1>4, SwapperAssumption
<1> QED BY <1>1, <1>2, <1>3, <1>4, <1>5 DEF ReadyTypeOK

\* wake_up_process of some tasks: the running task does not change, and each of
\* them has its wake noted if it runs and is ready if not.
LEMMA WakeFacts ==
  ASSUME ReadyTypeOK, ReadyInv, NEW S \in SUBSET (Tasks \union {NoTask}), Wake(S)
  PROVE  /\ ReadyTypeOK' /\ ReadyInv' /\ current' = current
         /\ ready \subseteq ready' /\ noted \subseteq noted'
         /\ \A t \in S \intersect Tasks : t \in (IF t = current THEN noted' ELSE ready')
BY WaitsAssumption DEF ReadyTypeOK, ReadyInv, Wake

-----------------------------------------------------------------------------
(* Sequences. *)

LEMMA RestFacts ==
  ASSUME NEW S, NEW s \in Seq(S), NEW n \in Nat
  PROVE  /\ SubSeq(s, n + 1, Len(s)) \in Seq(S)
         /\ Len(SubSeq(s, n + 1, Len(s))) = IF n < Len(s) THEN Len(s) - n ELSE 0
         /\ \A i \in 1 .. Len(s) - n : SubSeq(s, n + 1, Len(s))[i] = s[n + i]
<1>1. \A i \in n + 1 .. Len(s) : s[i] \in S
  OBVIOUS
<1>2. n + 1 \in Int /\ Len(s) \in Int
  OBVIOUS
<1>3. /\ SubSeq(s, n + 1, Len(s)) \in Seq(S)
      /\ Len(SubSeq(s, n + 1, Len(s))) = IF n + 1 <= Len(s) THEN Len(s) - (n + 1) + 1 ELSE 0
      /\ \A i \in 1 .. Len(s) - (n + 1) + 1 : SubSeq(s, n + 1, Len(s))[i] = s[n + 1 + i - 1]
  BY <1>1, <1>2, SubSeqProperties
<1> QED BY <1>3

LEMMA StartFacts ==
  ASSUME NEW S, NEW s \in Seq(S), NEW n \in 0 .. Len(s)
  PROVE  /\ SubSeq(s, 1, n) \in Seq(S) /\ Len(SubSeq(s, 1, n)) = n
         /\ \A i \in 1 .. n : SubSeq(s, 1, n)[i] = s[i]
<1> DEFINE f == SubSeq(s, 1, n)
<1>1. \A i \in 1 .. n : s[i] \in S
  OBVIOUS
<1>2. n \in Nat /\ 1 \in Int
  OBVIOUS
<1>3. f \in Seq(S) /\ Len(f) = (IF 1 <= n THEN n - 1 + 1 ELSE 0)
      /\ \A i \in 1 .. n - 1 + 1 : f[i] = s[1 + i - 1]
  BY <1>1, <1>2, SubSeqProperties
<1> HIDE DEF f
<1>4. Len(f) = n
  BY <1>2, <1>3
<1>5. \A i \in 1 .. n : i \in 1 .. n - 1 + 1 /\ 1 + i - 1 = i
  BY <1>2
<1>6. \A i \in 1 .. n : f[i] = s[i]
  BY <1>3, <1>5
<1>7. f \in Seq(S) /\ Len(f) = n /\ \A i \in 1 .. n : f[i] = s[i]
  BY <1>3, <1>4, <1>6
<1> QED BY <1>7 DEF f

LEMMA FrontFacts ==
  ASSUME NEW S, NEW s \in Seq(S), s # << >>
  PROVE  /\ Front(s) \in Seq(S) /\ Len(Front(s)) = Len(s) - 1
         /\ \A i \in 1 .. Len(s) - 1 : Front(s)[i] = s[i]
<1>1. Len(s) - 1 \in 0 .. Len(s)
  OBVIOUS
<1> QED BY <1>1, StartFacts DEF Front

LEMMA RestWithin ==
  ASSUME NEW S, NEW s \in Seq(S), NEW n \in Nat, n <= Len(s)
  PROVE  /\ SubSeq(s, n + 1, Len(s)) \in Seq(S)
         /\ Len(SubSeq(s, n + 1, Len(s))) = Len(s) - n
         /\ \A i \in 1 .. Len(s) - n : SubSeq(s, n + 1, Len(s))[i] = s[n + i]
<1> DEFINE r == SubSeq(s, n + 1, Len(s))
<1>1. /\ r \in Seq(S) /\ Len(r) = IF n < Len(s) THEN Len(s) - n ELSE 0
      /\ \A i \in 1 .. Len(s) - n : r[i] = s[n + i]
  BY RestFacts
<1> HIDE DEF r
<1>2. Len(r) = Len(s) - n
  BY <1>1
<1>3. r \in Seq(S) /\ Len(r) = Len(s) - n /\ \A i \in 1 .. Len(s) - n : r[i] = s[n + i]
  BY <1>1, <1>2
<1> QED BY <1>3 DEF r

LEMMA PrefixFacts ==
  ASSUME NEW S, NEW u \in Seq(S), NEW n \in 0 .. Len(u)
  PROVE  IsPrefix(SubSeq(u, 1, n), u)
<1> DEFINE f == SubSeq(u, 1, n)
<1>1. f \in Seq(S) /\ Len(f) = n
  BY StartFacts
<1>2. SubSeq(f, 1, Len(f)) = f
  BY <1>1, SubSeqFull
<1>3. f = SubSeq(u, 1, n) /\ n <= Len(u)
  OBVIOUS
<1> HIDE DEF f
<1>4. IsPrefix(f, u)
  BY <1>1, <1>2, <1>3, Zenon DEF IsPrefix
<1> QED BY <1>4 DEF f

\* What is left when first k and then n were read.
LEMMA RestOfRest ==
  ASSUME NEW S, NEW s \in Seq(S), NEW k \in Nat, NEW n \in Nat, k + n <= Len(s)
  PROVE  LET r == SubSeq(s, k + 1, Len(s)) IN
         SubSeq(r, n + 1, Len(r)) = SubSeq(s, k + n + 1, Len(s))
<1> DEFINE r == SubSeq(s, k + 1, Len(s))
           a == SubSeq(r, n + 1, Len(r))
           b == SubSeq(s, k + n + 1, Len(s))
<1>1. /\ r \in Seq(S) /\ Len(r) = Len(s) - k
      /\ \A i \in 1 .. Len(s) - k : r[i] = s[k + i]
  BY RestFacts
<1> HIDE DEF r
<1>2. n <= Len(r) /\ n \in Nat /\ k + n \in Nat /\ k + n <= Len(s)
  BY <1>1
<1>3. /\ a \in Seq(S) /\ Len(a) = Len(r) - n
      /\ \A i \in 1 .. Len(r) - n : a[i] = r[n + i]
  BY <1>1, <1>2, RestWithin
<1>4. /\ b \in Seq(S) /\ Len(b) = Len(s) - (k + n)
      /\ \A i \in 1 .. Len(s) - (k + n) : b[i] = s[(k + n) + i]
  BY <1>2, RestWithin
<1> HIDE DEF a, b
<1>5. \A i \in 1 .. Len(r) - n : a[i] = b[i]
  <2>1. \A i \in 1 .. Len(r) - n :
          /\ i \in 1 .. Len(s) - (k + n) /\ n + i \in 1 .. Len(s) - k
          /\ k + (n + i) = (k + n) + i
    BY <1>1
  <2> QED BY <1>1, <1>3, <1>4, <2>1
<1>6. Len(a) = Len(b)
  <2>1. Len(r) - n = Len(s) - (k + n)
    BY <1>1
  <2> QED BY <1>3, <1>4, <2>1
<1>7. \A i \in 1 .. Len(a) : a[i] = b[i]
  BY <1>3, <1>5
<1>8. a = b
  BY <1>3, <1>4, <1>6, <1>7, SeqEqual
<1> QED BY <1>8 DEF a, b, r

LEMMA RestOfAppend ==
  ASSUME NEW S, NEW s \in Seq(S), NEW c \in S, NEW k \in Nat, k <= Len(s)
  PROVE  SubSeq(Append(s, c), k + 1, Len(Append(s, c))) = Append(SubSeq(s, k + 1, Len(s)), c)
<1> DEFINE t == Append(s, c)
           r == SubSeq(s, k + 1, Len(s))
           a == SubSeq(t, k + 1, Len(t))
           b == Append(r, c)
<1>1. /\ t \in Seq(S) /\ Len(t) = Len(s) + 1
      /\ \A i \in 1 .. Len(s) : t[i] = s[i]
      /\ t[Len(s) + 1] = c
  BY AppendProperties
<1>2. /\ r \in Seq(S) /\ Len(r) = Len(s) - k
      /\ \A i \in 1 .. Len(s) - k : r[i] = s[k + i]
  BY RestWithin
<1> HIDE DEF t, r
<1>3. /\ a \in Seq(S) /\ Len(a) = Len(s) + 1 - k
      /\ \A i \in 1 .. Len(s) + 1 - k : a[i] = t[k + i]
  <2>1. k <= Len(t)
    BY <1>1
  <2>2. /\ a \in Seq(S) /\ Len(a) = Len(t) - k
        /\ \A i \in 1 .. Len(t) - k : a[i] = t[k + i]
    BY <1>1, <2>1, RestWithin
  <2> HIDE DEF a
  <2> QED BY <1>1, <2>2
<1>4. /\ b \in Seq(S) /\ Len(b) = Len(s) - k + 1
      /\ \A i \in 1 .. Len(s) - k : b[i] = r[i]
      /\ b[Len(s) - k + 1] = c
  <2>1. /\ b \in Seq(S) /\ Len(b) = Len(r) + 1
        /\ \A i \in 1 .. Len(r) : b[i] = r[i]
        /\ b[Len(r) + 1] = c
    BY <1>2, AppendProperties
  <2> HIDE DEF b
  <2> QED BY <1>2, <2>1
<1> HIDE DEF a, b
<1>5. \A i \in 1 .. Len(s) - k : a[i] = b[i]
  <2>1. \A i \in 1 .. Len(s) - k : i \in 1 .. Len(s) + 1 - k /\ k + i \in 1 .. Len(s)
    OBVIOUS
  <2> QED BY <1>1, <1>2, <1>3, <1>4, <2>1
<1>6. a[Len(s) - k + 1] = b[Len(s) - k + 1]
  <2>1. Len(s) - k + 1 \in 1 .. Len(s) + 1 - k /\ k + (Len(s) - k + 1) = Len(s) + 1
    OBVIOUS
  <2> QED BY <1>1, <1>3, <1>4, <2>1
<1>7. \A i \in 1 .. Len(s) + 1 - k : i \in 1 .. Len(s) - k \/ i = Len(s) - k + 1
  OBVIOUS
<1>8. Len(a) = Len(b) /\ \A i \in 1 .. Len(a) : a[i] = b[i]
  BY <1>3, <1>4, <1>5, <1>6, <1>7
<1>9. a = b
  BY <1>3, <1>4, <1>8, SeqEqual
<1> QED BY <1>9 DEF a, b, r, t

-----------------------------------------------------------------------------
(* The invariant's first layer: what the calls' steps and the terminal's     *)
(* buffer are.                                                               *)

\* The running task is not ready, and only its own wake is noted.  Who does not
\* run is about to test his condition, or outside.
StepInv ==
  /\ ReadyInv
  /\ \A t \in Tasks :
       /\ t # current => step[t] = "check"
       /\ step[t] = "mark" => doing[t] \in {"nap", "poll"}
       /\ step[t] = "take" => doing[t] = "udp"
       /\ step[t] = "reset" => doing[t] = "tty"
       /\ step[t] = "sleep" => doing[t] # "out"

Resetting == \E t \in Tasks : step[t] = "reset"

\* What was read is in the buffer.  A canonical terminal has at most one end of
\* line, at the end, and nothing was read from a line that has none; all was read
\* only when the buffer is about to be reset.
LineInv ==
  /\ tty.start <= Len(tty.buffer)
  /\ tty.canonical => \A i \in 1 .. Len(tty.buffer) - 1 : tty.buffer[i] # "nl"
  /\ tty.canonical /\ tty.start > 0 => ShouldRead(tty)
  /\ tty.start = Len(tty.buffer) => tty.buffer = << >> \/ Resetting
  /\ Resetting => tty.start = Len(tty.buffer) /\ tty.start > 0

StreamInv == WaitsTypeOK /\ StepInv /\ LineInv /\ StreamsExact

-----------------------------------------------------------------------------
(* Types. *)

Steps == {"check", "mark", "sleep", "take", "reset"}
CallsOrOut == Calls \union {"out"}

\* What every step of a task in a call needs of the scheduler's state.
LEMMA EnterType ==
  ASSUME WaitsTypeOK, NEW c \in Calls, NEW s \in {"RUNNING", "INTERRUPTIBLE", "UNINTERRUPTIBLE"},
         Enter(c, s)
  PROVE  /\ current \in Tasks /\ ReadyTypeOK' /\ doing' \in [Tasks -> Calls \union {"out"}]
         /\ step' \in [Tasks -> Steps]
         /\ state' \in [Tasks -> {"RUNNING", "INTERRUPTIBLE", "UNINTERRUPTIBLE"}]
BY DEF WaitsTypeOK, ReadyTypeOK, Enter, Goto, Steps, schedvars

LEMMA ReturnType ==
  ASSUME WaitsTypeOK, Return
  PROVE  /\ ReadyTypeOK' /\ doing' \in [Tasks -> Calls \union {"out"}]
         /\ step' \in [Tasks -> Steps]
         /\ state' \in [Tasks -> {"RUNNING", "INTERRUPTIBLE", "UNINTERRUPTIBLE"}]
BY DEF WaitsTypeOK, ReadyTypeOK, Return, Goto, Steps, schedvars

LEMMA GotoType ==
  ASSUME WaitsTypeOK, NEW s \in Steps, Goto(s)
  PROVE  step' \in [Tasks -> Steps]
BY DEF WaitsTypeOK, Goto, Steps

\* A tick leaves the count below the divisor in force, and the times in range.
LEMMA TickType ==
  ASSUME WaitsTypeOK
  PROVE  /\ CountDown(rtc.mod + 1, rtc.div) \in Nat
         /\ CountDown(rtc.mod + 1, rtc.div) < rtc.div
         /\ Elapsed \in [Tasks -> -1 .. MaxNap]
<1>1. rtc.div \in Nat \ {0} /\ rtc.mod \in Nat
  BY WaitsAssumption DEF WaitsTypeOK
<1>2. /\ (rtc.mod + 1) % rtc.div \in Nat
      /\ (rtc.mod + 1) % rtc.div < rtc.div
  BY <1>1
<1>3. \A t \in Tasks : (IF left[t] > 0 THEN left[t] - 1 ELSE left[t]) \in -1 .. MaxNap
  <2> TAKE t \in Tasks
  <2>1. left[t] \in -1 .. MaxNap
    BY DEF WaitsTypeOK
  <2>2. CASE left[t] > 0
    <3> DEFINE n == left[t]
    <3>1. n \in -1 .. MaxNap /\ n > 0
      BY <2>1, <2>2
    <3> HIDE DEF n
    <3>2. n - 1 \in -1 .. MaxNap
      BY <3>1, WaitsAssumption
    <3> QED BY <2>2, <3>2 DEF n
  <2>3. CASE ~(left[t] > 0)
    BY <2>1, <2>3
  <2> QED BY <2>2, <2>3
<1> QED BY <1>2, <1>3 DEF CountDown, Elapsed

\* A copy of at most what there is.
LEMMA SmallerFacts ==
  ASSUME NEW m \in Nat, NEW n \in Nat
  PROVE  Smaller(m, n) \in 0 .. n /\ Smaller(m, n) <= m
BY DEF Smaller

\* A read of n keys, and one of n bytes.
Taken(n) ==
  /\ n \in 1 .. Len(tty.buffer) - tty.start
  /\ exact' = (exact /\ IsPrefix(SubSeq(Unread(tty), 1, n), typed))
  /\ typed' = SubSeq(typed, n + 1, Len(typed))
  /\ tty' = [tty EXCEPT !.task = NoTask, !.start = @ + n]
  /\ \/ /\ tty.start + n = Len(tty.buffer)
        /\ Goto("reset") /\ UNCHANGED <<schedvars, doing, state>>
     \/ tty.start + n # Len(tty.buffer) /\ Return

UdpTaken(n) ==
  /\ n \in 0 .. Len(socket.data)
  /\ exact' = (exact /\ IsPrefix(SubSeq(socket.data, 1, n), received))
  /\ received' = SubSeq(received, n + 1, Len(received))
  /\ socket' = [socket EXCEPT !.data = SubSeq(socket.data, n + 1, Len(socket.data))]

\* Nothing was reset under way, so there is a key that was not read.
LEMMA TakeFacts ==
  ASSUME WaitsTypeOK, StepInv, LineInv, TtyTake
  PROVE  \E n \in Nat : Taken(n)
<1>1. PICK nbytes \in 1 .. BufferSize :
        LET n == Smaller(nbytes, Len(tty.buffer) - tty.start) IN
        /\ exact' = (exact /\ IsPrefix(SubSeq(Unread(tty), 1, n), typed))
        /\ typed' = SubSeq(typed, n + 1, Len(typed))
        /\ tty' = [tty EXCEPT !.task = NoTask, !.start = @ + n]
        /\ IF tty.start + n = Len(tty.buffer)
             THEN Goto("reset") /\ UNCHANGED <<schedvars, doing, state>>
             ELSE Return
  BY Zenon DEF TtyTake
<1> DEFINE n == Smaller(nbytes, Len(tty.buffer) - tty.start)
<1>2. ~Resetting
  BY DEF StepInv, Resetting, TtyTake, At
<1>3. tty.buffer # << >>
  BY DEF TtyTake, ShouldRead
<1>4. /\ nbytes \in Nat /\ nbytes > 0
      /\ Len(tty.buffer) - tty.start \in Nat /\ Len(tty.buffer) - tty.start > 0
  BY <1>2, <1>3, WaitsAssumption, SMTT(30) DEF LineInv, WaitsTypeOK
<1>5. n \in 1 .. Len(tty.buffer) - tty.start
  BY <1>4 DEF Smaller
<1>6. /\ exact' = (exact /\ IsPrefix(SubSeq(Unread(tty), 1, n), typed))
      /\ typed' = SubSeq(typed, n + 1, Len(typed))
      /\ tty' = [tty EXCEPT !.task = NoTask, !.start = @ + n]
      /\ IF tty.start + n = Len(tty.buffer)
           THEN Goto("reset") /\ UNCHANGED <<schedvars, doing, state>>
           ELSE Return
  BY <1>1
<1> HIDE DEF n
<1>7. Taken(n)
  BY <1>5, <1>6 DEF Taken
<1> QED BY <1>5, <1>7

LEMMA UdpTakeFacts ==
  ASSUME WaitsTypeOK, UdpTake
  PROVE  \E n \in Nat : UdpTaken(n)
<1>1. PICK nbytes \in 1 .. MaxData :
        LET n == Smaller(nbytes, Len(socket.data)) IN
        /\ exact' = (exact /\ IsPrefix(SubSeq(socket.data, 1, n), received))
        /\ received' = SubSeq(received, n + 1, Len(received))
        /\ socket' = [socket EXCEPT !.data = Rest(@, n)]
  BY DEF UdpTake
<1> DEFINE n == Smaller(nbytes, Len(socket.data))
<1>2. n \in 0 .. Len(socket.data)
  <2>1. nbytes \in Nat /\ Len(socket.data) \in Nat
    BY WaitsAssumption DEF WaitsTypeOK
  <2> QED BY <2>1, SmallerFacts
<1>3. /\ exact' = (exact /\ IsPrefix(SubSeq(socket.data, 1, n), received))
      /\ received' = SubSeq(received, n + 1, Len(received))
      /\ socket' = [socket EXCEPT !.data = SubSeq(socket.data, n + 1, Len(socket.data))]
  BY <1>1 DEF Rest
<1> HIDE DEF n
<1>4. UdpTaken(n)
  BY <1>2, <1>3 DEF UdpTaken
<1>5. n \in Nat
  BY <1>2
<1> QED BY <1>4, <1>5

LEMMA InitType == WaitsInit => WaitsTypeOK
<1> SUFFICES ASSUME WaitsInit PROVE WaitsTypeOK
  OBVIOUS
<1>1. ReadyTypeOK /\ uses \in Together
  BY DEF WaitsInit, ReadyTypeOK
<1>2. /\ doing \in [Tasks -> Calls \union {"out"}] /\ step \in [Tasks -> Steps]
      /\ state \in [Tasks -> {"RUNNING", "INTERRUPTIBLE", "UNINTERRUPTIBLE"}]
      /\ wants \in [Tasks -> SUBSET {"tty", "udp"}] /\ left \in [Tasks -> -1 .. MaxNap]
      /\ pending \in SUBSET Tasks /\ sleepq \in SUBSET Tasks
  BY WaitsAssumption DEF WaitsInit, Steps
<1>3. /\ tty \in [task : Tasks \union {NoTask}, canonical : Modes,
                  buffer : Seq({"c", "nl"}), start : 0 .. BufferSize]
      /\ Len(tty.buffer) <= BufferSize
  BY WaitsAssumption DEF WaitsInit
<1>4. socket \in [task : Tasks \union {NoTask}, data : Seq(Nat)]
  BY DEF WaitsInit
<1>5. /\ rtc \in [task : Tasks \union {NoTask}, mod : Nat, div : RtcDivisor, passed : BOOLEAN]
      /\ \E d \in RtcDivisor : rtc.mod < d
  BY WaitsAssumption DEF WaitsInit
<1>6. typed \in Seq({"c", "nl"}) /\ received \in Seq(Nat) /\ exact \in BOOLEAN
  BY DEF WaitsInit
<1> QED BY <1>1, <1>2, <1>3, <1>4, <1>5, <1>6 DEF WaitsTypeOK, Steps


LEMMA TypeStep == StreamInv /\ [WaitsNext]_waitsvars => WaitsTypeOK'
<1> SUFFICES ASSUME StreamInv, [WaitsNext]_waitsvars PROVE WaitsTypeOK'
  OBVIOUS
<1>0. WaitsTypeOK /\ StepInv /\ ReadyInv /\ LineInv /\ StreamsExact
  BY DEF StreamInv, StepInv
<1> USE DEF Steps
<1>1. ASSUME TtyRead PROVE WaitsTypeOK'
  BY <1>0, <1>1, EnterType DEF TtyRead, WaitsTypeOK, ReadyTypeOK, schedvars, Calls
<1>2. ASSUME UdpRead PROVE WaitsTypeOK'
  BY <1>0, <1>2, EnterType DEF UdpRead, WaitsTypeOK, ReadyTypeOK, schedvars, Calls
<1>3. ASSUME RtcRead PROVE WaitsTypeOK'
  BY <1>0, <1>3, EnterType DEF RtcRead, WaitsTypeOK, ReadyTypeOK, schedvars, Calls
<1>4. ASSUME Nanosleep PROVE WaitsTypeOK'
  <2>1. /\ Enter("nap", "RUNNING") /\ current \in Tasks
        /\ UNCHANGED <<uses, pending, tty, socket, rtc, wants, typed, received, exact>>
    BY <1>0, <1>4 DEF Nanosleep, Enter
  <2>2. left' \in [Tasks -> -1 .. MaxNap] /\ sleepq' \in SUBSET Tasks
    <3>1. PICK n \in 0 .. MaxNap : left' = [left EXCEPT ![current] = n]
      BY <1>4 DEF Nanosleep
    <3>2. n \in -1 .. MaxNap
      BY WaitsAssumption
    <3>3. sleepq' \in SUBSET Tasks
      BY <1>0, <1>4, <2>1 DEF Nanosleep, WaitsTypeOK
    <3> QED BY <1>0, <2>1, <3>1, <3>2, <3>3 DEF WaitsTypeOK
  <2> QED BY <1>0, <2>1, <2>2, EnterType DEF WaitsTypeOK, Calls
<1>5. ASSUME Poll PROVE WaitsTypeOK'
  <2>1. /\ Enter("poll", "RUNNING") /\ current \in Tasks
        /\ UNCHANGED <<uses, pending, tty, socket, rtc, typed, received, exact>>
    BY <1>0, <1>5 DEF Poll, Enter
  <2>2. wants' \in [Tasks -> SUBSET {"tty", "udp"}]
    <3>1. PICK W \in SUBSET (uses \intersect {"tty", "udp"}) :
                 wants' = [wants EXCEPT ![current] = W]
      BY <1>0, <1>5 DEF Poll
    <3> QED BY <1>0, <2>1, <3>1 DEF WaitsTypeOK
  <2>3. left' \in [Tasks -> -1 .. MaxNap] /\ sleepq' \in SUBSET Tasks
    <3>1. PICK n \in {-1} \union 1 .. MaxNap :
                 /\ left' = [left EXCEPT ![current] = n]
                 /\ sleepq' = IF n > 0 THEN sleepq \union {current} ELSE sleepq
      BY <1>0, <1>5 DEF Poll
    <3>2. n \in -1 .. MaxNap
      BY WaitsAssumption
    <3> QED BY <1>0, <2>1, <3>1, <3>2 DEF WaitsTypeOK
  <2> QED BY <1>0, <2>1, <2>2, <2>3, EnterType DEF WaitsTypeOK, Calls
<1>6. ASSUME TtyWait PROVE WaitsTypeOK'
  BY <1>0, <1>6, GotoType DEF TtyWait, At, WaitsTypeOK, ReadyTypeOK, schedvars
<1>7. ASSUME UdpWait PROVE WaitsTypeOK'
  BY <1>0, <1>7, GotoType DEF UdpWait, At, WaitsTypeOK, ReadyTypeOK, schedvars
<1>8. ASSUME RtcWait PROVE WaitsTypeOK'
  BY <1>0, <1>8, GotoType DEF RtcWait, At, WaitsTypeOK, ReadyTypeOK, schedvars
<1>9. ASSUME NapGoesOn PROVE WaitsTypeOK'
  BY <1>0, <1>9, GotoType DEF NapGoesOn, At, WaitsTypeOK, ReadyTypeOK, schedvars
<1>10. ASSUME UdpReady PROVE WaitsTypeOK'
  BY <1>0, <1>10, GotoType DEF UdpReady, At, WaitsTypeOK, ReadyTypeOK, schedvars
<1>11. ASSUME TtyInterrupted PROVE WaitsTypeOK'
  BY <1>0, <1>11, ReturnType DEF TtyInterrupted, WaitsTypeOK, ReadyTypeOK, schedvars, Calls
<1>12. ASSUME TtyReset PROVE WaitsTypeOK'
  <2> DEFINE none == << >>
  <2>1. Return /\ tty' = [tty EXCEPT !.buffer = none, !.start = 0]
        /\ UNCHANGED <<uses, pending, socket, rtc, wants, left, sleepq, typed, received, exact>>
    BY <1>0, <1>12 DEF TtyReset
  <2>2. none \in Seq({"c", "nl"}) /\ Len(none) = 0 /\ 0 \in 0 .. BufferSize
    BY WaitsAssumption
  <2> HIDE DEF none
  <2>a. tty \in [task : Tasks \union {NoTask}, canonical : Modes,
                buffer : Seq({"c", "nl"}), start : 0 .. BufferSize]
    BY <1>0 DEF WaitsTypeOK
  <2>b. /\ tty' = [tty EXCEPT !.buffer = none, !.start = 0]
        /\ tty'.buffer = none
    BY <2>1, <2>a
  <2>c. tty' \in [task : Tasks \union {NoTask}, canonical : Modes,
                 buffer : Seq({"c", "nl"}), start : 0 .. BufferSize]
    BY <2>2, <2>a, <2>b
  <2>3. Len(tty'.buffer) <= BufferSize
    BY <2>2, <2>b, WaitsAssumption
  <2> QED BY <1>0, <2>1, <2>3, <2>c, ReturnType DEF WaitsTypeOK
<1>13. ASSUME UdpInterrupted PROVE WaitsTypeOK'
  BY <1>0, <1>13, ReturnType DEF UdpInterrupted, WaitsTypeOK, ReadyTypeOK, schedvars, Calls
<1>14. ASSUME RtcEnds PROVE WaitsTypeOK'
  BY <1>0, <1>14, ReturnType DEF RtcEnds, WaitsTypeOK, ReadyTypeOK, schedvars, Calls
<1>15. ASSUME NapEnds PROVE WaitsTypeOK'
  <2>1. current \in Tasks
    BY <1>15 DEF NapEnds, At
  <2>2. left' \in [Tasks -> -1 .. MaxNap] /\ sleepq' \in SUBSET Tasks
    BY <1>0, <1>15, <2>1, WaitsAssumption, SMTT(30) DEF NapEnds, WaitsTypeOK
  <2> QED BY <1>0, <1>15, <2>2, ReturnType DEF NapEnds, WaitsTypeOK
<1>16. ASSUME PollGoesOn PROVE WaitsTypeOK'
  <2>1. current \in Tasks /\ step' \in [Tasks -> Steps]
    BY <1>0, <1>16, GotoType DEF PollGoesOn, At
  <2>2. tty' = Registered(tty, "tty") /\ socket' = Registered(socket, "udp")
    BY <1>16 DEF PollGoesOn
  <2>3. /\ tty' \in [task : Tasks \union {NoTask}, canonical : Modes,
                     buffer : Seq({"c", "nl"}), start : 0 .. BufferSize]
        /\ Len(tty'.buffer) <= BufferSize
        /\ socket' \in [task : Tasks \union {NoTask}, data : Seq(Nat)]
    BY <1>0, <2>1, <2>2 DEF Registered, WaitsTypeOK
  <2> QED BY <1>0, <1>16, <2>1, <2>3 DEF PollGoesOn, WaitsTypeOK, ReadyTypeOK, schedvars
<1>17. ASSUME PollEnds PROVE WaitsTypeOK'
  <2>1. /\ current \in Tasks /\ Return
        /\ tty' = Cleaned(tty) /\ socket' = Cleaned(socket) /\ sleepq' = sleepq \ {current}
        /\ left' = [left EXCEPT ![current] = -1] /\ wants' = [wants EXCEPT ![current] = {}]
        /\ UNCHANGED <<uses, pending, rtc, typed, received, exact>>
    BY <1>17 DEF PollEnds, At
  <2>2. /\ tty' \in [task : Tasks \union {NoTask}, canonical : Modes,
                     buffer : Seq({"c", "nl"}), start : 0 .. BufferSize]
        /\ Len(tty'.buffer) <= BufferSize
        /\ socket' \in [task : Tasks \union {NoTask}, data : Seq(Nat)]
    BY <1>0, <2>1 DEF Cleaned, WaitsTypeOK
  <2>3. /\ left' \in [Tasks -> -1 .. MaxNap] /\ sleepq' \in SUBSET Tasks
        /\ wants' \in [Tasks -> SUBSET {"tty", "udp"}]
    BY <1>0, <2>1, WaitsAssumption, SMTT(30) DEF WaitsTypeOK
  <2> QED BY <1>0, <2>1, <2>2, <2>3, ReturnType DEF WaitsTypeOK
<1>18. ASSUME Mark PROVE WaitsTypeOK'
  BY <1>0, <1>18, GotoType DEF Mark, WaitsTypeOK, ReadyTypeOK, schedvars
<1>19. ASSUME Sleep PROVE WaitsTypeOK'
  BY <1>0, <1>19, GotoType, SuspendFacts DEF Sleep, WaitsTypeOK
<1>20. ASSUME TtyTake PROVE WaitsTypeOK'
  <2>1. PICK n \in Nat : Taken(n)
    BY <1>0, <1>20, TakeFacts
  <2>2. typed' \in Seq({"c", "nl"}) /\ exact' \in BOOLEAN
    BY <1>0, <2>1, RestFacts DEF Taken, WaitsTypeOK
  <2>3. /\ tty' \in [task : Tasks \union {NoTask}, canonical : Modes,
                     buffer : Seq({"c", "nl"}), start : 0 .. BufferSize]
        /\ Len(tty'.buffer) <= BufferSize
    <3>1. /\ tty \in [task : Tasks \union {NoTask}, canonical : Modes,
                     buffer : Seq({"c", "nl"}), start : 0 .. BufferSize]
          /\ tty.start \in Nat /\ Len(tty.buffer) \in Nat /\ Len(tty.buffer) <= BufferSize
      BY <1>0, WaitsAssumption DEF WaitsTypeOK
    <3>2. tty.start + n \in 0 .. BufferSize
      BY <2>1, <3>1, WaitsAssumption, SMTT(30) DEF Taken
    <3>3. tty' = [tty EXCEPT !.task = NoTask, !.start = tty.start + n]
      BY <2>1 DEF Taken
    <3> QED BY <3>1, <3>2, <3>3
  <2>4. /\ ReadyTypeOK' /\ doing' \in [Tasks -> Calls \union {"out"}]
        /\ step' \in [Tasks -> Steps]
        /\ state' \in [Tasks -> {"RUNNING", "INTERRUPTIBLE", "UNINTERRUPTIBLE"}]
    <3>1. CASE Return
      BY <1>0, <3>1, ReturnType
    <3>2. CASE Goto("reset") /\ UNCHANGED <<schedvars, doing, state>>
      BY <1>0, <3>2, GotoType DEF WaitsTypeOK, ReadyTypeOK, schedvars
    <3> QED BY <2>1, <3>1, <3>2 DEF Taken
  <2> QED BY <1>0, <1>20, <2>2, <2>3, <2>4 DEF TtyTake, WaitsTypeOK
<1>21. ASSUME UdpTake PROVE WaitsTypeOK'
  <2>1. PICK n \in Nat : UdpTaken(n)
    BY <1>0, <1>21, UdpTakeFacts
  <2>2. received' \in Seq(Nat) /\ exact' \in BOOLEAN
    BY <1>0, <2>1, RestFacts DEF UdpTaken, WaitsTypeOK
  <2>3. SubSeq(socket.data, n + 1, Len(socket.data)) \in Seq(Nat)
    BY <1>0, <2>1, RestFacts DEF WaitsTypeOK
  <2>4. socket' \in [task : Tasks \union {NoTask}, data : Seq(Nat)]
    BY <1>0, <2>1, <2>3 DEF UdpTaken, WaitsTypeOK
  <2> QED BY <1>0, <1>21, <2>2, <2>4, ReturnType DEF UdpTake, WaitsTypeOK
<1>22. ASSUME SetMode PROVE WaitsTypeOK'
  BY <1>0, <1>22 DEF SetMode, WaitsTypeOK, ReadyTypeOK, schedvars
<1>23. ASSUME RtcWrite PROVE WaitsTypeOK'
  BY <1>0, <1>23 DEF RtcWrite, WaitsTypeOK, ReadyTypeOK, schedvars
<1>24. ASSUME NEW c \in {"c", "nl", "bs"}, Key(c) PROVE WaitsTypeOK'
  <2>1. ReadyTypeOK'
    BY <1>0, <1>24, WakeFacts DEF Key, WaitsTypeOK, ReadyTypeOK, schedvars
  <2>2. /\ tty' \in [task : Tasks \union {NoTask}, canonical : Modes,
                     buffer : Seq({"c", "nl"}), start : 0 .. BufferSize]
        /\ Len(tty'.buffer) <= BufferSize /\ typed' \in Seq({"c", "nl"})
    <3>1. CASE c = "bs"
      <4>1. /\ tty.canonical /\ tty.buffer # << >> /\ ~ShouldRead(tty)
            /\ tty' = [tty EXCEPT !.buffer = Front(@)] /\ typed' = Front(typed)
        BY <1>24, <3>1 DEF Key, Committed
      <4>2. tty.start = 0
        BY <1>0, <4>1 DEF LineInv, WaitsTypeOK
      <4>3. typed = tty.buffer
        BY <1>0, <4>2, SubSeqFull DEF StreamsExact, Unread, WaitsTypeOK
      <4>4. Front(tty.buffer) \in Seq({"c", "nl"}) /\ Len(Front(tty.buffer)) = Len(tty.buffer) - 1
        BY <1>0, <4>1, FrontFacts DEF WaitsTypeOK
      <4>5. /\ tty \in [task : Tasks \union {NoTask}, canonical : Modes,
                       buffer : Seq({"c", "nl"}), start : 0 .. BufferSize]
            /\ Len(tty.buffer) \in Nat /\ Len(tty.buffer) <= BufferSize
        BY <1>0 DEF WaitsTypeOK
      <4>6. tty' \in [task : Tasks \union {NoTask}, canonical : Modes,
                      buffer : Seq({"c", "nl"}), start : 0 .. BufferSize]
        BY <4>1, <4>4, <4>5
      <4>7. Len(tty'.buffer) <= BufferSize
        BY <4>1, <4>4, <4>5, WaitsAssumption
      <4> QED BY <4>1, <4>3, <4>4, <4>6, <4>7
    <3>2. CASE c # "bs"
      <4>1. /\ tty' = [tty EXCEPT !.buffer = Append(@, c)] /\ typed' = Append(typed, c)
            /\ Len(tty.buffer) < BufferSize /\ c \in {"c", "nl"}
        BY <1>0, <1>24, <3>2 DEF Key
      <4>2. /\ Append(tty.buffer, c) \in Seq({"c", "nl"})
            /\ Len(Append(tty.buffer, c)) = Len(tty.buffer) + 1
            /\ Append(typed, c) \in Seq({"c", "nl"})
        BY <1>0, <4>1, AppendProperties DEF WaitsTypeOK
      <4>3. tty \in [task : Tasks \union {NoTask}, canonical : Modes,
                     buffer : Seq({"c", "nl"}), start : 0 .. BufferSize]
        BY <1>0 DEF WaitsTypeOK
      <4>4. tty' \in [task : Tasks \union {NoTask}, canonical : Modes,
                      buffer : Seq({"c", "nl"}), start : 0 .. BufferSize]
        BY <4>1, <4>2, <4>3
      <4>5. tty'.buffer = Append(tty.buffer, c)
        BY <4>1, <4>3
      <4>6. Len(tty'.buffer) <= BufferSize
        BY <1>0, <4>1, <4>2, <4>5, WaitsAssumption DEF WaitsTypeOK
      <4> QED BY <4>1, <4>2, <4>4, <4>6
    <3> QED BY <1>0, <3>1, <3>2
  <2> QED BY <1>0, <1>24, <2>1, <2>2 DEF Key, WaitsTypeOK
<1>25. ASSUME NEW p \in Packets, UdpReceive(p) PROVE WaitsTypeOK'
  <2>1. ReadyTypeOK'
    BY <1>0, <1>25, WakeFacts DEF UdpReceive, WaitsTypeOK
  <2>2. p \in Seq(Nat) /\ socket.data \o p \in Seq(Nat) /\ received \o p \in Seq(Nat)
    BY <1>0, WaitsAssumption, ConcatProperties DEF WaitsTypeOK
  <2>3. socket' \in [task : Tasks \union {NoTask}, data : Seq(Nat)]
    BY <1>0, <1>25, <2>2 DEF UdpReceive, WaitsTypeOK
  <2> QED BY <1>0, <1>25, <2>1, <2>2, <2>3 DEF UdpReceive, WaitsTypeOK
<1>26. ASSUME Tick PROVE WaitsTypeOK'
  <2> DEFINE due == Due(IF SleepFirst THEN left ELSE left')
             virtual == rtc.mod + 1 >= rtc.div
             woken == due \union (IF virtual THEN {rtc.task} ELSE {})
  <2>1. /\ left' = Elapsed /\ sleepq' = sleepq \ due /\ Wake(woken)
        /\ rtc' = [rtc EXCEPT !.mod = CountDown(rtc.mod + 1, rtc.div),
                              !.passed = rtc.passed \/ (virtual /\ rtc.task # NoTask)]
    BY <1>0, <1>26 DEF Tick
  <2>2. due \subseteq sleepq /\ woken \subseteq Tasks \union {NoTask}
    BY <1>0 DEF Due, WaitsTypeOK
  <2> HIDE DEF due, woken
  <2>3. ReadyTypeOK'
    BY <1>0, <2>1, <2>2, WakeFacts DEF WaitsTypeOK
  <2>4. /\ rtc' \in [task : Tasks \union {NoTask}, mod : Nat, div : RtcDivisor, passed : BOOLEAN]
        /\ rtc'.mod < rtc'.div /\ rtc'.div \in RtcDivisor
    BY <1>0, <2>1, TickType DEF WaitsTypeOK
  <2>5. left' \in [Tasks -> -1 .. MaxNap] /\ sleepq' \in SUBSET Tasks
    BY <1>0, <2>1, TickType DEF WaitsTypeOK
  <2> QED BY <1>0, <1>26, <2>3, <2>4, <2>5 DEF Tick, WaitsTypeOK
<1>27. ASSUME NEW t \in Tasks, Signal(t) PROVE WaitsTypeOK'
  BY <1>0, <1>27, WakeFacts, SMTT(30) DEF Signal, WaitsTypeOK, ReadyTypeOK, schedvars
<1>28. ASSUME Leave PROVE WaitsTypeOK'
  BY <1>0, <1>28, SuspendFacts DEF Leave, WaitsTypeOK
<1>29. ASSUME SwapperRuns PROVE WaitsTypeOK'
  BY <1>0, <1>29, SuspendFacts DEF SwapperRuns, WaitsTypeOK
<1>30. ASSUME UNCHANGED waitsvars PROVE WaitsTypeOK'
  BY <1>0, <1>30 DEF waitsvars, schedvars, WaitsTypeOK, ReadyTypeOK
<1> QED BY <1>1, <1>2, <1>3, <1>4, <1>5, <1>6, <1>7, <1>8, <1>9, <1>10, <1>11, <1>12, <1>13, <1>14, <1>15, <1>16, <1>17, <1>18, <1>19, <1>20, <1>21, <1>22, <1>23, <1>24, <1>25, <1>26, <1>27, <1>28, <1>29, <1>30 DEF WaitsNext, Begin, GoOn


-----------------------------------------------------------------------------
(* The first layer is kept. *)

LEMMA InitStream == WaitsInit => StreamInv
<1> SUFFICES ASSUME WaitsInit PROVE StreamInv
  OBVIOUS
<1>1. StepInv /\ ~Resetting
  BY SwapperAssumption DEF WaitsInit, StepInv, ReadyInv, Resetting
<1>2. tty.buffer = << >> /\ tty.start = 0 /\ Len(<< >>) = 0
  BY DEF WaitsInit
<1>3. LineInv
  BY <1>1, <1>2 DEF LineInv
<1>4. SubSeq(<< >>, 1, 0) = << >>
  OBVIOUS
<1>5. StreamsExact
  BY <1>2, <1>4 DEF WaitsInit, StreamsExact, Unread
<1> QED BY <1>1, <1>3, <1>5, InitType DEF StreamInv

LEMMA StepStep == StreamInv /\ [WaitsNext]_waitsvars => StepInv'
<1> SUFFICES ASSUME StreamInv, [WaitsNext]_waitsvars PROVE StepInv'
  OBVIOUS
<1>0. WaitsTypeOK /\ StepInv /\ ReadyInv /\ ReadyTypeOK /\ step \in [Tasks -> Steps]
      /\ doing \in [Tasks -> Calls \union {"out"}]
  BY DEF StreamInv, StepInv, WaitsTypeOK, Steps
<1>1. ASSUME TtyRead PROVE StepInv'
  BY <1>0, <1>1 DEF TtyRead, Enter, Goto, StepInv, ReadyInv, schedvars, Calls
<1>2. ASSUME UdpRead PROVE StepInv'
  BY <1>0, <1>2 DEF UdpRead, Enter, Goto, StepInv, ReadyInv, schedvars, Calls
<1>3. ASSUME RtcRead PROVE StepInv'
  BY <1>0, <1>3 DEF RtcRead, Enter, Goto, StepInv, ReadyInv, schedvars, Calls
<1>4. ASSUME Nanosleep PROVE StepInv'
  BY <1>0, <1>4 DEF Nanosleep, Enter, Goto, StepInv, ReadyInv, schedvars, Calls
<1>5. ASSUME Poll PROVE StepInv'
  BY <1>0, <1>5 DEF Poll, Enter, Goto, StepInv, ReadyInv, schedvars, Calls
<1>6. ASSUME TtyWait PROVE StepInv'
  BY <1>0, <1>6 DEF TtyWait, At, Goto, StepInv, ReadyInv, schedvars, Calls
<1>7. ASSUME UdpWait PROVE StepInv'
  BY <1>0, <1>7 DEF UdpWait, At, Goto, StepInv, ReadyInv, schedvars, Calls
<1>8. ASSUME RtcWait PROVE StepInv'
  BY <1>0, <1>8 DEF RtcWait, At, Goto, StepInv, ReadyInv, schedvars, Calls
<1>9. ASSUME NapGoesOn PROVE StepInv'
  BY <1>0, <1>9 DEF NapGoesOn, At, Goto, StepInv, ReadyInv, schedvars, Calls
<1>10. ASSUME UdpReady PROVE StepInv'
  BY <1>0, <1>10 DEF UdpReady, At, Goto, StepInv, ReadyInv, schedvars, Calls
<1>11. ASSUME PollGoesOn PROVE StepInv'
  BY <1>0, <1>11 DEF PollGoesOn, At, Goto, StepInv, ReadyInv, schedvars, Calls
<1>12. ASSUME TtyInterrupted PROVE StepInv'
  BY <1>0, <1>12 DEF TtyInterrupted, At, Return, Goto, StepInv, ReadyInv, schedvars, Calls
<1>13. ASSUME UdpInterrupted PROVE StepInv'
  BY <1>0, <1>13 DEF UdpInterrupted, At, Return, Goto, StepInv, ReadyInv, schedvars, Calls
<1>14. ASSUME RtcEnds PROVE StepInv'
  BY <1>0, <1>14 DEF RtcEnds, At, Return, Goto, StepInv, ReadyInv, schedvars, Calls
<1>15. ASSUME NapEnds PROVE StepInv'
  BY <1>0, <1>15 DEF NapEnds, At, Return, Goto, StepInv, ReadyInv, schedvars, Calls
<1>16. ASSUME PollEnds PROVE StepInv'
  BY <1>0, <1>16 DEF PollEnds, At, Return, Goto, StepInv, ReadyInv, schedvars, Calls
<1>17. ASSUME TtyReset PROVE StepInv'
  BY <1>0, <1>17 DEF TtyReset, At, Return, Goto, StepInv, ReadyInv, schedvars, Calls
<1>18. ASSUME UdpTake PROVE StepInv'
  BY <1>0, <1>18 DEF UdpTake, At, Return, Goto, StepInv, ReadyInv, schedvars, Calls
<1>19. ASSUME TtyTake PROVE StepInv'
  <2>1. PICK n \in Nat : Taken(n)
    BY <1>0, <1>19, TakeFacts DEF StreamInv
  <2> QED BY <1>0, <1>19, <2>1 DEF Taken, TtyTake, At, Return, Goto, StepInv, ReadyInv, schedvars, Calls
<1>20. ASSUME Mark PROVE StepInv'
  BY <1>0, <1>20 DEF Mark, Goto, StepInv, ReadyInv, schedvars, Calls
<1>21. ASSUME Sleep PROVE StepInv'
  BY <1>0, <1>21, SuspendFacts DEF Sleep, Goto, StepInv, ReadyInv, schedvars, Calls
<1>22. ASSUME SetMode PROVE StepInv'
  BY <1>0, <1>22 DEF SetMode, StepInv, ReadyInv, schedvars, Calls
<1>23. ASSUME RtcWrite PROVE StepInv'
  BY <1>0, <1>23 DEF RtcWrite, StepInv, ReadyInv, schedvars, Calls
<1>24. ASSUME NEW c \in {"c", "nl", "bs"}, Key(c) PROVE StepInv'
  BY <1>0, <1>24, WakeFacts, SMTT(30) DEF Key, StepInv, ReadyInv, schedvars, Calls, WaitsTypeOK
<1>25. ASSUME NEW p \in Packets, UdpReceive(p) PROVE StepInv'
  BY <1>0, <1>25, WakeFacts, SMTT(30) DEF UdpReceive, StepInv, ReadyInv, schedvars, Calls, WaitsTypeOK
<1>26. ASSUME Tick PROVE StepInv'
  <2> DEFINE due == Due(IF SleepFirst THEN left ELSE left')
             woken == due \union (IF rtc.mod + 1 >= rtc.div THEN {rtc.task} ELSE {})
  <2>1. Wake(woken) /\ UNCHANGED <<doing, step>>
    BY <1>26 DEF Tick
  <2>2. woken \subseteq Tasks \union {NoTask}
    BY <1>0 DEF Due, WaitsTypeOK
  <2> HIDE DEF woken
  <2> QED BY <1>0, <2>1, <2>2, WakeFacts DEF StepInv
<1>27. ASSUME NEW t \in Tasks, Signal(t) PROVE StepInv'
  BY <1>0, <1>27, WakeFacts DEF Signal, StepInv, ReadyInv, schedvars, Calls
<1>28. ASSUME Leave PROVE StepInv'
  BY <1>0, <1>28, SuspendFacts DEF Leave, StepInv, ReadyInv, Steps, schedvars
<1>29. ASSUME SwapperRuns PROVE StepInv'
  BY <1>0, <1>29, SuspendFacts, SwapperAssumption DEF SwapperRuns, StepInv, ReadyInv, Steps, schedvars
<1>30. ASSUME UNCHANGED waitsvars PROVE StepInv'
  BY <1>0, <1>30 DEF waitsvars, StepInv, ReadyInv, schedvars, Calls
<1> QED BY <1>1, <1>2, <1>3, <1>4, <1>5, <1>6, <1>7, <1>8, <1>9, <1>10, <1>11, <1>12, <1>13, <1>14, <1>15, <1>16, <1>17, <1>18, <1>19, <1>20, <1>21, <1>22, <1>23, <1>24, <1>25, <1>26, <1>27, <1>28, <1>29, <1>30 DEF WaitsNext, Begin, GoOn


\* What most steps do to the terminal's keys, and to the streams.
LineKept ==
  /\ tty'.buffer = tty.buffer /\ tty'.start = tty.start /\ tty'.canonical = tty.canonical
  /\ Resetting' <=> Resetting
StreamsKept ==
  /\ typed' = typed /\ received' = received /\ exact' = exact
  /\ socket'.data = socket.data

LEMMA LineKeptFacts == ASSUME LineInv, LineKept PROVE LineInv'
BY DEF LineInv, LineKept, ShouldRead

LEMMA StreamsKeptFacts == ASSUME StreamsExact, LineKept, StreamsKept PROVE StreamsExact'
BY DEF StreamsExact, LineKept, StreamsKept, Unread

LEMMA KeptStep ==
  ASSUME StreamInv,
         \/ Begin \/ RtcWrite \/ Tick \/ (\E t \in Tasks : Signal(t)) \/ Leave \/ SwapperRuns
         \/ TtyWait \/ TtyInterrupted \/ UdpWait \/ UdpInterrupted \/ UdpReady
         \/ RtcWait \/ RtcEnds \/ NapGoesOn \/ NapEnds \/ PollGoesOn \/ PollEnds
         \/ Mark \/ Sleep \/ UNCHANGED waitsvars
  PROVE  LineKept /\ StreamsKept
<1>0. /\ StepInv /\ ReadyInv /\ step \in [Tasks -> Steps]
      /\ doing \in [Tasks -> Calls \union {"out"}]
      /\ tty \in [task : Tasks \union {NoTask}, canonical : Modes,
                  buffer : Seq({"c", "nl"}), start : 0 .. BufferSize]
      /\ socket \in [task : Tasks \union {NoTask}, data : Seq(Nat)]
  BY DEF StreamInv, StepInv, WaitsTypeOK, Steps
<1>1. ASSUME TtyRead PROVE LineKept /\ StreamsKept
  BY <1>0, <1>1 DEF TtyRead, Enter, Goto, StepInv, LineKept, StreamsKept, Resetting
<1>2. ASSUME UdpRead PROVE LineKept /\ StreamsKept
  BY <1>0, <1>2 DEF UdpRead, Enter, Goto, StepInv, LineKept, StreamsKept, Resetting
<1>3. ASSUME RtcRead PROVE LineKept /\ StreamsKept
  BY <1>0, <1>3 DEF RtcRead, Enter, Goto, StepInv, LineKept, StreamsKept, Resetting
<1>4. ASSUME Nanosleep PROVE LineKept /\ StreamsKept
  BY <1>0, <1>4 DEF Nanosleep, Enter, Goto, StepInv, LineKept, StreamsKept, Resetting
<1>5. ASSUME Poll PROVE LineKept /\ StreamsKept
  BY <1>0, <1>5 DEF Poll, Enter, Goto, StepInv, LineKept, StreamsKept, Resetting
<1>6. ASSUME TtyWait PROVE LineKept /\ StreamsKept
  BY <1>0, <1>6 DEF TtyWait, At, Goto, StepInv, LineKept, StreamsKept, Resetting
<1>7. ASSUME UdpWait PROVE LineKept /\ StreamsKept
  BY <1>0, <1>7 DEF UdpWait, At, Goto, StepInv, LineKept, StreamsKept, Resetting
<1>8. ASSUME RtcWait PROVE LineKept /\ StreamsKept
  BY <1>0, <1>8 DEF RtcWait, At, Goto, StepInv, LineKept, StreamsKept, Resetting
<1>9. ASSUME NapGoesOn PROVE LineKept /\ StreamsKept
  BY <1>0, <1>9 DEF NapGoesOn, At, Goto, StepInv, LineKept, StreamsKept, Resetting
<1>10. ASSUME UdpReady PROVE LineKept /\ StreamsKept
  BY <1>0, <1>10 DEF UdpReady, At, Goto, StepInv, LineKept, StreamsKept, Resetting
<1>11. ASSUME PollGoesOn PROVE LineKept /\ StreamsKept
  BY <1>0, <1>11 DEF PollGoesOn, Registered, At, Goto, StepInv, LineKept, StreamsKept, Resetting
<1>12. ASSUME TtyInterrupted PROVE LineKept /\ StreamsKept
  BY <1>0, <1>12 DEF TtyInterrupted, At, Return, Goto, StepInv, LineKept, StreamsKept, Resetting
<1>13. ASSUME UdpInterrupted PROVE LineKept /\ StreamsKept
  BY <1>0, <1>13 DEF UdpInterrupted, At, Return, Goto, StepInv, LineKept, StreamsKept, Resetting
<1>14. ASSUME RtcEnds PROVE LineKept /\ StreamsKept
  BY <1>0, <1>14 DEF RtcEnds, At, Return, Goto, StepInv, LineKept, StreamsKept, Resetting
<1>15. ASSUME NapEnds PROVE LineKept /\ StreamsKept
  BY <1>0, <1>15 DEF NapEnds, At, Return, Goto, StepInv, LineKept, StreamsKept, Resetting
<1>16. ASSUME PollEnds PROVE LineKept /\ StreamsKept
  BY <1>0, <1>16 DEF PollEnds, Cleaned, At, Return, Goto, StepInv, LineKept, StreamsKept, Resetting
<1>17. ASSUME Mark PROVE LineKept /\ StreamsKept
  BY <1>0, <1>17 DEF Mark, Goto, StepInv, LineKept, StreamsKept, Resetting
<1>18. ASSUME Sleep PROVE LineKept /\ StreamsKept
  BY <1>0, <1>18 DEF Sleep, Goto, StepInv, LineKept, StreamsKept, Resetting
<1>19. ASSUME RtcWrite PROVE LineKept /\ StreamsKept
  BY <1>0, <1>19 DEF RtcWrite, StepInv, LineKept, StreamsKept, Resetting
<1>20. ASSUME Tick PROVE LineKept /\ StreamsKept
  BY <1>0, <1>20 DEF Tick, StepInv, LineKept, StreamsKept, Resetting
<1>21. ASSUME Leave PROVE LineKept /\ StreamsKept
  BY <1>0, <1>21 DEF Leave, StepInv, LineKept, StreamsKept, Resetting
<1>22. ASSUME SwapperRuns PROVE LineKept /\ StreamsKept
  BY <1>0, <1>22 DEF SwapperRuns, StepInv, LineKept, StreamsKept, Resetting
<1>23. ASSUME NEW t \in Tasks, Signal(t) PROVE LineKept /\ StreamsKept
  BY <1>0, <1>23 DEF Signal, StepInv, LineKept, StreamsKept, Resetting
<1>24. ASSUME UNCHANGED waitsvars PROVE LineKept /\ StreamsKept
  BY <1>0, <1>24 DEF waitsvars, StepInv, LineKept, StreamsKept, Resetting
<1> QED BY <1>1, <1>2, <1>3, <1>4, <1>5, <1>6, <1>7, <1>8, <1>9, <1>10, <1>11, <1>12, <1>13, <1>14, <1>15, <1>16, <1>17, <1>18, <1>19, <1>20, <1>21, <1>22, <1>23, <1>24 DEF Begin


\* No key comes while a buffer is reset, and no ioctl while keys are there.
LineQuiet == Races \subseteq {"gap"}

LEMMA LineStep ==
  ASSUME LineQuiet, StreamInv, [WaitsNext]_waitsvars
  PROVE  LineInv' /\ StreamsExact'
<1>0. /\ StepInv /\ ReadyInv /\ LineInv /\ StreamsExact /\ WaitsTypeOK
      /\ step \in [Tasks -> Steps] /\ doing \in [Tasks -> Calls \union {"out"}]
      /\ socket \in [task : Tasks \union {NoTask}, data : Seq(Nat)]
  BY DEF StreamInv, StepInv, WaitsTypeOK, Steps
<1>a. /\ tty \in [task : Tasks \union {NoTask}, canonical : Modes,
                  buffer : Seq({"c", "nl"}), start : 0 .. BufferSize]
      /\ tty.buffer \in Seq({"c", "nl"}) /\ tty.start \in Nat /\ Len(tty.buffer) \in Nat
  BY WaitsAssumption DEF StreamInv, WaitsTypeOK
<1>1. ASSUME LineKept, StreamsKept PROVE LineInv' /\ StreamsExact'
  BY <1>0, <1>1, LineKeptFacts, StreamsKeptFacts
<1>2. ASSUME TtyTake PROVE LineInv' /\ StreamsExact'
  <2>1. PICK n \in Nat : Taken(n)
    BY <1>0, <1>2, TakeFacts
  <2>2. /\ tty'.buffer = tty.buffer /\ tty'.canonical = tty.canonical
        /\ tty'.start = tty.start + n /\ n > 0 /\ tty.start + n <= Len(tty.buffer)
    BY <1>a, <2>1 DEF Taken
  <2>3. ShouldRead(tty) /\ ShouldRead(tty)'
    BY <1>2, <2>2 DEF TtyTake, ShouldRead
  <2>4. Resetting' <=> tty.start + n = Len(tty.buffer)
    <3>1. /\ current \in Tasks /\ \A t \in Tasks : step[t] = "check"
      BY <1>0, <1>2 DEF TtyTake, At, StepInv
    <3>2. CASE tty.start + n = Len(tty.buffer)
      BY <1>0, <2>1, <3>1, <3>2 DEF Taken, Goto, Resetting
    <3>3. CASE tty.start + n # Len(tty.buffer)
      BY <1>0, <2>1, <3>1, <3>3 DEF Taken, Return, Goto, Resetting
    <3> QED BY <3>2, <3>3
  <2>5. LineInv'
    BY <1>0, <1>a, <2>2, <2>3, <2>4 DEF LineInv
  <2>6. typed = SubSeq(tty.buffer, tty.start + 1, Len(tty.buffer))
    BY <1>0 DEF StreamsExact, Unread
  <2>7. typed \in Seq({"c", "nl"}) /\ n \in 0 .. Len(typed)
    <3>1. tty.start <= Len(tty.buffer)
      BY <1>0 DEF LineInv
    <3>2. typed \in Seq({"c", "nl"}) /\ Len(typed) = Len(tty.buffer) - tty.start
      BY <1>a, <2>6, <3>1, RestWithin
    <3> QED BY <1>a, <2>2, <3>2
  <2>8. exact'
    BY <1>0, <2>1, <2>7, PrefixFacts DEF Taken, StreamsExact
  <2>9. typed' = SubSeq(tty.buffer, tty.start + n + 1, Len(tty.buffer))
    <3>1. typed' = SubSeq(typed, n + 1, Len(typed))
      BY <2>1 DEF Taken
    <3> QED BY <1>a, <2>2, <2>6, <3>1, RestOfRest
  <2>10. socket' = socket /\ received' = received
    BY <1>2 DEF TtyTake
  <2> QED BY <1>0, <2>2, <2>5, <2>8, <2>9, <2>10 DEF StreamsExact, Unread
<1>3. ASSUME TtyReset PROVE LineInv' /\ StreamsExact'
  <2>1. /\ tty'.buffer = << >> /\ tty'.start = 0 /\ Len(<< >>) = 0
        /\ UNCHANGED <<socket, typed, received, exact>>
    BY <1>3, <1>a DEF TtyReset
  <2>2. Resetting /\ ~Resetting'
    BY <1>0, <1>3 DEF TtyReset, At, Return, Goto, Resetting, StepInv
  <2>3. LineInv'
    BY <2>1, <2>2 DEF LineInv
  <2>4. typed = << >>
    <3>1. tty.start = Len(tty.buffer)
      BY <1>0, <2>2 DEF LineInv
    <3>2. typed \in Seq({"c", "nl"}) /\ Len(typed) = 0
      BY <1>0, <1>a, <3>1, RestFacts DEF StreamsExact, Unread
    <3> QED BY <3>2
  <2>5. SubSeq(<< >>, 1, 0) = << >>
    OBVIOUS
  <2>6. Unread(tty)' = << >>
    BY <2>1, <2>5 DEF Unread
  <2> QED BY <1>0, <2>1, <2>3, <2>4, <2>6 DEF StreamsExact
<1>4. ASSUME SetMode PROVE LineInv' /\ StreamsExact'
  <2>1. /\ tty.buffer = << >> /\ tty'.buffer = tty.buffer /\ tty'.start = tty.start
        /\ UNCHANGED <<step, socket, typed, received, exact>>
    BY <1>4, <1>a DEF SetMode, LineQuiet
  <2>2. tty.start = 0 /\ (Resetting' <=> Resetting)
    BY <1>0, <1>a, <2>1 DEF LineInv, Resetting
  <2>3. LineInv'
    BY <1>0, <2>1, <2>2 DEF LineInv
  <2> QED BY <1>0, <2>1, <2>3 DEF StreamsExact, Unread
<1>5. ASSUME NEW c \in {"c", "nl", "bs"}, Key(c) PROVE LineInv' /\ StreamsExact'
  <2>1. ~Committed /\ (~Resetting \/ tty.canonical) /\ UNCHANGED <<step, socket, received, exact>>
    BY <1>5 DEF Key, LineQuiet, Resetting
  <2>2. /\ ~Resetting /\ ~Resetting'
        /\ tty.canonical => ~ShouldRead(tty) /\ tty.start = 0
    BY <1>0, <1>a, <2>1 DEF LineInv, Committed, Resetting
  <2>3. CASE c = "bs"
    <3>1. /\ tty.canonical /\ tty.buffer # << >> /\ tty'.start = tty.start
          /\ tty'.buffer = Front(tty.buffer) /\ typed' = Front(typed)
      BY <1>5, <1>a, <2>3 DEF Key
    <3>2. /\ tty'.buffer \in Seq({"c", "nl"}) /\ Len(tty'.buffer) = Len(tty.buffer) - 1
          /\ \A i \in 1 .. Len(tty.buffer) - 1 : tty'.buffer[i] = tty.buffer[i]
      BY <1>a, <3>1, FrontFacts
    <3>3. tty.start = 0 /\ Len(tty'.buffer) \in Nat
      BY <2>2, <3>1, <3>2
    <3>4. \A i \in 1 .. Len(tty'.buffer) - 1 : tty'.buffer[i] # "nl"
      <4>1. \A i \in 1 .. Len(tty.buffer) - 1 : tty.buffer[i] # "nl"
        BY <1>0, <3>1 DEF LineInv
      <4>2. \A i \in 1 .. Len(tty'.buffer) - 1 : i \in 1 .. Len(tty.buffer) - 1
        BY <3>2, <3>3
      <4> QED BY <3>2, <4>1, <4>2
    <3>a. Len(tty'.buffer) = 0 => tty'.buffer = << >>
      BY <3>2, EmptySeq
    <3>b. tty'.start = 0 /\ tty'.start <= Len(tty'.buffer)
      BY <3>1, <3>3
    <3>5. LineInv'
      BY <2>2, <3>4, <3>a, <3>b DEF LineInv
    <3>6. Unread(tty) = tty.buffer /\ Unread(tty)' = tty'.buffer
      BY <1>a, <3>1, <3>2, <3>3, SubSeqFull DEF Unread
    <3> QED BY <1>0, <2>1, <3>1, <3>5, <3>6 DEF StreamsExact
  <2>4. CASE c # "bs"
    <3>1. /\ tty'.buffer = Append(tty.buffer, c) /\ tty'.start = tty.start
          /\ tty'.canonical = tty.canonical
          /\ typed' = Append(typed, c) /\ c \in {"c", "nl"}
      BY <1>5, <1>a, <2>4 DEF Key
    <3>2. /\ tty'.buffer \in Seq({"c", "nl"}) /\ Len(tty'.buffer) = Len(tty.buffer) + 1
          /\ \A i \in 1 .. Len(tty.buffer) : tty'.buffer[i] = tty.buffer[i]
      BY <1>a, <3>1, AppendProperties
    <3>3. tty.start <= Len(tty.buffer)
      BY <1>0 DEF LineInv
    <3>4. tty.canonical => \A i \in 1 .. Len(tty.buffer) : tty.buffer[i] # "nl"
      BY <1>0, <1>a, <2>2 DEF LineInv, ShouldRead, Last
    <3>5. tty.canonical => \A i \in 1 .. Len(tty'.buffer) - 1 : tty'.buffer[i] # "nl"
      <4>1. Len(tty'.buffer) - 1 = Len(tty.buffer)
        BY <1>a, <3>2
      <4> QED BY <3>2, <3>4, <4>1
    <3>6. LineInv'
      BY <1>a, <2>2, <3>1, <3>2, <3>3, <3>5 DEF LineInv
    <3>7. Unread(tty)' = Append(Unread(tty), c)
      BY <1>a, <3>1, <3>3, RestOfAppend, SMTT(30) DEF Unread
    <3> QED BY <1>0, <2>1, <3>1, <3>6, <3>7 DEF StreamsExact
  <2> QED BY <2>3, <2>4
<1>6. ASSUME UdpTake PROVE LineInv' /\ StreamsExact'
  <2>1. PICK n \in Nat : UdpTaken(n)
    BY <1>0, <1>6, UdpTakeFacts
  <2>2. LineKept /\ typed' = typed
    BY <1>0, <1>6 DEF UdpTake, At, Return, Goto, LineKept, Resetting, StepInv
  <2>3. socket'.data = SubSeq(socket.data, n + 1, Len(socket.data))
    BY <1>0, <2>1 DEF UdpTaken
  <2>4. received = socket.data /\ exact
    BY <1>0 DEF StreamsExact
  <2>5. exact' /\ received' = SubSeq(received, n + 1, Len(received))
    BY <1>0, <2>1, <2>4, PrefixFacts DEF UdpTaken
  <2> QED BY <1>0, <2>2, <2>3, <2>4, <2>5, LineKeptFacts DEF StreamsExact, LineKept, Unread
<1>7. ASSUME NEW p \in Packets, UdpReceive(p) PROVE LineInv' /\ StreamsExact'
  <2>1. LineKept /\ typed' = typed /\ exact' = exact
    BY <1>7 DEF UdpReceive, LineKept, Resetting
  <2>2. socket'.data = socket.data \o p /\ received' = received \o p
    BY <1>0, <1>7 DEF UdpReceive
  <2> QED BY <1>0, <2>1, <2>2, LineKeptFacts DEF StreamsExact, LineKept, Unread
<1> QED BY <1>1, <1>2, <1>3, <1>4, <1>5, <1>6, <1>7, KeptStep DEF WaitsNext, GoOn

\* Each variable of the waiting code keeps its type; while no key comes between
\* the end of tty_read's test and its assignment, and no ioctl changes the mode
\* of a terminal in use.
THEOREM WaitsTypeCorrect ==
  ASSUME LineQuiet
  PROVE  WaitsSpec => []WaitsTypeOK
<1>1. StreamInv /\ [WaitsNext]_waitsvars => StreamInv'
  BY TypeStep, StepStep, LineStep DEF StreamInv
<1>2. StreamInv => WaitsTypeOK
  BY DEF StreamInv
<1> QED BY <1>1, <1>2, InitStream, PTL DEF WaitsSpec

\* Under the same hypothesis, readers of the terminal and of the socket get every
\* key that was accepted and not erased, and every byte that was received, once
\* and in order, for buffers, reads and packets of any size.
THEOREM StreamsAreExact ==
  ASSUME LineQuiet
  PROVE  WaitsSpec => []StreamsExact
<1>1. StreamInv /\ [WaitsNext]_waitsvars => StreamInv'
  BY TypeStep, StepStep, LineStep DEF StreamInv
<1>2. StreamInv => StreamsExact
  BY DEF StreamInv
<1> QED BY <1>1, <1>2, InitStream, PTL DEF WaitsSpec


-----------------------------------------------------------------------------
(* The invariant's second layer: who is registered, and who may sleep. *)

\* Whoever waits in a call is registered with the object until he has what he
\* waits for, and whoever waits for a time that has not come is in sleep_queue.
HoldInv ==
  \A t \in Tasks :
    /\ doing[t] = "tty" /\ step[t] # "reset" => tty.task = t
    /\ doing[t] = "udp" /\ step[t] # "take" => socket.task = t
    /\ doing[t] = "rtc" => rtc.task = t
    /\ step[t] = "reset" => tty.task # t
    /\ step[t] = "take" => socket.task # t
    /\ doing[t] \in {"nap", "poll"} /\ left[t] > 0 => t \in sleepq

\* A task that a signal has to wake, asleep or about to be, has the state that
\* lets it.
StateInv ==
  \A t \in Tasks :
    /\ doing[t] \in {"tty", "udp"} => state[t] = "INTERRUPTIBLE"
    /\ doing[t] \in {"nap", "poll"} /\ (step[t] = "sleep" \/ (t # current /\ t \notin ready))
         => state[t] = "INTERRUPTIBLE"

\* What t waits for has not come, and it will be told.
HasReason(t) ==
  /\ doing[t] # "out"
  /\ doing[t] = "tty" => ~ShouldRead(tty)
  /\ doing[t] = "udp" => socket.data = << >>
  /\ doing[t] = "rtc" => ~rtc.passed
  /\ doing[t] # "rtc" => t \notin pending
  /\ doing[t] = "nap" => t \in sleepq
  /\ doing[t] = "poll" => /\ left[t] # -1 => t \in sleepq
                          /\ tty.task = t => ~ShouldRead(tty)
                          /\ socket.task = t => socket.data = << >>

\* Asleep, or about to be and not woken yet.
Dozing(t) ==
  \/ t # current /\ t \notin ready
  \/ t = current /\ step[t] \in {"mark", "sleep"} /\ t \notin noted

SleepInv == \A t \in Tasks : Dozing(t) => HasReason(t)

WaitInv == HoldInv /\ WaiterIsInside /\ StateInv /\ SleepInv

Regular == StreamInv /\ WaitInv

LEMMA InitWait == WaitsInit => WaitInv
BY SwapperAssumption DEF WaitsInit, WaitInv, HoldInv, WaiterIsInside, StateInv, SleepInv, Dozing

LEMMA WaitMeans == Regular => WaitersMatch
<1> SUFFICES ASSUME Regular PROVE AsleepForReason
  BY DEF WaitersMatch, Regular, WaitInv
<1> SUFFICES ASSUME NEW t \in {u \in Tasks : Asleep(u)}
    PROVE  CASE doing[t] = "tty" -> tty.task = t /\ ~ShouldRead(tty) /\ t \notin pending
             [] doing[t] = "udp" -> socket.task = t /\ socket.data = << >> /\ t \notin pending
             [] doing[t] = "rtc" -> rtc.task = t /\ ~rtc.passed
             [] doing[t] = "nap" -> t \in sleepq /\ t \notin pending
             [] doing[t] = "poll" ->
                  /\ t \notin pending
                  /\ left[t] # -1 => t \in sleepq
                  /\ ~(tty.task = t /\ ShouldRead(tty)) /\ ~(socket.task = t /\ socket.data # << >>)
             [] OTHER -> FALSE
  BY Zenon DEF AsleepForReason
<1>1. HasReason(t) /\ step[t] = "check"
  BY DEF Regular, WaitInv, SleepInv, Dozing, Asleep, StreamInv, StepInv
<1>2. doing[t] \in Calls
  BY <1>1 DEF HasReason, Regular, StreamInv, WaitsTypeOK
<1>3. CASE doing[t] = "tty"
  BY <1>1, <1>3 DEF HasReason, Regular, WaitInv, HoldInv
<1>4. CASE doing[t] = "udp"
  BY <1>1, <1>4 DEF HasReason, Regular, WaitInv, HoldInv
<1>5. CASE doing[t] = "rtc"
  BY <1>1, <1>5 DEF HasReason, Regular, WaitInv, HoldInv
<1>6. CASE doing[t] = "nap"
  BY <1>1, <1>6 DEF HasReason
<1>7. CASE doing[t] = "poll"
  BY <1>1, <1>7 DEF HasReason
<1> QED BY <1>2, <1>3, <1>4, <1>5, <1>6, <1>7 DEF Calls

LEMMA HoldStep == Races = {} /\ Regular /\ [WaitsNext]_waitsvars => (HoldInv /\ WaiterIsInside)'
<1> SUFFICES ASSUME Races = {}, Regular, [WaitsNext]_waitsvars PROVE (HoldInv /\ WaiterIsInside)'
  OBVIOUS
<1>0. /\ WaitsTypeOK /\ ReadyTypeOK /\ StepInv /\ ReadyInv /\ LineInv
      /\ HoldInv /\ WaiterIsInside /\ StateInv /\ SleepInv
      /\ step \in [Tasks -> Steps] /\ doing \in [Tasks -> Calls \union {"out"}]
      /\ tty \in [task : Tasks \union {NoTask}, canonical : Modes,
                  buffer : Seq({"c", "nl"}), start : 0 .. BufferSize]
      /\ socket \in [task : Tasks \union {NoTask}, data : Seq(Nat)]
      /\ rtc \in [task : Tasks \union {NoTask}, mod : Nat, div : RtcDivisor, passed : BOOLEAN]
      /\ left \in [Tasks -> -1 .. MaxNap] /\ wants \in [Tasks -> SUBSET {"tty", "udp"}]
      /\ state \in [Tasks -> {"RUNNING", "INTERRUPTIBLE", "UNINTERRUPTIBLE"}]
      /\ sleepq \subseteq Tasks /\ pending \subseteq Tasks /\ NoTask \notin Tasks \union {Swapper}
  BY WaitsAssumption DEF Regular, StreamInv, StepInv, WaitInv, WaitsTypeOK, Steps
<1>1. ASSUME TtyRead PROVE (HoldInv /\ WaiterIsInside)'
  BY <1>0, <1>1 DEF TtyRead, Enter, Goto, HoldInv, WaiterIsInside, StepInv, schedvars
<1>2. ASSUME UdpRead PROVE (HoldInv /\ WaiterIsInside)'
  BY <1>0, <1>2 DEF UdpRead, Enter, Goto, HoldInv, WaiterIsInside, StepInv, schedvars
<1>3. ASSUME RtcRead PROVE (HoldInv /\ WaiterIsInside)'
  BY <1>0, <1>3 DEF RtcRead, Enter, Goto, HoldInv, WaiterIsInside, StepInv, schedvars
<1>4. ASSUME Nanosleep PROVE (HoldInv /\ WaiterIsInside)'
  BY <1>0, <1>4 DEF Nanosleep, Enter, Goto, HoldInv, WaiterIsInside, StepInv, schedvars
<1>5. ASSUME Poll PROVE (HoldInv /\ WaiterIsInside)'
  BY <1>0, <1>5 DEF Poll, Enter, Goto, HoldInv, WaiterIsInside, StepInv, schedvars
<1>6. ASSUME TtyWait PROVE (HoldInv /\ WaiterIsInside)'
  BY <1>0, <1>6 DEF TtyWait, At, Goto, HoldInv, WaiterIsInside, StepInv, schedvars
<1>7. ASSUME UdpWait PROVE (HoldInv /\ WaiterIsInside)'
  BY <1>0, <1>7 DEF UdpWait, At, Goto, HoldInv, WaiterIsInside, StepInv, schedvars
<1>8. ASSUME RtcWait PROVE (HoldInv /\ WaiterIsInside)'
  BY <1>0, <1>8 DEF RtcWait, At, Goto, HoldInv, WaiterIsInside, StepInv, schedvars
<1>9. ASSUME NapGoesOn PROVE (HoldInv /\ WaiterIsInside)'
  BY <1>0, <1>9 DEF NapGoesOn, At, Goto, HoldInv, WaiterIsInside, StepInv, schedvars
<1>10. ASSUME UdpReady PROVE (HoldInv /\ WaiterIsInside)'
  BY <1>0, <1>10 DEF UdpReady, At, Goto, HoldInv, WaiterIsInside, StepInv, schedvars
<1>11. ASSUME PollGoesOn PROVE (HoldInv /\ WaiterIsInside)'
  BY <1>0, <1>11 DEF PollGoesOn, Registered, Revents, At, Goto, HoldInv, WaiterIsInside, StepInv, schedvars
<1>12. ASSUME TtyInterrupted PROVE (HoldInv /\ WaiterIsInside)'
  BY <1>0, <1>12 DEF TtyInterrupted, At, Return, Goto, HoldInv, WaiterIsInside, StepInv, schedvars
<1>13. ASSUME TtyReset PROVE (HoldInv /\ WaiterIsInside)'
  <2>1. /\ tty'.buffer = << >> /\ tty'.task = tty.task
        /\ UNCHANGED <<pending, socket, rtc, wants, left, sleepq>>
    BY <1>0, <1>13 DEF TtyReset
  <2> QED BY <1>0, <1>13, <2>1 DEF TtyReset, At, Return, Goto, HoldInv, WaiterIsInside
<1>14. ASSUME UdpInterrupted PROVE (HoldInv /\ WaiterIsInside)'
  BY <1>0, <1>14 DEF UdpInterrupted, At, Return, Goto, HoldInv, WaiterIsInside, StepInv, schedvars
<1>15. ASSUME RtcEnds PROVE (HoldInv /\ WaiterIsInside)'
  BY <1>0, <1>15 DEF RtcEnds, At, Return, Goto, HoldInv, WaiterIsInside, StepInv, schedvars
<1>16. ASSUME NapEnds PROVE (HoldInv /\ WaiterIsInside)'
  BY <1>0, <1>16 DEF NapEnds, At, Return, Goto, HoldInv, WaiterIsInside, StepInv, schedvars
<1>17. ASSUME PollEnds PROVE (HoldInv /\ WaiterIsInside)'
  BY <1>0, <1>17 DEF PollEnds, Cleaned, At, Return, Goto, HoldInv, WaiterIsInside, StepInv, schedvars
<1>18. ASSUME UdpTake PROVE (HoldInv /\ WaiterIsInside)'
  <2>1. PICK n \in Nat : UdpTaken(n)
    BY <1>0, <1>18, UdpTakeFacts
  <2>2. socket'.task = socket.task /\ socket'.data = SubSeq(socket.data, n + 1, Len(socket.data))
    BY <1>0, <2>1 DEF UdpTaken
  <2> QED BY <1>0, <1>18, <2>2, SMTT(30) DEF UdpTake, At, Return, Goto, HoldInv, WaiterIsInside
<1>19. ASSUME TtyTake PROVE (HoldInv /\ WaiterIsInside)'
  <2>1. PICK n \in Nat : Taken(n)
    BY <1>0, <1>19, TakeFacts
  <2>2. /\ tty'.task = NoTask /\ tty'.buffer = tty.buffer /\ tty'.canonical = tty.canonical
        /\ \/ Goto("reset") /\ UNCHANGED <<schedvars, doing, state>>
           \/ Return
        /\ current \in Tasks /\ doing[current] = "tty" /\ step[current] = "check"
        /\ UNCHANGED <<pending, socket, rtc, wants, left, sleepq>>
    BY <1>0, <1>19, <2>1 DEF Taken, TtyTake, At
  <2>3. CASE Goto("reset") /\ UNCHANGED <<schedvars, doing, state>>
    BY <1>0, <2>2, <2>3 DEF Goto, HoldInv, WaiterIsInside, StepInv
  <2>4. CASE Return
    BY <1>0, <2>2, <2>4 DEF Return, Goto, HoldInv, WaiterIsInside, StepInv
  <2> QED BY <2>2, <2>3, <2>4
<1>20. ASSUME Mark PROVE (HoldInv /\ WaiterIsInside)'
  BY <1>0, <1>20 DEF Mark, Goto, HoldInv, WaiterIsInside, StepInv, schedvars
<1>21. ASSUME Sleep PROVE (HoldInv /\ WaiterIsInside)'
  BY <1>0, <1>21, SuspendFacts DEF Sleep, Goto, HoldInv, WaiterIsInside, StepInv, schedvars
<1>22. ASSUME SetMode PROVE (HoldInv /\ WaiterIsInside)'
  BY <1>0, <1>22 DEF SetMode, HoldInv, WaiterIsInside, StepInv, schedvars
<1>23. ASSUME RtcWrite PROVE (HoldInv /\ WaiterIsInside)'
  BY <1>0, <1>23 DEF RtcWrite, HoldInv, WaiterIsInside, StepInv, schedvars
<1>24. ASSUME NEW c \in {"c", "nl", "bs"}, Key(c) PROVE (HoldInv /\ WaiterIsInside)'
  BY <1>0, <1>24, WakeFacts DEF Key, HoldInv, WaiterIsInside, StepInv, schedvars
<1>25. ASSUME NEW p \in Packets, UdpReceive(p) PROVE (HoldInv /\ WaiterIsInside)'
  BY <1>0, <1>25, WakeFacts DEF UdpReceive, HoldInv, WaiterIsInside, StepInv, schedvars
<1>26. ASSUME Tick PROVE (HoldInv /\ WaiterIsInside)'
  <2> DEFINE due == Due(IF SleepFirst THEN left ELSE left')
             woken == due \union (IF rtc.mod + 1 >= rtc.div THEN {rtc.task} ELSE {})
  <2>1. /\ left' = Elapsed /\ sleepq' = sleepq \ due /\ Wake(woken)
        /\ rtc'.task = rtc.task
        /\ rtc'.passed = (rtc.passed \/ (rtc.mod + 1 >= rtc.div /\ rtc.task # NoTask))
        /\ UNCHANGED <<doing, step, state, pending, tty, socket, wants>>
    BY <1>0, <1>26 DEF Tick
  <2>2. woken \subseteq Tasks \union {NoTask}
    BY <1>0 DEF Due
  <2>3. \A t \in Tasks : left'[t] > 0 => left[t] > 0 /\ t \notin due
    BY <1>0, <2>1, WaitsAssumption DEF Elapsed, Due
  <2> HIDE DEF due, woken
  <2> QED BY <1>0, <2>1, <2>3 DEF HoldInv, WaiterIsInside
<1>27. ASSUME NEW t \in Tasks, Signal(t) PROVE (HoldInv /\ WaiterIsInside)'
  BY <1>0, <1>27, WakeFacts DEF Signal, HoldInv, WaiterIsInside, StepInv, schedvars
<1>28. ASSUME Leave PROVE (HoldInv /\ WaiterIsInside)'
  BY <1>0, <1>28, SuspendFacts, SwapperAssumption DEF Leave, HoldInv, WaiterIsInside, StepInv, schedvars
<1>29. ASSUME SwapperRuns PROVE (HoldInv /\ WaiterIsInside)'
  BY <1>0, <1>29, SuspendFacts, SwapperAssumption DEF SwapperRuns, HoldInv, WaiterIsInside, StepInv, schedvars
<1>30. ASSUME UNCHANGED waitsvars PROVE (HoldInv /\ WaiterIsInside)'
  BY <1>0, <1>30 DEF waitsvars, schedvars, HoldInv, WaiterIsInside, StepInv, schedvars
<1> QED BY <1>1, <1>2, <1>3, <1>4, <1>5, <1>6, <1>7, <1>8, <1>9, <1>10, <1>11, <1>12, <1>13, <1>14, <1>15, <1>16, <1>17, <1>18, <1>19, <1>20, <1>21, <1>22, <1>23, <1>24, <1>25, <1>26, <1>27, <1>28, <1>29, <1>30 DEF WaitsNext, Begin, GoOn

LEMMA StateStep == Races = {} /\ Regular /\ [WaitsNext]_waitsvars => StateInv'
<1> SUFFICES ASSUME Races = {}, Regular, [WaitsNext]_waitsvars PROVE StateInv'
  OBVIOUS
<1>0. /\ WaitsTypeOK /\ ReadyTypeOK /\ StepInv /\ ReadyInv /\ LineInv
      /\ HoldInv /\ WaiterIsInside /\ StateInv /\ SleepInv
      /\ step \in [Tasks -> Steps] /\ doing \in [Tasks -> Calls \union {"out"}]
      /\ tty \in [task : Tasks \union {NoTask}, canonical : Modes,
                  buffer : Seq({"c", "nl"}), start : 0 .. BufferSize]
      /\ socket \in [task : Tasks \union {NoTask}, data : Seq(Nat)]
      /\ rtc \in [task : Tasks \union {NoTask}, mod : Nat, div : RtcDivisor, passed : BOOLEAN]
      /\ left \in [Tasks -> -1 .. MaxNap] /\ wants \in [Tasks -> SUBSET {"tty", "udp"}]
      /\ state \in [Tasks -> {"RUNNING", "INTERRUPTIBLE", "UNINTERRUPTIBLE"}]
      /\ sleepq \subseteq Tasks /\ pending \subseteq Tasks /\ NoTask \notin Tasks \union {Swapper}
  BY WaitsAssumption DEF Regular, StreamInv, StepInv, WaitInv, WaitsTypeOK, Steps
<1>1. ASSUME TtyRead PROVE StateInv'
  BY <1>0, <1>1 DEF TtyRead, Enter, Goto, StateInv, StepInv, schedvars
<1>2. ASSUME UdpRead PROVE StateInv'
  BY <1>0, <1>2 DEF UdpRead, Enter, Goto, StateInv, StepInv, schedvars
<1>3. ASSUME RtcRead PROVE StateInv'
  BY <1>0, <1>3 DEF RtcRead, Enter, Goto, StateInv, StepInv, schedvars
<1>4. ASSUME Nanosleep PROVE StateInv'
  BY <1>0, <1>4 DEF Nanosleep, Enter, Goto, StateInv, StepInv, schedvars
<1>5. ASSUME Poll PROVE StateInv'
  BY <1>0, <1>5 DEF Poll, Enter, Goto, StateInv, StepInv, schedvars
<1>6. ASSUME TtyWait PROVE StateInv'
  BY <1>0, <1>6 DEF TtyWait, At, Goto, StateInv, StepInv, schedvars
<1>7. ASSUME UdpWait PROVE StateInv'
  BY <1>0, <1>7 DEF UdpWait, At, Goto, StateInv, StepInv, schedvars
<1>8. ASSUME RtcWait PROVE StateInv'
  BY <1>0, <1>8 DEF RtcWait, At, Goto, StateInv, StepInv, schedvars
<1>9. ASSUME NapGoesOn PROVE StateInv'
  BY <1>0, <1>9 DEF NapGoesOn, At, Goto, StateInv, StepInv, schedvars
<1>10. ASSUME UdpReady PROVE StateInv'
  BY <1>0, <1>10 DEF UdpReady, At, Goto, StateInv, StepInv, schedvars
<1>11. ASSUME PollGoesOn PROVE StateInv'
  BY <1>0, <1>11 DEF PollGoesOn, Registered, Revents, At, Goto, StateInv, StepInv, schedvars
<1>12. ASSUME TtyInterrupted PROVE StateInv'
  BY <1>0, <1>12 DEF TtyInterrupted, At, Return, Goto, StateInv, StepInv, schedvars
<1>13. ASSUME TtyReset PROVE StateInv'
  BY <1>0, <1>13 DEF TtyReset, At, Return, Goto, StateInv, StepInv, schedvars
<1>14. ASSUME UdpInterrupted PROVE StateInv'
  BY <1>0, <1>14 DEF UdpInterrupted, At, Return, Goto, StateInv, StepInv, schedvars
<1>15. ASSUME RtcEnds PROVE StateInv'
  BY <1>0, <1>15 DEF RtcEnds, At, Return, Goto, StateInv, StepInv, schedvars
<1>16. ASSUME NapEnds PROVE StateInv'
  BY <1>0, <1>16 DEF NapEnds, At, Return, Goto, StateInv, StepInv, schedvars
<1>17. ASSUME PollEnds PROVE StateInv'
  BY <1>0, <1>17 DEF PollEnds, Cleaned, At, Return, Goto, StateInv, StepInv, schedvars
<1>18. ASSUME UdpTake PROVE StateInv'
  BY <1>0, <1>18 DEF UdpTake, At, Return, Goto, StateInv, StepInv, schedvars
<1>19. ASSUME TtyTake PROVE StateInv'
  <2>1. PICK n \in Nat : Taken(n)
    BY <1>0, <1>19, TakeFacts
  <2>2. doing[current] = "tty"
    BY <1>19 DEF TtyTake, At
  <2>3. CASE Goto("reset") /\ UNCHANGED <<schedvars, doing, state>>
    BY <1>0, <2>2, <2>3 DEF Goto, StateInv, StepInv, schedvars
  <2>4. CASE Return
    BY <1>0, <2>2, <2>4 DEF Return, Goto, StateInv, StepInv, schedvars
  <2> QED BY <2>1, <2>3, <2>4 DEF Taken
<1>20. ASSUME Mark PROVE StateInv'
  BY <1>0, <1>20 DEF Mark, Goto, StateInv, StepInv, schedvars
<1>21. ASSUME Sleep PROVE StateInv'
  BY <1>0, <1>21, SuspendFacts DEF Sleep, Goto, StateInv, StepInv, schedvars
<1>22. ASSUME SetMode PROVE StateInv'
  BY <1>0, <1>22 DEF SetMode, StateInv, StepInv, schedvars
<1>23. ASSUME RtcWrite PROVE StateInv'
  BY <1>0, <1>23 DEF RtcWrite, StateInv, StepInv, schedvars
<1>24. ASSUME NEW c \in {"c", "nl", "bs"}, Key(c) PROVE StateInv'
  BY <1>0, <1>24, WakeFacts DEF Key, StateInv, StepInv, schedvars
<1>25. ASSUME NEW p \in Packets, UdpReceive(p) PROVE StateInv'
  BY <1>0, <1>25, WakeFacts DEF UdpReceive, StateInv, StepInv, schedvars
<1>26. ASSUME Tick PROVE StateInv'
  <2> DEFINE due == Due(IF SleepFirst THEN left ELSE left')
             woken == due \union (IF rtc.mod + 1 >= rtc.div THEN {rtc.task} ELSE {})
  <2>1. /\ left' = Elapsed /\ sleepq' = sleepq \ due /\ Wake(woken)
        /\ rtc'.task = rtc.task
        /\ rtc'.passed = (rtc.passed \/ (rtc.mod + 1 >= rtc.div /\ rtc.task # NoTask))
        /\ UNCHANGED <<doing, step, state, pending, tty, socket, wants>>
    BY <1>0, <1>26 DEF Tick
  <2>2. woken \subseteq Tasks \union {NoTask}
    BY <1>0 DEF Due
  <2> HIDE DEF due, woken
  <2> QED BY <1>0, <2>1, <2>2, WakeFacts DEF StateInv
<1>27. ASSUME NEW t \in Tasks, Signal(t) PROVE StateInv'
  BY <1>0, <1>27, WakeFacts DEF Signal, StateInv, StepInv, schedvars
<1>28. ASSUME Leave PROVE StateInv'
  BY <1>0, <1>28, SuspendFacts, SwapperAssumption DEF Leave, StateInv, StepInv, schedvars
<1>29. ASSUME SwapperRuns PROVE StateInv'
  BY <1>0, <1>29, SuspendFacts, SwapperAssumption DEF SwapperRuns, StateInv, StepInv, schedvars
<1>30. ASSUME UNCHANGED waitsvars PROVE StateInv'
  BY <1>0, <1>30 DEF waitsvars, schedvars, StateInv, StepInv, schedvars
<1> QED BY <1>1, <1>2, <1>3, <1>4, <1>5, <1>6, <1>7, <1>8, <1>9, <1>10, <1>11, <1>12, <1>13, <1>14, <1>15, <1>16, <1>17, <1>18, <1>19, <1>20, <1>21, <1>22, <1>23, <1>24, <1>25, <1>26, <1>27, <1>28, <1>29, <1>30 DEF WaitsNext, Begin, GoOn

LEMMA SleepStep == Races = {} /\ Regular /\ [WaitsNext]_waitsvars => SleepInv'
<1> SUFFICES ASSUME Races = {}, Regular, [WaitsNext]_waitsvars PROVE SleepInv'
  OBVIOUS
<1>0. /\ WaitsTypeOK /\ ReadyTypeOK /\ StepInv /\ ReadyInv /\ LineInv
      /\ HoldInv /\ WaiterIsInside /\ StateInv /\ SleepInv
      /\ step \in [Tasks -> Steps] /\ doing \in [Tasks -> Calls \union {"out"}]
      /\ tty \in [task : Tasks \union {NoTask}, canonical : Modes,
                  buffer : Seq({"c", "nl"}), start : 0 .. BufferSize]
      /\ socket \in [task : Tasks \union {NoTask}, data : Seq(Nat)]
      /\ rtc \in [task : Tasks \union {NoTask}, mod : Nat, div : RtcDivisor, passed : BOOLEAN]
      /\ left \in [Tasks -> -1 .. MaxNap] /\ wants \in [Tasks -> SUBSET {"tty", "udp"}]
      /\ state \in [Tasks -> {"RUNNING", "INTERRUPTIBLE", "UNINTERRUPTIBLE"}]
      /\ sleepq \subseteq Tasks /\ pending \subseteq Tasks /\ NoTask \notin Tasks \union {Swapper}
  BY WaitsAssumption DEF Regular, StreamInv, StepInv, WaitInv, WaitsTypeOK, Steps
<1>1. ASSUME TtyRead PROVE SleepInv'
  BY <1>0, <1>1 DEF TtyRead, Enter, Goto, SleepInv, Dozing, HasReason, StepInv, HoldInv, WaiterIsInside, schedvars
<1>2. ASSUME UdpRead PROVE SleepInv'
  BY <1>0, <1>2 DEF UdpRead, Enter, Goto, SleepInv, Dozing, HasReason, StepInv, HoldInv, WaiterIsInside, schedvars
<1>3. ASSUME RtcRead PROVE SleepInv'
  BY <1>0, <1>3 DEF RtcRead, Enter, Goto, SleepInv, Dozing, HasReason, StepInv, HoldInv, WaiterIsInside, schedvars
<1>4. ASSUME Nanosleep PROVE SleepInv'
  BY <1>0, <1>4 DEF Nanosleep, Enter, Goto, SleepInv, Dozing, HasReason, StepInv, HoldInv, WaiterIsInside, schedvars
<1>5. ASSUME Poll PROVE SleepInv'
  BY <1>0, <1>5 DEF Poll, Enter, Goto, SleepInv, Dozing, HasReason, StepInv, HoldInv, WaiterIsInside, schedvars
<1>6. ASSUME TtyWait PROVE SleepInv'
  BY <1>0, <1>6 DEF TtyWait, At, Goto, SleepInv, Dozing, HasReason, StepInv, HoldInv, WaiterIsInside, schedvars
<1>7. ASSUME UdpWait PROVE SleepInv'
  BY <1>0, <1>7 DEF UdpWait, At, Goto, SleepInv, Dozing, HasReason, StepInv, HoldInv, WaiterIsInside, schedvars
<1>8. ASSUME RtcWait PROVE SleepInv'
  BY <1>0, <1>8 DEF RtcWait, At, Goto, SleepInv, Dozing, HasReason, StepInv, HoldInv, WaiterIsInside, schedvars
<1>9. ASSUME NapGoesOn PROVE SleepInv'
  BY <1>0, <1>9 DEF NapGoesOn, At, Goto, SleepInv, Dozing, HasReason, StepInv, HoldInv, WaiterIsInside, schedvars
<1>10. ASSUME UdpReady PROVE SleepInv'
  BY <1>0, <1>10 DEF UdpReady, At, Goto, SleepInv, Dozing, HasReason, StepInv, HoldInv, WaiterIsInside, schedvars
<1>11. ASSUME PollGoesOn PROVE SleepInv'
  BY <1>0, <1>11 DEF PollGoesOn, Registered, Revents, At, Goto, SleepInv, Dozing, HasReason, StepInv, HoldInv, WaiterIsInside, schedvars
<1>12. ASSUME TtyInterrupted PROVE SleepInv'
  BY <1>0, <1>12 DEF TtyInterrupted, At, Return, Goto, SleepInv, Dozing, HasReason, StepInv, HoldInv, WaiterIsInside, schedvars
<1>13. ASSUME TtyReset PROVE SleepInv'
  <2>1. /\ tty'.buffer = << >> /\ tty'.task = tty.task
        /\ UNCHANGED <<pending, socket, rtc, wants, left, sleepq>>
    BY <1>0, <1>13 DEF TtyReset
  <2> QED BY <1>0, <1>13, <2>1
        DEF TtyReset, At, Return, Goto, SleepInv, Dozing, HasReason, StepInv, ShouldRead, schedvars
<1>14. ASSUME UdpInterrupted PROVE SleepInv'
  BY <1>0, <1>14 DEF UdpInterrupted, At, Return, Goto, SleepInv, Dozing, HasReason, StepInv, HoldInv, WaiterIsInside, schedvars
<1>15. ASSUME RtcEnds PROVE SleepInv'
  BY <1>0, <1>15 DEF RtcEnds, At, Return, Goto, SleepInv, Dozing, HasReason, StepInv, HoldInv, WaiterIsInside, schedvars
<1>16. ASSUME NapEnds PROVE SleepInv'
  BY <1>0, <1>16 DEF NapEnds, At, Return, Goto, SleepInv, Dozing, HasReason, StepInv, HoldInv, WaiterIsInside, schedvars
<1>17. ASSUME PollEnds PROVE SleepInv'
  BY <1>0, <1>17 DEF PollEnds, Cleaned, At, Return, Goto, SleepInv, Dozing, HasReason, StepInv, HoldInv, WaiterIsInside, schedvars
<1>18. ASSUME UdpTake PROVE SleepInv'
  <2>1. PICK n \in Nat : UdpTaken(n)
    BY <1>0, <1>18, UdpTakeFacts
  <2>2. socket'.task = socket.task /\ socket'.data = SubSeq(socket.data, n + 1, Len(socket.data))
    BY <1>0, <2>1 DEF UdpTaken
  <2>3. socket.data = << >> => socket'.data = << >>
    <3>1. ASSUME socket.data = << >> PROVE Len(socket.data) = 0 /\ n + 1 \in Int
      BY <3>1
    <3> QED BY <2>2, <3>1, SubSeqEmpty
  <2> QED BY <1>0, <1>18, <2>2, <2>3, SMTT(30)
        DEF UdpTake, At, Return, Goto, SleepInv, Dozing, HasReason, StepInv, schedvars
<1>19. ASSUME TtyTake PROVE SleepInv'
  <2>1. PICK n \in Nat : Taken(n)
    BY <1>0, <1>19, TakeFacts
  <2>2. /\ tty'.task = NoTask /\ tty'.buffer = tty.buffer /\ tty'.canonical = tty.canonical
        /\ \/ Goto("reset") /\ UNCHANGED <<schedvars, doing, state>>
           \/ Return
        /\ current \in Tasks /\ doing[current] = "tty" /\ step[current] = "check"
        /\ UNCHANGED <<pending, socket, rtc, wants, left, sleepq>>
    BY <1>0, <1>19, <2>1 DEF Taken, TtyTake, At
  <2> QED BY <1>0, <2>2, SMTT(30)
        DEF Return, Goto, SleepInv, Dozing, HasReason, StepInv, ShouldRead, schedvars
<1>20. ASSUME Mark PROVE SleepInv'
  BY <1>0, <1>20 DEF Mark, Goto, SleepInv, Dozing, HasReason, StepInv, HoldInv, WaiterIsInside, schedvars
<1>21. ASSUME Sleep PROVE SleepInv'
  <2>1. /\ current \in Tasks /\ step[current] = "sleep" /\ Suspend(FALSE, FALSE)
        /\ step' = [step EXCEPT ![current] = "check"]
        /\ UNCHANGED <<doing, pending, tty, socket, rtc, wants, left, sleepq>>
    BY <1>21 DEF Sleep, Goto
  <2>2. \A t \in Tasks : step'[t] = "check"
    BY <1>0, <2>1 DEF StepInv
  <2>3. \A t \in Tasks : Dozing(t)' => Dozing(t)
    BY <1>0, <2>1, <2>2, SuspendFacts DEF Dozing
  <2>4. \A t \in Tasks : HasReason(t) => HasReason(t)'
    BY <2>1 DEF HasReason, ShouldRead
  <2> QED BY <1>0, <2>3, <2>4 DEF SleepInv
<1>22. ASSUME SetMode PROVE SleepInv'
  BY <1>0, <1>22 DEF SetMode, SleepInv, Dozing, HasReason, StepInv, HoldInv, WaiterIsInside, schedvars
<1>23. ASSUME RtcWrite PROVE SleepInv'
  BY <1>0, <1>23 DEF RtcWrite, SleepInv, Dozing, HasReason, StepInv, HoldInv, WaiterIsInside, schedvars
<1>24. ASSUME NEW c \in {"c", "nl", "bs"}, Key(c) PROVE SleepInv'
  <2>1. /\ ~Committed /\ tty'.task = tty.task /\ tty'.canonical = tty.canonical
        /\ UNCHANGED <<doing, step, pending, socket, rtc, wants, left, sleepq>>
    BY <1>0, <1>24 DEF Key
  <2>2. Wake({tty.task}) \/ (UNCHANGED schedvars /\ ~ShouldRead(tty'))
    <3>1. CASE c = "bs"
      <4>1. /\ tty'.buffer = Front(tty.buffer) /\ tty.canonical /\ tty.buffer # << >>
            /\ UNCHANGED schedvars
        BY <1>0, <1>24, <3>1 DEF Key
      <4>2. /\ tty'.buffer \in Seq({"c", "nl"}) /\ Len(tty'.buffer) = Len(tty.buffer) - 1
            /\ \A i \in 1 .. Len(tty.buffer) - 1 : tty'.buffer[i] = tty.buffer[i]
        BY <1>0, <4>1, FrontFacts
      <4>3. ASSUME tty'.buffer # << >> PROVE tty'.buffer[Len(tty'.buffer)] # "nl"
        <5>1. Len(tty.buffer) - 1 \in 1 .. Len(tty.buffer) - 1
          BY <1>0, <4>2, <4>3
        <5>2. \A i \in 1 .. Len(tty.buffer) - 1 : tty.buffer[i] # "nl"
          BY <1>0, <4>1 DEF LineInv
        <5>3. tty'.buffer[Len(tty.buffer) - 1] # "nl"
          BY <4>2, <5>1, <5>2
        <5> QED BY <4>2, <5>3
      <4> QED BY <2>1, <4>1, <4>3 DEF ShouldRead, Last
    <3>2. CASE c # "bs"
      <4>1. /\ tty'.buffer = Append(tty.buffer, c)
            /\ \/ Wake({tty.task})
               \/ UNCHANGED schedvars /\ tty.canonical /\ c # "nl"
        BY <1>0, <1>24, <3>2 DEF Key
      <4>2. tty'.buffer[Len(tty'.buffer)] = c
        <5>1. tty.buffer \in Seq({"c", "nl"}) /\ c \in {"c", "nl"} /\ Len(tty.buffer) \in Nat
          BY <1>0, <3>2
        <5>2. /\ Len(Append(tty.buffer, c)) = Len(tty.buffer) + 1
              /\ Append(tty.buffer, c)[Len(tty.buffer) + 1] = c
          BY <5>1, AppendProperties
        <5> QED BY <4>1, <5>2
      <4>3. ASSUME tty.canonical, c # "nl" PROVE ~ShouldRead(tty')
        BY <2>1, <4>2, <4>3 DEF ShouldRead, Last
      <4> QED BY <4>1, <4>3
    <3> QED BY <3>1, <3>2
  <2>3. CASE Wake({tty.task})
    <3>0. /\ current' = current /\ ready \subseteq ready' /\ noted \subseteq noted'
          /\ \A t \in {tty.task} \intersect Tasks : t \in (IF t = current THEN noted' ELSE ready')
      BY <1>0, <2>3, WakeFacts
    <3>1. \A t \in Tasks : Dozing(t)' => Dozing(t) /\ tty.task # t
      BY <2>1, <3>0 DEF Dozing
    <3>2. \A t \in Tasks : Dozing(t) => step[t] # "reset"
      BY <1>0 DEF Dozing, StepInv
    <3> QED BY <1>0, <2>1, <3>1, <3>2 DEF SleepInv, HasReason, HoldInv
  <2>4. CASE UNCHANGED schedvars /\ ~ShouldRead(tty')
    BY <1>0, <2>1, <2>4, SMTT(30) DEF SleepInv, HasReason, Dozing, ShouldRead, schedvars
  <2> QED BY <2>2, <2>3, <2>4
<1>25. ASSUME NEW p \in Packets, UdpReceive(p) PROVE SleepInv'
  <2>1. /\ socket'.task = socket.task /\ Wake({socket.task})
        /\ UNCHANGED <<doing, step, pending, tty, rtc, wants, left, sleepq>>
    BY <1>0, <1>25 DEF UdpReceive
  <2>2. \A t \in Tasks : Dozing(t)' => Dozing(t) /\ socket.task # t
    BY <1>0, <2>1, WakeFacts, SMTT(30) DEF Dozing
  <2>3. \A t \in Tasks : Dozing(t) => step[t] # "take"
    BY <1>0 DEF Dozing, StepInv
  <2> QED BY <1>0, <2>1, <2>2, <2>3 DEF SleepInv, HasReason, HoldInv, ShouldRead
<1>26. ASSUME Tick PROVE SleepInv'
  <2> DEFINE due == Due(IF SleepFirst THEN left ELSE left')
             woken == due \union (IF rtc.mod + 1 >= rtc.div THEN {rtc.task} ELSE {})
  <2>1. /\ left' = Elapsed /\ sleepq' = sleepq \ due /\ Wake(woken)
        /\ rtc'.task = rtc.task
        /\ rtc'.passed = (rtc.passed \/ (rtc.mod + 1 >= rtc.div /\ rtc.task # NoTask))
        /\ UNCHANGED <<doing, step, state, pending, tty, socket, wants>>
    BY <1>0, <1>26 DEF Tick
  <2>2. woken \subseteq Tasks \union {NoTask}
    BY <1>0 DEF Due
  <2>3. due \subseteq woken /\ (rtc.mod + 1 >= rtc.div => rtc.task \in woken)
    OBVIOUS
  <2> HIDE DEF due, woken
  <2>4. \A t \in Tasks : Dozing(t)' => Dozing(t) /\ t \notin woken
    BY <1>0, <2>1, <2>2, WakeFacts DEF Dozing
  <2>5. \A t \in Tasks : left'[t] # -1 => left[t] # -1
    BY <1>0, <2>1 DEF Elapsed
  <2>6. ASSUME NEW t \in Tasks, Dozing(t)' PROVE HasReason(t)'
    <3>1. HasReason(t) /\ t \notin due /\ (t \in sleepq => t \in sleepq')
      BY <1>0, <2>1, <2>3, <2>4, <2>6 DEF SleepInv
    <3>2. doing[t] = "rtc" => ~rtc'.passed
      <4>1. ASSUME doing[t] = "rtc" PROVE ~rtc.passed /\ ~(rtc.mod + 1 >= rtc.div)
        BY <1>0, <2>3, <2>4, <2>6, <3>1, <4>1 DEF HasReason, HoldInv
      <4> QED BY <2>1, <4>1
    <3> QED BY <2>1, <2>5, <3>1, <3>2 DEF HasReason, ShouldRead
  <2> QED BY <2>6 DEF SleepInv
<1>27. ASSUME NEW t \in Tasks, Signal(t) PROVE SleepInv'
  <2>1. /\ pending' = pending \union {t}
        /\ step[t] # "mark"
        /\ UNCHANGED <<doing, step, state, tty, socket, rtc, wants, left, sleepq>>
        /\ IF state[t] = "INTERRUPTIBLE" THEN Wake({t}) ELSE UNCHANGED schedvars
    BY <1>27 DEF Signal
  <2>2. \A u \in Tasks : Dozing(u)' => Dozing(u)
    BY <1>0, <2>1, WakeFacts DEF Dozing, schedvars
  <2>3. Dozing(t)' => doing[t] \notin Calls \ {"rtc"}
    <3>1. CASE state[t] = "INTERRUPTIBLE"
      BY <1>0, <2>1, <3>1, WakeFacts, SMTT(30) DEF Dozing
    <3>2. CASE state[t] # "INTERRUPTIBLE"
      BY <1>0, <2>1, <2>2, <3>2 DEF Dozing, StateInv, Calls
    <3> QED BY <3>1, <3>2
  <2>4. \A u \in Tasks : doing[u] \in Calls \union {"out"}
    BY <1>0
  <2> QED BY <1>0, <2>1, <2>2, <2>3, <2>4 DEF SleepInv, HasReason, ShouldRead, Calls
<1>28. ASSUME Leave PROVE SleepInv'
  BY <1>0, <1>28, SuspendFacts, SwapperAssumption DEF Leave, SleepInv, Dozing, HasReason, StepInv, HoldInv, WaiterIsInside, schedvars
<1>29. ASSUME SwapperRuns PROVE SleepInv'
  <2>1. /\ current = Swapper /\ Suspend(TRUE, FALSE)
        /\ UNCHANGED <<doing, step, pending, tty, socket, rtc, wants, left, sleepq>>
    BY <1>29 DEF SwapperRuns
  <2>2. \A t \in Tasks : step[t] = "check"
    BY <1>0, <2>1, SwapperAssumption DEF StepInv
  <2>3. \A t \in Tasks : Dozing(t)' => Dozing(t)
    BY <1>0, <2>1, <2>2, SuspendFacts DEF Dozing
  <2>4. \A t \in Tasks : HasReason(t) => HasReason(t)'
    BY <2>1 DEF HasReason, ShouldRead
  <2> QED BY <1>0, <2>3, <2>4 DEF SleepInv
<1>30. ASSUME UNCHANGED waitsvars PROVE SleepInv'
  BY <1>0, <1>30 DEF waitsvars, schedvars, SleepInv, Dozing, HasReason, StepInv, HoldInv, WaiterIsInside, schedvars
<1> QED BY <1>1, <1>2, <1>3, <1>4, <1>5, <1>6, <1>7, <1>8, <1>9, <1>10, <1>11, <1>12, <1>13, <1>14, <1>15, <1>16, <1>17, <1>18, <1>19, <1>20, <1>21, <1>22, <1>23, <1>24, <1>25, <1>26, <1>27, <1>28, <1>29, <1>30 DEF WaitsNext, Begin, GoOn

\* No wakeup is lost and none is stale, for every set of tasks and whatever calls
\* they make: who sleeps in tty_read, udp_read, rtc_read, nanosleep or poll is
\* registered with what it waits for, which has not come, and who is registered
\* is inside a call.
THEOREM WaitersAlwaysMatch ==
  ASSUME Races = {}
  PROVE  WaitsSpec => []WaitersMatch
<1>1. Regular /\ [WaitsNext]_waitsvars => Regular'
  BY TypeStep, StepStep, LineStep, HoldStep, StateStep, SleepStep
     DEF Regular, StreamInv, WaitInv, LineQuiet
<1>2. WaitsInit => Regular
  BY InitStream, InitWait DEF Regular
<1> QED BY <1>1, <1>2, WaitMeans, PTL DEF WaitsSpec

=============================================================================
