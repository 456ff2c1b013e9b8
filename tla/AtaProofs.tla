----------------------------- MODULE AtaProofs -----------------------------
(***************************************************************************)
(* Theorems about the mutex, for every set of tasks, both kinds of lock,   *)
(* and any wakes and signals, and about reading a disk with it, for every  *)
(* set of readers, every size of the disk and all requests.  Those about   *)
(* the mutex need nothing about the order in which the scheduler runs the  *)
(* ready tasks.  The driver uses the mutex as Mutex assumes, in_service is *)
(* the owner, the cache is true, and, as long as no drive is opened        *)
(* meanwhile, no reader sleeps through the drive's answer.                 *)
(***************************************************************************)
EXTENDS Ata, QueueProofs, TLAPS

(***************************************************************************)
(* The mutex                                                               *)
(***************************************************************************)
MutexInv == MutexTypeOK /\ QueueIsInside /\ OwnerIsFront

-----------------------------------------------------------------------------
(* The scheduler's part. *)

\* schedule() and wake_up_process() keep the types of the ready set.
LEMMA SuspendTypes ==
  ASSUME ReadyTypeOK, NEW runs, NEW stops, Suspend(runs, stops)
  PROVE  ReadyTypeOK'
<1> DEFINE stays == current \in Tasks /\ ~stops /\ (runs \/ current \in noted)
           r     == IF stays THEN ready \union {current} ELSE ready
<1>1. r \subseteq Tasks
  BY DEF ReadyTypeOK
<1>2. /\ current' \in (IF r = {} THEN {Swapper} ELSE r)
      /\ ready' = r \ {current'}
      /\ noted' \subseteq noted
  BY DEF Suspend
<1> HIDE DEF r
<1> QED BY <1>1, <1>2 DEF ReadyTypeOK

LEMMA WakeUpTypes ==
  ASSUME ReadyTypeOK, NEW t \in Tasks, WakeUp(t)
  PROVE  ReadyTypeOK'
BY DEF ReadyTypeOK, WakeUp

-----------------------------------------------------------------------------
(* The queue's part. *)

\* A step of a task outside the queue's business: the queue stays, and no task
\* enters or leaves the mutex or gets the lock.
LEMMA QueueKept ==
  ASSUME MutexInv, UNCHANGED queue,
         \A t \in Tasks : pc'[t] # "out" <=> pc[t] # "out",
         \A t \in Tasks : pc'[t] \in {"hold", "away"} => pc[t] \in {"hold", "away"}
  PROVE  QueueIsInside' /\ OwnerIsFront'
BY DEF MutexInv, QueueIsInside, OwnerIsFront

\* The front of the queue leaves it: mutex_unlock's list_pop_front.
LEMMA FrontLeaves ==
  ASSUME MutexInv, NEW c \in Tasks, pc[c] = "hold",
         queue' = Tail(queue), pc' = [pc EXCEPT ![c] = "out"]
  PROVE  queue' \in Seq(Tasks) /\ QueueIsInside' /\ OwnerIsFront'
<1>1. queue \in Seq(Tasks) /\ queue # <<>> /\ Head(queue) = c /\ NoDuplicates(queue)
  BY DEF MutexInv, MutexTypeOK, OwnerIsFront, QueueIsInside
<1>2. /\ Tail(queue) \in Seq(Tasks)
      /\ Contents(queue) = Contents(Tail(queue)) \union {c}
      /\ NoDuplicates(Tail(queue)) /\ c \notin Contents(Tail(queue))
  BY <1>1, TailFacts
<1>3. pc \in [Tasks -> {"out", "check", "sleep", "hold", "away"}]
  BY DEF MutexInv, MutexTypeOK
<1>4. Contents(Tail(queue)) = {t \in Tasks : pc'[t] # "out"}
  BY <1>2, <1>3 DEF MutexInv, QueueIsInside
<1>5. \A t \in Tasks : pc'[t] \notin {"hold", "away"}
  BY <1>1, <1>3 DEF MutexInv, OwnerIsFront
<1> QED BY <1>2, <1>4, <1>5 DEF QueueIsInside, OwnerIsFront

\* A task that gives up leaves from wherever it is in the queue: list_remove.
LEMMA WaiterLeaves ==
  ASSUME MutexInv, NEW c \in Tasks, pc[c] = "check",
         queue' = Without(queue, c), pc' = [pc EXCEPT ![c] = "out"]
  PROVE  queue' \in Seq(Tasks) /\ QueueIsInside' /\ OwnerIsFront'
<1>1. /\ queue \in Seq(Tasks) /\ NoDuplicates(queue) /\ c \in Contents(queue)
      /\ pc \in [Tasks -> {"out", "check", "sleep", "hold", "away"}]
  BY DEF MutexInv, MutexTypeOK, QueueIsInside
<1>2. /\ Without(queue, c) \in Seq(Tasks)
      /\ Contents(Without(queue, c)) = Contents(queue) \ {c}
      /\ NoDuplicates(Without(queue, c))
      /\ Head(queue) # c =>
           Without(queue, c) # <<>> /\ Head(Without(queue, c)) = Head(queue)
  BY <1>1, WithoutFacts
<1>3. QueueIsInside'
  BY <1>1, <1>2 DEF MutexInv, QueueIsInside
<1>4. OwnerIsFront'
  <2> SUFFICES ASSUME NEW t \in Tasks, pc'[t] \in {"hold", "away"}
               PROVE  queue' # <<>> /\ Head(queue') = t
    BY DEF OwnerIsFront
  <2>1. t # c /\ pc[t] \in {"hold", "away"}
    BY <1>1
  <2>2. Head(queue) = t
    BY <2>1 DEF MutexInv, OwnerIsFront
  <2> QED BY <1>2, <2>1, <2>2
<1> QED BY <1>2, <1>3, <1>4

-----------------------------------------------------------------------------
LEMMA MutexInvInit == MutexInit => MutexInv
<1> SUFFICES ASSUME MutexInit PROVE MutexInv
  OBVIOUS
<1>1. queue = <<>> /\ <<>> \in Seq(Tasks) /\ Len(<<>>) = 0
  BY DEF MutexInit
<1>2. Contents(queue) = {} /\ NoDuplicates(queue)
  BY <1>1 DEF Contents, NoDuplicates
<1>3. ReadyTypeOK
  BY DEF MutexInit, ReadyInit, ReadyTypeOK
<1>4. MutexTypeOK
  BY <1>1, <1>3 DEF MutexInit, MutexTypeOK
<1> QED BY <1>2, <1>4 DEF MutexInit, MutexInv, QueueIsInside, OwnerIsFront

LEMMA MutexInvStep == MutexInv /\ [MutexNext]_mutexvars => MutexInv'
<1> SUFFICES ASSUME MutexInv, [MutexNext]_mutexvars PROVE MutexInv'
  OBVIOUS
<1> USE DEF MutexInv
<1>1. CASE Lock
  <2>1. /\ current \in Tasks /\ pc[current] = "out"
        /\ queue' = Append(queue, current)
        /\ pc' = [pc EXCEPT ![current] = "check"]
        /\ UNCHANGED <<current, ready, noted, pending>>
        /\ \E how \in {"UNINTERRUPTIBLE", "INTERRUPTIBLE"} :
             state' = [state EXCEPT ![current] = how]
    BY <1>1 DEF Lock, Enqueue
  <2>2. /\ Append(queue, current) \in Seq(Tasks)
        /\ Append(queue, current) # <<>>
        /\ Contents(Append(queue, current)) = Contents(queue) \union {current}
        /\ NoDuplicates(Append(queue, current))
    BY <2>1, AppendFacts DEF MutexTypeOK, QueueIsInside
  <2>3. MutexTypeOK'
    BY <2>1, <2>2 DEF MutexTypeOK, ReadyTypeOK
  <2>4. QueueIsInside'
    BY <2>1, <2>2 DEF MutexTypeOK, QueueIsInside
  <2>5. OwnerIsFront'
    <3> SUFFICES ASSUME NEW t \in Tasks, pc'[t] \in {"hold", "away"}
                 PROVE  queue' # <<>> /\ Head(queue') = t
      BY DEF OwnerIsFront
    <3>1. queue # <<>> /\ Head(queue) = t
      BY <2>1 DEF MutexTypeOK, OwnerIsFront
    <3>2. Head(Append(queue, current)) = Head(queue)
      BY <2>1, <3>1 DEF MutexTypeOK
    <3> QED BY <2>1, <2>2, <3>1, <3>2
  <2> QED BY <2>3, <2>4, <2>5
<1>2. CASE Acquire
  <2>1. /\ current \in Tasks /\ pc[current] = "check" /\ Head(queue) = current
        /\ state' = [state EXCEPT ![current] = "RUNNING"]
        /\ pc' = [pc EXCEPT ![current] = "hold"]
        /\ UNCHANGED <<current, ready, noted, queue, pending>>
    BY <1>2 DEF Acquire, AtFront
  <2>2. MutexTypeOK'
    BY <2>1 DEF MutexTypeOK, ReadyTypeOK
  <2>3. QueueIsInside'
    BY <2>1 DEF MutexTypeOK, QueueIsInside
  <2>4. queue # <<>>
    <3>1. current \in Contents(queue)
      BY <2>1 DEF QueueIsInside
    <3>2. ASSUME queue = <<>> PROVE FALSE
      <4>1. Len(queue) = 0
        BY <3>2
      <4> QED BY <3>1, <4>1 DEF Contents
    <3> QED BY <3>2
  <2>5. OwnerIsFront'
    BY <2>1, <2>4 DEF MutexTypeOK, OwnerIsFront
  <2> QED BY <2>2, <2>3, <2>5
<1>3. CASE GiveUp
  <2>1. /\ current \in Tasks /\ pc[current] = "check"
        /\ state' = [state EXCEPT ![current] = "RUNNING"]
        /\ queue' = Without(queue, current)
        /\ pc' = [pc EXCEPT ![current] = "out"]
        /\ UNCHANGED <<current, ready, noted, pending>>
    BY <1>3 DEF GiveUp
  <2>2. queue' \in Seq(Tasks) /\ QueueIsInside' /\ OwnerIsFront'
    BY <2>1, WaiterLeaves
  <2>3. MutexTypeOK'
    BY <2>1, <2>2 DEF MutexTypeOK, ReadyTypeOK
  <2> QED BY <2>2, <2>3
<1>4. CASE MustWait
  <2>1. /\ current \in Tasks /\ pc[current] = "check"
        /\ pc' = [pc EXCEPT ![current] = "sleep"]
        /\ UNCHANGED <<current, ready, noted, queue, state, pending>>
    BY <1>4 DEF MustWait
  <2>2. MutexTypeOK'
    BY <2>1 DEF MutexTypeOK, ReadyTypeOK
  <2>3. QueueIsInside' /\ OwnerIsFront'
    BY <2>1, QueueKept DEF MutexTypeOK
  <2> QED BY <2>2, <2>3
<1>5. CASE Sleep
  <2>1. /\ current \in Tasks /\ pc[current] = "sleep"
        /\ Suspend(FALSE, FALSE)
        /\ pc' = [pc EXCEPT ![current] = "check"]
        /\ UNCHANGED <<queue, state, pending>>
    BY <1>5 DEF Sleep
  <2>2. MutexTypeOK'
    BY <2>1, SuspendTypes DEF MutexTypeOK
  <2>3. QueueIsInside' /\ OwnerIsFront'
    BY <2>1, QueueKept DEF MutexTypeOK
  <2> QED BY <2>2, <2>3
<1>6. CASE Unlock
  <2>1. /\ current \in Tasks /\ pc[current] = "hold"
        /\ queue' = Tail(queue)
        /\ pc' = [pc EXCEPT ![current] = "out"]
        /\ UNCHANGED <<state, pending>>
    BY <1>6 DEF Unlock, PassOn
  <2>2. queue' \in Seq(Tasks) /\ QueueIsInside' /\ OwnerIsFront'
    BY <2>1, FrontLeaves
  <2>3. ReadyTypeOK'
    <3>1. CASE Tail(queue) # <<>>
      <4>1. Head(Tail(queue)) \in Tasks
        BY <2>1, <2>2, <3>1, TailFacts
      <4>2. WakeUp(Head(Tail(queue)))
        BY <1>6, <3>1 DEF Unlock, PassOn
      <4> QED BY <4>1, <4>2, WakeUpTypes DEF MutexTypeOK
    <3>2. CASE Tail(queue) = <<>>
      BY <1>6, <3>2 DEF Unlock, PassOn, schedvars, MutexTypeOK, ReadyTypeOK
    <3> QED BY <3>1, <3>2
  <2>4. MutexTypeOK'
    BY <2>1, <2>2, <2>3 DEF MutexTypeOK
  <2> QED BY <2>2, <2>4
<1>7. CASE HoldAndWait
  <2>1. /\ current \in Tasks /\ pc[current] = "hold"
        /\ Suspend(FALSE, FALSE)
        /\ pc' = [pc EXCEPT ![current] = "away"]
        /\ state' = [state EXCEPT ![current] = "UNINTERRUPTIBLE"]
        /\ UNCHANGED <<queue, pending>>
    BY <1>7 DEF HoldAndWait
  <2>2. MutexTypeOK'
    BY <2>1, SuspendTypes DEF MutexTypeOK
  <2>3. QueueIsInside' /\ OwnerIsFront'
    BY <2>1, QueueKept DEF MutexTypeOK
  <2> QED BY <2>2, <2>3
<1>8. CASE Resume
  <2>1. /\ current \in Tasks /\ pc[current] = "away"
        /\ pc' = [pc EXCEPT ![current] = "hold"]
        /\ state' = [state EXCEPT ![current] = "RUNNING"]
        /\ UNCHANGED <<current, ready, noted, queue, pending>>
    BY <1>8 DEF Resume
  <2>2. MutexTypeOK'
    BY <2>1 DEF MutexTypeOK, ReadyTypeOK
  <2>3. QueueIsInside' /\ OwnerIsFront'
    BY <2>1, QueueKept DEF MutexTypeOK
  <2> QED BY <2>2, <2>3
<1>9. CASE Leave \/ SwapperRuns
  <2>1. /\ \E runs \in BOOLEAN : Suspend(runs, FALSE)
        /\ UNCHANGED <<queue, state, pc>>
        /\ pending' \subseteq pending
    BY <1>9 DEF Leave, SwapperRuns
  <2>2. ReadyTypeOK'
    BY <2>1, SuspendTypes DEF MutexTypeOK
  <2>3. MutexTypeOK'
    BY <2>1, <2>2 DEF MutexTypeOK
  <2>4. QueueIsInside' /\ OwnerIsFront'
    BY <2>1, QueueKept
  <2> QED BY <2>3, <2>4
<1>10. CASE \E t \in Tasks : OtherWake(t) \/ Signal(t)
  <2>1. PICK t \in Tasks : OtherWake(t) \/ Signal(t)
    BY <1>10
  <2>2. /\ WakeUp(t) \/ UNCHANGED schedvars
        /\ UNCHANGED <<queue, state, pc>>
        /\ pending' \subseteq pending \union {t}
    BY <2>1 DEF OtherWake, Signal
  <2>3. ReadyTypeOK'
    <3>1. CASE WakeUp(t)
      BY <3>1, WakeUpTypes DEF MutexTypeOK
    <3>2. CASE UNCHANGED schedvars
      BY <3>2 DEF schedvars, MutexTypeOK, ReadyTypeOK
    <3> QED BY <2>2, <3>1, <3>2
  <2>4. MutexTypeOK'
    BY <2>2, <2>3 DEF MutexTypeOK
  <2>5. QueueIsInside' /\ OwnerIsFront'
    BY <2>2, QueueKept
  <2> QED BY <2>4, <2>5
<1>11. CASE UNCHANGED mutexvars
  BY <1>11 DEF mutexvars, MutexTypeOK, ReadyTypeOK, QueueIsInside, OwnerIsFront
<1> QED BY <1>1, <1>2, <1>3, <1>4, <1>5, <1>6, <1>7, <1>8, <1>9, <1>10, <1>11
           DEF MutexNext

\* A task that mutex_lock_* has let in is at the front of the queue until it
\* unlocks, whatever wakes and signals arrive: mutex_unlock never reaches BUG().
THEOREM OwnerIsAtFront == MutexSpec => []OwnerIsFront
<1>1. MutexInv => OwnerIsFront
  BY DEF MutexInv
<1> QED BY MutexInvInit, MutexInvStep, <1>1, PTL DEF MutexSpec

\* The queue is exactly the tasks inside, so mutex_lock_* never reaches BUG()
\* and nobody who gave up is left behind.
THEOREM QueueHoldsInsiders == MutexSpec => []QueueIsInside
<1>1. MutexInv => QueueIsInside
  BY DEF MutexInv
<1> QED BY MutexInvInit, MutexInvStep, <1>1, PTL DEF MutexSpec

-----------------------------------------------------------------------------
(* The lock is handed on.  A task that is about to call schedule() is the   *)
(* one that runs, since nothing takes the processor from it before.         *)

HandOverInv ==
  /\ FrontWillRun
  /\ \A t \in Tasks : pc[t] = "sleep" => t = current
  /\ \A t \in Tasks : state[t] # "INTERRUPTIBLE"

\* A step that leaves the queue alone, and what each kind of task needs of it:
\* a front that waits keeps its wake.
LEMMA HandOverKept ==
  ASSUME MutexInv, HandOverInv, UNCHANGED queue,
         \A t \in Tasks : pc'[t] = "sleep" => t = current',
         \A t \in Tasks : state'[t] # "INTERRUPTIBLE",
         \A t \in Tasks : t = Head(queue) /\ pc'[t] = "check" => t = current' \/ t \in ready',
         \A t \in Tasks : t = Head(queue) /\ pc'[t] = "sleep" => t \in noted'
  PROVE  HandOverInv'
<1>1. queue # <<>> => Head(queue) \in Tasks
  BY DEF MutexInv, MutexTypeOK
<1>2. FrontWillRun'
  BY <1>1 DEF FrontWillRun
<1> QED BY <1>2 DEF HandOverInv

\* schedule() takes a ready task out of the set only to run it, and keeps the
\* task that calls it when that has been woken meanwhile.
LEMMA SuspendKeeps ==
  ASSUME ReadyTypeOK, NEW runs, Suspend(runs, FALSE)
  PROVE  /\ \A t \in ready : t = current' \/ t \in ready'
         /\ current \in noted => current = current' \/ current \in ready'
         /\ \A t \in noted : t # current => t \in noted'
<1>1. CASE current \in Tasks /\ (runs \/ current \in noted)
  <2>1. /\ current' \in ready \union {current}
        /\ ready' = (ready \union {current}) \ {current'}
        /\ noted' = noted \ {current}
    BY <1>1 DEF Suspend
  <2> QED BY <2>1
<1>2. CASE ~(current \in Tasks /\ (runs \/ current \in noted))
  <2>1. /\ ready' = ready \ {current'}
        /\ noted' = noted
    BY <1>2 DEF Suspend
  <2>2. current \notin noted
    BY <1>2 DEF ReadyTypeOK
  <2> QED BY <2>1, <2>2
<1> QED BY <1>1, <1>2

LEMMA HandOverInit == MutexInit => HandOverInv
<1> SUFFICES ASSUME MutexInit PROVE HandOverInv
  OBVIOUS
<1> QED BY DEF MutexInit, HandOverInv, FrontWillRun

LEMMA HandOverStep ==
  ASSUME Interruptible = FALSE
  PROVE  MutexInv /\ HandOverInv /\ [MutexNext]_mutexvars => HandOverInv'
<1> SUFFICES ASSUME MutexInv, HandOverInv, [MutexNext]_mutexvars
             PROVE  HandOverInv'
  OBVIOUS
<1>a. /\ pc \in [Tasks -> {"out", "check", "sleep", "hold", "away"}]
      /\ state \in [Tasks -> {"RUNNING", "INTERRUPTIBLE", "UNINTERRUPTIBLE"}]
      /\ queue \in Seq(Tasks) /\ ReadyTypeOK
  BY DEF MutexInv, MutexTypeOK
<1>b. /\ \A t \in Tasks : pc[t] = "sleep" => t = current
      /\ \A t \in Tasks : state[t] # "INTERRUPTIBLE"
  BY DEF HandOverInv
<1>c. \A t \in Tasks :
        /\ queue # <<>> /\ t = Head(queue) /\ pc[t] = "check" => t = current \/ t \in ready
        /\ queue # <<>> /\ t = Head(queue) /\ pc[t] = "sleep" => t \in noted
  BY DEF HandOverInv, FrontWillRun
<1>d. \A t \in Tasks : pc[t] # "out" => queue # <<>>
  <2>1. queue = <<>> => Contents(queue) = {}
    BY DEF Contents
  <2> QED BY <2>1 DEF MutexInv, QueueIsInside
<1>1. CASE Lock
  <2>1. /\ current \in Tasks /\ pc[current] = "out"
        /\ queue' = Append(queue, current)
        /\ pc' = [pc EXCEPT ![current] = "check"]
        /\ UNCHANGED <<current, ready, noted, pending>>
        /\ state' = [state EXCEPT ![current] = "UNINTERRUPTIBLE"]
    BY <1>1 DEF Lock, Enqueue
  <2>2. FrontWillRun'
    <3>1. CASE queue = <<>>
      <4>1. Head(queue') = current
        BY <2>1, <3>1
      <4>2. pc'[current] = "check" /\ current' = current
        BY <1>a, <2>1
      <4> QED BY <4>1, <4>2 DEF FrontWillRun
    <3>2. CASE queue # <<>>
      <4>1. Head(queue') = Head(queue) /\ Head(queue) \in Tasks
        BY <1>a, <2>1, <3>2
      <4>2. Head(queue) = current => pc'[Head(queue)] = "check"
        BY <1>a, <2>1
      <4>3. Head(queue) # current => pc'[Head(queue)] = pc[Head(queue)]
        BY <1>a, <2>1, <4>1
      <4> QED BY <2>1, <3>2, <4>1, <4>2, <4>3 DEF HandOverInv, FrontWillRun
    <3> QED BY <3>1, <3>2
  <2> QED BY <1>a, <1>b, <2>1, <2>2 DEF HandOverInv
<1>2. CASE Acquire
  <2>1. /\ current \in Tasks /\ pc[current] = "check"
        /\ state' = [state EXCEPT ![current] = "RUNNING"]
        /\ pc' = [pc EXCEPT ![current] = "hold"]
        /\ UNCHANGED <<current, ready, noted, queue, pending>>
    BY <1>2 DEF Acquire
  <2> QED BY <1>a, <1>b, <1>c, <1>d, <2>1, HandOverKept
<1>3. CASE GiveUp
  BY <1>3, <1>b DEF GiveUp, Interrupted
<1>4. CASE MustWait
  <2>1. /\ current \in Tasks /\ pc[current] = "check" /\ Head(queue) # current
        /\ pc' = [pc EXCEPT ![current] = "sleep"]
        /\ UNCHANGED <<current, ready, noted, queue, state, pending>>
    BY <1>4 DEF MustWait, AtFront
  <2> QED BY <1>a, <1>b, <1>c, <1>d, <2>1, HandOverKept
<1>5. CASE Sleep
  <2>1. /\ current \in Tasks /\ pc[current] = "sleep"
        /\ Suspend(FALSE, FALSE)
        /\ pc' = [pc EXCEPT ![current] = "check"]
        /\ UNCHANGED <<queue, state, pending>>
    BY <1>5 DEF Sleep
  <2>2. /\ \A t \in ready : t = current' \/ t \in ready'
        /\ current \in noted => current = current' \/ current \in ready'
    BY <1>a, <2>1, SuspendKeeps
  <2>3. \A t \in Tasks : pc'[t] # "sleep"
    BY <1>a, <1>b, <2>1
  <2>4. \A t \in Tasks : t # current => pc'[t] = pc[t]
    BY <1>a, <2>1
  <2> QED BY <1>b, <1>c, <1>d, <2>1, <2>2, <2>3, <2>4, HandOverKept
<1>6. CASE Unlock
  <2>1. /\ current \in Tasks /\ pc[current] = "hold"
        /\ queue' = Tail(queue)
        /\ pc' = [pc EXCEPT ![current] = "out"]
        /\ UNCHANGED <<state, pending>>
        /\ IF Tail(queue) # <<>> THEN WakeUp(Head(Tail(queue))) ELSE UNCHANGED schedvars
    BY <1>6 DEF Unlock, PassOn
  <2>2. current' = current
    BY <2>1 DEF WakeUp, schedvars
  <2>3. FrontWillRun'
    <3> SUFFICES ASSUME Tail(queue) # <<>> PROVE FrontWillRun'
      BY <2>1 DEF FrontWillRun
    <3> DEFINE f == Head(Tail(queue))
    <3>1. f \in Tasks /\ WakeUp(f)
      BY <1>a, <1>d, <2>1, TailFacts
    <3>2. f # current
      <4>1. queue # <<>> /\ Head(queue) = current /\ NoDuplicates(queue)
        BY <2>1 DEF MutexInv, OwnerIsFront, QueueIsInside
      <4>2. current \notin Contents(Tail(queue))
        BY <1>a, <4>1, TailFacts
      <4>3. Tail(queue) \in Seq(Tasks)
        BY <1>a, <4>1, TailFacts
      <4>4. f \in Contents(Tail(queue))
        <5> DEFINE q == Tail(queue)
        <5>1. q \in Seq(Tasks) /\ q # <<>> /\ f = Head(q)
          BY <4>3
        <5> HIDE DEF q, f
        <5>2. Contents(q) = Contents(Tail(q)) \union {Head(q)}
          BY <5>1, TailFacts
        <5> QED BY <5>1, <5>2 DEF q
      <4> QED BY <4>2, <4>4
    <3>3. f \in ready'
      BY <3>1, <3>2 DEF WakeUp
    <3>4. pc'[f] # "sleep"
      BY <1>a, <1>b, <2>1, <3>1, <3>2
    <3> QED BY <2>1, <3>3, <3>4 DEF FrontWillRun
  <2> QED BY <1>a, <1>b, <2>1, <2>2, <2>3 DEF HandOverInv
<1>7. CASE HoldAndWait
  <2>1. /\ current \in Tasks /\ pc[current] = "hold"
        /\ Suspend(FALSE, FALSE)
        /\ pc' = [pc EXCEPT ![current] = "away"]
        /\ state' = [state EXCEPT ![current] = "UNINTERRUPTIBLE"]
        /\ UNCHANGED <<queue, pending>>
    BY <1>7 DEF HoldAndWait
  <2>2. \A t \in ready : t = current' \/ t \in ready'
    BY <1>a, <2>1, SuspendKeeps
  <2>3. \A t \in Tasks : pc'[t] # "sleep"
    BY <1>a, <1>b, <2>1
  <2>4. /\ \A t \in Tasks : pc'[t] = "check" => pc[t] = "check" /\ t # current
        /\ \A t \in Tasks : state'[t] # "INTERRUPTIBLE"
    BY <1>a, <1>b, <2>1
  <2> QED BY <1>c, <1>d, <2>1, <2>2, <2>3, <2>4, HandOverKept
<1>8. CASE Resume
  <2>1. /\ current \in Tasks /\ pc[current] = "away"
        /\ pc' = [pc EXCEPT ![current] = "hold"]
        /\ state' = [state EXCEPT ![current] = "RUNNING"]
        /\ UNCHANGED <<current, ready, noted, queue, pending>>
    BY <1>8 DEF Resume
  <2> QED BY <1>a, <1>b, <1>c, <1>d, <2>1, HandOverKept
<1>9. CASE Leave \/ SwapperRuns
  <2>1. /\ current \in Tasks => pc[current] = "out"
        /\ \E runs \in BOOLEAN : Suspend(runs, FALSE)
        /\ UNCHANGED <<queue, state, pc>>
    BY <1>9, SwapperAssumption DEF Leave, SwapperRuns
  <2>2. \A t \in ready : t = current' \/ t \in ready'
    BY <1>a, <2>1, SuspendKeeps
  <2>3. \A t \in Tasks : pc[t] # "sleep"
    BY <1>b, <2>1
  <2> QED BY <1>b, <1>c, <1>d, <2>1, <2>2, <2>3, HandOverKept
<1>10. CASE \E t \in Tasks : OtherWake(t) \/ Signal(t)
  <2>1. /\ \E t \in Tasks : WakeUp(t) \/ UNCHANGED schedvars
        /\ UNCHANGED <<queue, state, pc>>
    BY <1>10 DEF OtherWake, Signal
  <2>2. current' = current /\ ready \subseteq ready' /\ noted \subseteq noted'
    BY <2>1 DEF WakeUp, schedvars
  <2> QED BY <1>b, <1>c, <1>d, <2>1, <2>2, HandOverKept
<1>11. CASE UNCHANGED mutexvars
  BY <1>11 DEF mutexvars, HandOverInv, FrontWillRun
<1> QED BY <1>1, <1>2, <1>3, <1>4, <1>5, <1>6, <1>7, <1>8, <1>9, <1>10, <1>11
           DEF MutexNext

\* When only mutex_lock_uninterruptable is used, as in the kernel, the lock is
\* never lost: a waiter that comes to the front runs, is ready, or has been
\* woken just before it goes to sleep.
THEOREM LockIsHandedOn ==
  ASSUME Interruptible = FALSE
  PROVE  MutexSpec => []FrontWillRun
<1>1. MutexInv /\ HandOverInv /\ [MutexNext]_mutexvars => HandOverInv'
  BY HandOverStep
<1>2. HandOverInv => FrontWillRun
  BY DEF HandOverInv
<1> QED
  BY MutexInvInit, MutexInvStep, HandOverInit, <1>1, <1>2, PTL DEF MutexSpec
(***************************************************************************)
(* The disk                                                                *)
(***************************************************************************)
\* The tasks that mutex_lock_uninterruptable has let in.
Owns(t) == pc[t] \in {"hold", "away"}

\* Where a task is in ata_read and where it is in the mutex belong together; the
\* owner is in_service; and since the kernel is not preempted, a task that holds
\* the lock and does not wait is the one that runs.
StageInv ==
  \A t \in Tasks :
    /\ pc[t] = "hold" => t = current
    /\ Owns(t) <=> in_service = t
    /\ io[t].stage = "none" <=> ~Owns(t)
    /\ pc[t] = "away" => io[t].stage = "block"

\* A reader polls for the sector it has asked for, which the drive has.
CommandInv ==
  \A t \in Tasks :
    /\ io[t].end <= DiskSize
    /\ io[t].stage \in {"poll", "block"} =>
         io[t].pos \in Sectors /\ drive.lba = io[t].pos

AtaInv == AtaTypeOK /\ MutexInv /\ StageInv /\ CommandInv /\ CacheTrue

-----------------------------------------------------------------------------
(* What the steps do to io and pc. *)

LEMMA SectorFacts ==
  /\ DiskSize \in Nat /\ DiskSize > 0 /\ 0 \in Sectors /\ Sectors \subseteq Nat
  /\ \A n \in Nat : n < DiskSize => n \in Sectors
  /\ \A s \in Sectors : s + 1 <= DiskSize /\ s # -1
BY AtaAssumption DEF Sectors

\* Goto moves one reader and leaves what it wants alone.
LEMMA GotoFacts ==
  ASSUME AtaTypeOK, NEW s \in Stages, current \in Tasks, Goto(s)
  PROVE  /\ io' \in [Tasks -> [stage : Stages, pos : Nat, end : Nat]]
         /\ io'[current].stage = s
         /\ \A t \in Tasks : t # current => io'[t] = io[t]
         /\ \A t \in Tasks : io'[t].pos = io[t].pos /\ io'[t].end = io[t].end
BY DEF AtaTypeOK, Goto

\* No two tasks own the lock.
LEMMA OneOwner ==
  ASSUME AtaInv, NEW t \in Tasks, NEW u \in Tasks, Owns(t), Owns(u)
  PROVE  t = u
BY DEF AtaInv, StageInv

-----------------------------------------------------------------------------
(* The refinement: a step of the driver is a step of the mutex. *)

\* Every step of the driver, the drive and the interrupt is a step of Mutex or
\* leaves it alone.  The interrupt wakes in_service, an owner, and Mutex lets
\* anybody wake that one.
LEMMA AtaStepIsMutexStep ==
  AtaInv /\ [AtaNext]_atavars => [MutexNext]_mutexvars
<1> SUFFICES ASSUME AtaInv, [AtaNext]_atavars PROVE [MutexNext]_mutexvars
  OBVIOUS
<1>1. CASE Read
  BY <1>1 DEF Read, MutexNext
<1>2. CASE Claim
  BY <1>2 DEF Claim, MutexNext
<1>3. CASE Hit \/ Command \/ LoopEnds \/ Transfer \/ ReadError \/ NotYet
  BY <1>3 DEF Hit, Command, LoopEnds, Transfer, ReadError, NotYet
<1>4. CASE Block \/ Unblock \/ Done
  BY <1>4 DEF Block, Unblock, Done, MutexNext
<1>5. CASE Waiter \/ Others
  BY <1>5 DEF Waiter, Others, MutexNext
<1>6. CASE Identify \/ DriveDone
  BY <1>6 DEF Identify, DriveDone
<1>7. CASE Handler
  <2>1. CASE in_service = NoTask
    BY <1>7, <2>1 DEF Handler, mutexvars, schedvars
  <2>2. CASE in_service # NoTask
    <3>1. in_service \in Tasks
      BY <2>2 DEF AtaInv, AtaTypeOK
    <3>2. pc[in_service] \notin {"check", "sleep"}
      BY <3>1 DEF AtaInv, StageInv, Owns
    <3>3. OtherWake(in_service)
      BY <1>7, <2>2, <3>2 DEF Handler, OtherWake
    <3> QED BY <3>1, <3>3 DEF MutexNext
  <2> QED BY <2>1, <2>2
<1>8. CASE UNCHANGED atavars
  BY <1>8 DEF atavars
<1> QED BY <1>1, <1>2, <1>3, <1>4, <1>5, <1>6, <1>7, <1>8 DEF AtaNext, Reader

-----------------------------------------------------------------------------
(* The invariant. *)

LEMMA AtaInvInit == AtaInit => AtaInv
<1> SUFFICES ASSUME AtaInit PROVE AtaInv
  OBVIOUS
<1>1. MutexInv
  BY MutexInvInit DEF AtaInit
<1>2. AtaTypeOK
  BY <1>1, SectorFacts DEF AtaInit, AtaTypeOK, MutexInv, Stages
<1>3. StageInv
  BY AtaAssumption DEF AtaInit, MutexInit, StageInv, Owns
<1>4. CommandInv /\ CacheTrue
  BY SectorFacts DEF AtaInit, CommandInv, CacheTrue
<1> QED BY <1>1, <1>2, <1>3, <1>4 DEF AtaInv

\* A step that neither moves a reader nor changes who owns the lock, nor what the
\* drive was told.
LEMMA ReadersKept ==
  ASSUME AtaInv, MutexInv', UNCHANGED <<in_service, disk_cache, io>>,
         drive' \in [lba : Sectors, status : {"idle", "busy", "ready", "error"}],
         irq' \in BOOLEAN, drive'.lba = drive.lba,
         \A t \in Tasks : pc'[t] = "hold" => t = current',
         \A t \in Tasks : Owns(t)' <=> Owns(t),
         \A t \in Tasks : pc'[t] = "away" => io[t].stage = "block"
  PROVE  AtaInv'
<1>1. AtaTypeOK'
  BY DEF AtaInv, AtaTypeOK, MutexInv
<1>2. StageInv'
  BY DEF AtaInv, StageInv
<1>3. CommandInv' /\ CacheTrue'
  BY DEF AtaInv, CommandInv, CacheTrue
<1> QED BY <1>1, <1>2, <1>3 DEF AtaInv

\* A step of the owner inside the loop of ata_read: it holds the lock and keeps it.
LEMMA OwnerMoves ==
  ASSUME AtaInv, NEW s \in Stages \ {"none"}, current \in Tasks,
         io[current].stage # "none", pc[current] = "hold",
         UNCHANGED <<mutexvars, in_service>>, Goto(s),
         drive' \in [lba : Sectors, status : {"idle", "busy", "ready", "error"}],
         irq' \in BOOLEAN,
         disk_cache' \in [Sectors -> Sectors \union {-1}], CacheTrue',
         s \in {"poll", "block"} =>
           io[current].pos \in Sectors /\ drive'.lba = io[current].pos
  PROVE  AtaInv'
<1>1. /\ io' \in [Tasks -> [stage : Stages, pos : Nat, end : Nat]]
      /\ io'[current].stage = s
      /\ \A t \in Tasks : t # current => io'[t] = io[t]
      /\ \A t \in Tasks : io'[t].pos = io[t].pos /\ io'[t].end = io[t].end
  BY GotoFacts DEF AtaInv
<1>2. UNCHANGED <<current, ready, noted, queue, state, pc, pending>>
  BY DEF mutexvars
<1>3. MutexInv'
  BY <1>2 DEF AtaInv, MutexInv, MutexTypeOK, ReadyTypeOK, QueueIsInside, OwnerIsFront
<1>4. AtaTypeOK'
  BY <1>1, <1>3 DEF AtaInv, AtaTypeOK, MutexInv
<1>5. StageInv'
  BY <1>1, <1>2 DEF AtaInv, StageInv, Owns
<1>6. CommandInv'
  <2> SUFFICES ASSUME NEW t \in Tasks
               PROVE  /\ io'[t].end <= DiskSize
                      /\ io'[t].stage \in {"poll", "block"} =>
                           io'[t].pos \in Sectors /\ drive'.lba = io'[t].pos
    BY DEF CommandInv
  <2>1. CASE t = current
    BY <2>1, <1>1 DEF AtaInv, CommandInv
  <2>2. CASE t # current
    <3>1. ~Owns(t)
      BY <2>2, OneOwner DEF Owns
    <3>2. io'[t].stage = "none"
      BY <1>1, <2>2, <3>1 DEF AtaInv, StageInv
    <3> QED BY <1>1, <3>2 DEF AtaInv, CommandInv
  <2> QED BY <2>1, <2>2
<1> QED BY <1>3, <1>4, <1>5, <1>6 DEF AtaInv

LEMMA AtaInvStep == AtaInv /\ [AtaNext]_atavars => AtaInv'
<1> SUFFICES ASSUME AtaInv, [AtaNext]_atavars PROVE AtaInv'
  OBVIOUS
<1>a. MutexInv'
  BY AtaStepIsMutexStep, MutexInvStep DEF AtaInv
<1>b. /\ io \in [Tasks -> [stage : Stages, pos : Nat, end : Nat]]
      /\ drive \in [lba : Sectors, status : {"idle", "busy", "ready", "error"}]
      /\ pc \in [Tasks -> {"out", "check", "sleep", "hold", "away"}]
      /\ disk_cache \in [Sectors -> Sectors \union {-1}] /\ irq \in BOOLEAN
      /\ current \in Tasks \union {Swapper} /\ CacheTrue
  BY DEF AtaInv, AtaTypeOK, MutexTypeOK, ReadyTypeOK
<1>c. ASSUME NEW s \in Stages, At(s), s # "none"
      PROVE  /\ current \in Tasks /\ io[current].stage = s
             /\ s # "block" => pc[current] = "hold"
  BY <1>c DEF At, AtaInv, StageInv, Owns
<1>d. \A t \in Tasks : pc[t] = "hold" => t = current
  BY DEF AtaInv, StageInv
<1>1. CASE Read
  <2>1. /\ current \in Tasks /\ pc[current] = "out"
        /\ pc' = [pc EXCEPT ![current] = "check"]
        /\ UNCHANGED <<current, in_service, disk_cache, drive, irq>>
    BY <1>1 DEF Read, Lock
  <2>2. PICK r \in Requests :
          io' = [io EXCEPT ![current] = [stage |-> "none", pos |-> r[1], end |-> r[2] + 1]]
    BY <1>1 DEF Read
  <2>3. r[1] \in Nat /\ r[2] + 1 \in Nat /\ r[2] + 1 <= DiskSize
    BY AtaAssumption
  <2>4. AtaTypeOK'
    BY <1>a, <1>b, <2>1, <2>2, <2>3 DEF AtaInv, AtaTypeOK, MutexInv, Stages
  <2>5. StageInv'
    BY <1>b, <2>1, <2>2 DEF AtaInv, StageInv, Owns
  <2>6. CommandInv' /\ CacheTrue'
    BY <1>b, <2>1, <2>2, <2>3 DEF AtaInv, CommandInv, CacheTrue
  <2> QED BY <1>a, <2>4, <2>5, <2>6 DEF AtaInv
<1>2. CASE Claim
  <2>1. /\ current \in Tasks /\ pc[current] = "check"
        /\ pc' = [pc EXCEPT ![current] = "hold"]
        /\ UNCHANGED <<current, disk_cache, drive, irq>>
        /\ in_service' = current /\ Goto("loop")
    BY <1>2 DEF Claim, Acquire
  <2>2. /\ io' \in [Tasks -> [stage : Stages, pos : Nat, end : Nat]]
        /\ io'[current].stage = "loop"
        /\ \A t \in Tasks : t # current => io'[t] = io[t]
        /\ \A t \in Tasks : io'[t].pos = io[t].pos /\ io'[t].end = io[t].end
    BY <2>1, GotoFacts DEF AtaInv, Stages
  <2>3. \A t \in Tasks : ~Owns(t) \/ t = current
    \* The owner before would be at the front of the queue, like current.
    <3> SUFFICES ASSUME NEW t \in Tasks, Owns(t) PROVE t = current
      OBVIOUS
    <3>1. Head(queue) = t
      BY DEF AtaInv, MutexInv, OwnerIsFront, Owns
    <3> QED BY <1>2, <3>1 DEF Claim, Acquire, AtFront
  <2>4. AtaTypeOK'
    BY <1>a, <1>b, <2>1, <2>2 DEF AtaInv, AtaTypeOK, MutexInv
  <2>5. StageInv'
    BY <1>b, <2>1, <2>2, <2>3 DEF AtaInv, StageInv, Owns
  <2>6. CommandInv' /\ CacheTrue'
    BY <1>b, <2>1, <2>2 DEF AtaInv, CommandInv, CacheTrue
  <2> QED BY <1>a, <2>4, <2>5, <2>6 DEF AtaInv
<1>3. CASE Hit
  <2>1. /\ current \in Tasks /\ io[current].stage = "loop" /\ pc[current] = "hold"
        /\ io[current].pos < io[current].end
        /\ io' = [io EXCEPT ![current].pos = @ + 1]
        /\ UNCHANGED <<current, ready, noted, queue, state, pc, pending>>
        /\ UNCHANGED <<in_service, disk_cache, drive, irq>>
    BY <1>3, <1>c DEF Hit, Wanted, mutexvars, Stages
  <2>2. /\ io' \in [Tasks -> [stage : Stages, pos : Nat, end : Nat]]
        /\ \A t \in Tasks : io'[t].stage = io[t].stage /\ io'[t].end = io[t].end
        /\ \A t \in Tasks : t # current => io'[t] = io[t]
    BY <1>b, <2>1
  <2>3. AtaTypeOK'
    BY <1>a, <1>b, <2>1, <2>2 DEF AtaInv, AtaTypeOK, MutexInv
  <2>4. StageInv'
    BY <1>b, <2>1, <2>2 DEF AtaInv, StageInv, Owns
  <2>5. CommandInv' /\ CacheTrue'
    BY <1>b, <2>1, <2>2 DEF AtaInv, CommandInv, CacheTrue
  <2> QED BY <1>a, <2>3, <2>4, <2>5 DEF AtaInv
<1>4. CASE Command
  <2>1. /\ current \in Tasks /\ io[current].stage = "loop" /\ pc[current] = "hold"
        /\ io[current].pos < io[current].end
        /\ drive' = [lba |-> io[current].pos, status |-> "busy"]
        /\ Goto("poll")
        /\ UNCHANGED <<mutexvars, in_service, disk_cache, irq>>
    BY <1>4, <1>c DEF Command, Wanted, Stages
  <2>2. io[current].pos \in Sectors
    BY <1>b, <2>1, SectorFacts DEF AtaInv, CommandInv
  <2>3. CacheTrue'
    BY <1>b, <2>1 DEF CacheTrue
  <2> QED BY <1>b, <2>1, <2>2, <2>3, OwnerMoves DEF Stages
<1>5. CASE LoopEnds \/ ReadError
  <2>1. /\ current \in Tasks /\ io[current].stage # "none" /\ pc[current] = "hold"
        /\ Goto("out")
        /\ UNCHANGED <<mutexvars, in_service, disk_cache, drive, irq>>
    BY <1>5, <1>c DEF LoopEnds, ReadError, Stages
  <2>2. CacheTrue'
    BY <1>b, <2>1 DEF CacheTrue
  <2> QED BY <1>b, <2>1, <2>2, OwnerMoves DEF Stages
<1>6. CASE Transfer
  <2>1. /\ current \in Tasks /\ io[current].stage = "poll" /\ pc[current] = "hold"
        /\ UNCHANGED <<mutexvars, in_service, irq>>
    BY <1>6, <1>c DEF Transfer, Stages
  <2>2. io[current].pos \in Sectors /\ drive.lba = io[current].pos
    BY <2>1 DEF AtaInv, CommandInv
  <2>3. CASE /\ disk_cache' = [disk_cache EXCEPT ![Wanted] = drive.lba]
             /\ drive' = [drive EXCEPT !.status = "idle"]
             /\ Goto("loop")
    <3>1. disk_cache' \in [Sectors -> Sectors \union {-1}] /\ CacheTrue'
      BY <1>b, <2>2, <2>3 DEF Wanted, CacheTrue
    <3> QED BY <1>b, <2>1, <2>3, <3>1, OwnerMoves DEF Stages
  <2>4. CASE /\ drive' = [drive EXCEPT !.status = "error"]
             /\ Goto("out")
             /\ UNCHANGED disk_cache
    <3>1. CacheTrue'
      BY <1>b, <2>4 DEF CacheTrue
    <3> QED BY <1>b, <2>1, <2>4, <3>1, OwnerMoves DEF Stages
  <2> QED BY <1>6, <2>3, <2>4 DEF Transfer
<1>7. CASE NotYet
  <2>1. /\ current \in Tasks /\ io[current].stage = "poll" /\ pc[current] = "hold"
        /\ Goto("block")
        /\ UNCHANGED <<mutexvars, in_service, disk_cache, drive, irq>>
    BY <1>7, <1>c DEF NotYet, Stages
  <2>2. CacheTrue'
    BY <1>b, <2>1 DEF CacheTrue
  <2>3. io[current].pos \in Sectors /\ drive.lba = io[current].pos
    BY <2>1 DEF AtaInv, CommandInv
  <2> QED BY <1>b, <2>1, <2>2, <2>3, OwnerMoves DEF Stages
<1>8. CASE Block
  <2>1. /\ current \in Tasks /\ pc[current] = "hold" /\ io[current].stage = "block"
        /\ pc' = [pc EXCEPT ![current] = "away"]
        /\ UNCHANGED <<in_service, disk_cache, io, drive, irq>>
    BY <1>8 DEF Block, HoldAndWait, At, diskvars
  <2>2. /\ \A t \in Tasks : pc'[t] # "hold"
        /\ \A t \in Tasks : Owns(t)' <=> Owns(t)
        /\ \A t \in Tasks : pc'[t] = "away" => io[t].stage = "block"
    BY <1>b, <1>d, <2>1 DEF AtaInv, StageInv, Owns
  <2> QED BY <1>a, <1>b, <2>1, <2>2, ReadersKept
<1>9. CASE Unblock
  <2>1. /\ current \in Tasks /\ pc[current] = "away" /\ io[current].stage = "block"
        /\ pc' = [pc EXCEPT ![current] = "hold"]
        /\ Goto("poll")
        /\ UNCHANGED <<current, in_service, disk_cache, drive, irq>>
    BY <1>9 DEF Unblock, Resume, At
  <2>2. /\ io' \in [Tasks -> [stage : Stages, pos : Nat, end : Nat]]
        /\ io'[current].stage = "poll"
        /\ \A t \in Tasks : t # current => io'[t] = io[t]
        /\ \A t \in Tasks : io'[t].pos = io[t].pos /\ io'[t].end = io[t].end
    BY <2>1, GotoFacts DEF AtaInv, Stages
  <2>3. AtaTypeOK'
    BY <1>a, <1>b, <2>1, <2>2 DEF AtaInv, AtaTypeOK, MutexInv
  <2>4. StageInv'
    BY <1>b, <2>1, <2>2 DEF AtaInv, StageInv, Owns
  <2>5. CommandInv' /\ CacheTrue'
    BY <1>b, <2>1, <2>2 DEF AtaInv, CommandInv, CacheTrue
  <2> QED BY <1>a, <2>3, <2>4, <2>5 DEF AtaInv
<1>10. CASE Done
  <2>1. /\ current \in Tasks /\ pc[current] = "hold" /\ io[current].stage = "out"
        /\ pc' = [pc EXCEPT ![current] = "out"]
        /\ Goto("none") /\ in_service' = NoTask
        /\ UNCHANGED <<disk_cache, drive, irq>>
    BY <1>10 DEF Done, Unlock, At
  <2>2. /\ io' \in [Tasks -> [stage : Stages, pos : Nat, end : Nat]]
        /\ io'[current].stage = "none"
        /\ \A t \in Tasks : t # current => io'[t] = io[t]
        /\ \A t \in Tasks : io'[t].pos = io[t].pos /\ io'[t].end = io[t].end
    BY <2>1, GotoFacts DEF AtaInv, Stages
  <2>3. \A t \in Tasks : t # current => ~Owns(t)
    BY <2>1, OneOwner DEF Owns
  <2>4. AtaTypeOK'
    BY <1>a, <1>b, <2>1, <2>2 DEF AtaInv, AtaTypeOK, MutexInv
  <2>5. StageInv'
    BY <1>b, <2>1, <2>2, <2>3, AtaAssumption DEF AtaInv, StageInv, Owns
  <2>6. CommandInv' /\ CacheTrue'
    BY <1>b, <2>1, <2>2 DEF AtaInv, CommandInv, CacheTrue
  <2> QED BY <1>a, <2>4, <2>5, <2>6 DEF AtaInv
<1>11. CASE Waiter \/ Others
  <2>1. /\ UNCHANGED <<in_service, disk_cache, io, drive, irq>>
        /\ \/ MustWait \/ Sleep \/ Leave \/ SwapperRuns
           \/ \E t \in Tasks : OtherWake(t)
    BY <1>11 DEF Waiter, Others, diskvars
  <2>2. /\ \A t \in Tasks : Owns(t)' <=> Owns(t)
        /\ \A t \in Tasks : pc'[t] = "hold" => pc[t] = "hold"
        /\ \A t \in Tasks : pc'[t] = "away" => pc[t] = "away"
    BY <1>b, <2>1 DEF MustWait, Sleep, Leave, SwapperRuns, OtherWake, Owns
  <2>3. current' = current \/ \A t \in Tasks : pc[t] # "hold"
    <3>1. CASE MustWait
      BY <3>1 DEF MustWait
    <3>2. CASE Sleep \/ Leave \/ SwapperRuns
      BY <1>d, <3>2, SwapperAssumption DEF Sleep, Leave, SwapperRuns
    <3>3. CASE \E t \in Tasks : OtherWake(t)
      BY <3>3 DEF OtherWake, WakeUp
    <3> QED BY <2>1, <3>1, <3>2, <3>3
  <2>4. /\ \A t \in Tasks : pc'[t] = "hold" => t = current'
        /\ \A t \in Tasks : pc'[t] = "away" => io[t].stage = "block"
    BY <1>d, <2>2, <2>3 DEF AtaInv, StageInv
  <2> QED BY <1>a, <1>b, <2>1, <2>2, <2>4, ReadersKept
<1>12. CASE Identify \/ DriveDone \/ Handler
  <2>1. /\ UNCHANGED <<pc, in_service, disk_cache, io>>
        /\ current' = current
        /\ irq' \in BOOLEAN
        /\ \E s \in {"idle", "ready", "error", drive.status} :
             drive' = [drive EXCEPT !.status = s]
    BY <1>12, <1>b DEF Identify, DriveDone, Handler, WakeUp, schedvars, mutexvars
  <2>2. /\ drive' \in [lba : Sectors, status : {"idle", "busy", "ready", "error"}]
        /\ drive'.lba = drive.lba
    BY <1>b, <2>1
  <2>3. /\ \A t \in Tasks : pc'[t] = "hold" => t = current'
        /\ \A t \in Tasks : Owns(t)' <=> Owns(t)
        /\ \A t \in Tasks : pc'[t] = "away" => io[t].stage = "block"
    BY <2>1 DEF AtaInv, StageInv, Owns
  <2> QED BY <1>a, <2>1, <2>2, <2>3, ReadersKept
<1>13. CASE UNCHANGED atavars
  BY <1>a, <1>13 DEF atavars, diskvars, mutexvars, AtaInv, AtaTypeOK, MutexInv,
                     StageInv, Owns, CommandInv, CacheTrue
<1> QED
  BY <1>1, <1>2, <1>3, <1>4, <1>5, <1>6, <1>7, <1>8, <1>9, <1>10, <1>11, <1>12, <1>13
  DEF AtaNext, Reader

\* Each variable of the driver keeps its type.
THEOREM AtaTypeCorrect == AtaSpec => []AtaTypeOK
<1>1. AtaInv => AtaTypeOK
  BY DEF AtaInv
<1> QED BY AtaInvInit, AtaInvStep, <1>1, PTL DEF AtaSpec

\* The interrupt handler wakes the task at the front of the mutex's queue, which
\* is inside ata_read, and nobody when the lock is free.
THEOREM InServiceIsOwner == AtaSpec => []ServesOwner
<1>1. AtaInv => ServesOwner
  <2> SUFFICES ASSUME AtaInv, in_service # NoTask PROVE ServesOwner
    BY DEF ServesOwner
  <2>1. in_service \in Tasks /\ Owns(in_service)
    BY DEF AtaInv, AtaTypeOK, StageInv
  <2>2. queue # <<>> /\ Head(queue) = in_service
    BY <2>1 DEF AtaInv, MutexInv, OwnerIsFront, Owns
  <2>3. io[in_service].stage \in Stages \ {"none"}
    BY <2>1 DEF AtaInv, AtaTypeOK, StageInv
  <2> QED BY <2>2, <2>3 DEF ServesOwner
<1> QED BY AtaInvInit, AtaInvStep, <1>1, PTL DEF AtaSpec

\* disk_cache holds under each number that sector's data or none, whatever the
\* interrupts do, and also when drives are opened during a read.
THEOREM CacheIsTrue == AtaSpec => []CacheTrue
<1>1. AtaInv => CacheTrue
  BY DEF AtaInv
<1> QED BY AtaInvInit, AtaInvStep, <1>1, PTL DEF AtaSpec

\* ata_read uses its mutex as mutex.c expects: what is proved of Mutex holds of
\* the driver.
THEOREM DriverUsesMutex == AtaSpec => UsesMutex
<1>1. AtaInit => MutexInit
  BY DEF AtaInit
<1> QED BY AtaInvInit, AtaInvStep, AtaStepIsMutexStep, <1>1, PTL
           DEF AtaSpec, UsesMutex, MutexSpec

\* No reader waits for the disk's lock for ever because nobody woke it: it is handed
\* on when only mutex_lock_uninterruptable is used.
THEOREM DiskLockIsHandedOn ==
  ASSUME Interruptible = FALSE
  PROVE  AtaSpec => []FrontWillRun
<1>1. MutexSpec => []FrontWillRun
  BY LockIsHandedOn
<1> QED BY DriverUsesMutex, <1>1, PTL DEF UsesMutex

-----------------------------------------------------------------------------
(* The drive's answer is heard, when no drive is opened during a read.  A   *)
(* reader that has seen the drive busy and not yet gone to sleep is the one *)
(* that runs, so an interrupt in that window is noted for it.              *)

AnswerInv ==
  \A t \in Tasks :
    /\ io[t].stage \in {"poll", "block"} => drive.status # "idle"
    /\ io[t].stage = "block" =>
         \/ drive.status = "busy" \/ irq
         \/ pc[t] = "hold" /\ t \in noted
         \/ pc[t] = "away" /\ t \in ready \union {current}

\* A step at which the drive stays as it is and no interrupt is handled, and
\* what it must leave of a reader's wake.
LEMMA AnswerKept ==
  ASSUME AnswerInv, UNCHANGED <<drive, irq>>,
         \A t \in Tasks : io'[t].stage \in {"poll", "block"} => io[t].stage \in {"poll", "block"},
         \A t \in Tasks : io'[t].stage = "block" =>
           \/ io[t].stage = "block" /\ pc[t] = "hold" /\ pc'[t] = "hold"
                /\ (t \in noted => t \in noted')
           \/ io[t].stage = "block" /\ pc[t] = "hold" /\ pc'[t] = "away"
                /\ (t \in noted => t \in ready' \union {current'})
           \/ io[t].stage = "block" /\ pc[t] = "away" /\ pc'[t] = "away"
                /\ (t \in ready \union {current} => t \in ready' \union {current'})
           \/ drive.status = "busy"
  PROVE  AnswerInv'
BY DEF AnswerInv

LEMMA AnswerInit == AtaInit => AnswerInv
<1>1. ASSUME AtaInit, NEW t \in Tasks PROVE io[t].stage = "none"
  <2>1. io[t] = [stage |-> "none", pos |-> 0, end |-> 0]
    BY <1>1 DEF AtaInit
  <2> QED BY <2>1
<1>2. (\A t \in Tasks : io[t].stage = "none") => AnswerInv
  BY DEF AnswerInv
<1> QED BY <1>1, <1>2

LEMMA AnswerStep ==
  ASSUME OpensBusy = FALSE
  PROVE  AtaInv /\ AnswerInv /\ [AtaNext]_atavars => AnswerInv'
<1> SUFFICES ASSUME AtaInv, AnswerInv, [AtaNext]_atavars PROVE AnswerInv'
  OBVIOUS
<1>a. /\ io \in [Tasks -> [stage : Stages, pos : Nat, end : Nat]]
      /\ drive \in [lba : Sectors, status : {"idle", "busy", "ready", "error"}]
      /\ pc \in [Tasks -> {"out", "check", "sleep", "hold", "away"}]
      /\ current \in Tasks \union {Swapper} /\ ReadyTypeOK
  BY DEF AtaInv, AtaTypeOK, MutexTypeOK, ReadyTypeOK
<1>b. \A t \in Tasks :
        /\ pc[t] = "hold" => t = current
        /\ Owns(t) <=> in_service = t
        /\ io[t].stage = "none" <=> ~Owns(t)
        /\ pc[t] = "away" => io[t].stage = "block"
  BY DEF AtaInv, StageInv
<1>c. ASSUME NEW s \in Stages, At(s), s # "none"
      PROVE  \A t \in Tasks : t # current => io[t].stage = "none"
  <2>1. current \in Tasks /\ Owns(current)
    BY <1>b, <1>c DEF At
  <2> QED BY <1>b, <2>1
<1>1. CASE Read \/ Claim
  <2>1. /\ current \in Tasks /\ ~Owns(current)
        /\ \A t \in Tasks : t # current => pc'[t] = pc[t] /\ io'[t] = io[t]
        /\ io'[current].stage \in {"none", "loop"}
        /\ UNCHANGED <<current, ready, noted, drive, irq>>
    BY <1>1, <1>a DEF Read, Claim, Lock, Acquire, Goto, Owns
  <2> QED BY <1>a, <1>b, <2>1, AnswerKept DEF Owns
<1>2. CASE Hit \/ LoopEnds \/ ReadError
  <2>1. /\ current \in Tasks
        /\ \A t \in Tasks : t # current => io'[t] = io[t]
        /\ io'[current].stage \in {"loop", "out"}
        /\ UNCHANGED <<current, ready, noted, pc, drive, irq>>
    BY <1>2, <1>a DEF Hit, LoopEnds, ReadError, At, Goto, mutexvars
  <2> QED BY <1>a, <1>b, <2>1, AnswerKept DEF Owns
<1>3. CASE Command
  <2>1. \A t \in Tasks : t # current => io[t].stage = "none"
    BY <1>3, <1>c DEF Command, Stages
  <2>2. /\ current \in Tasks
        /\ \A t \in Tasks : t # current => io'[t] = io[t]
        /\ drive'.status = "busy"
    BY <1>3, <1>a DEF Command, At, Goto
  <2> QED BY <1>a, <2>1, <2>2 DEF AnswerInv
<1>4. CASE Transfer
  <2>1. \A t \in Tasks : t # current => io[t].stage = "none"
    BY <1>4, <1>c DEF Transfer, Stages
  <2>2. /\ current \in Tasks
        /\ \A t \in Tasks : t # current => io'[t] = io[t]
        /\ io'[current].stage \in {"loop", "out"}
    BY <1>4, <1>a DEF Transfer, At, Goto
  <2> QED BY <2>1, <2>2 DEF AnswerInv
<1>5. CASE NotYet
  <2>1. /\ current \in Tasks /\ io[current].stage = "poll" /\ drive.status \in {"busy", "idle"}
        /\ \A t \in Tasks : t # current => io'[t] = io[t]
        /\ io'[current].stage = "block"
        /\ UNCHANGED <<current, ready, noted, pc, drive, irq>>
    BY <1>5, <1>a DEF NotYet, At, Goto, mutexvars
  <2>2. drive.status = "busy"
    \* ata_identify has not taken the drive's answer.
    BY <2>1 DEF AnswerInv
  <2> QED BY <1>a, <1>b, <2>1, <2>2, AnswerKept
<1>6. CASE Block
  <2>1. /\ current \in Tasks /\ pc[current] = "hold" /\ io[current].stage = "block"
        /\ Suspend(FALSE, FALSE)
        /\ pc' = [pc EXCEPT ![current] = "away"]
        /\ UNCHANGED <<in_service, disk_cache, io, drive, irq>>
    BY <1>6 DEF Block, HoldAndWait, At, diskvars
  <2>2. current \in noted => current = current' \/ current \in ready'
    BY <1>a, <2>1, SuspendKeeps
  <2>3. \A t \in Tasks : t # current => io[t].stage = "none"
    BY <1>6, <1>c DEF Block, Stages
  <2> QED BY <1>a, <2>1, <2>2, <2>3, AnswerKept
<1>7. CASE Unblock
  <2>1. /\ current \in Tasks /\ io[current].stage = "block"
        /\ \A t \in Tasks : t # current => io'[t] = io[t]
        /\ io'[current].stage = "poll"
        /\ UNCHANGED <<drive, irq>>
    BY <1>7, <1>a DEF Unblock, At, Goto
  <2>2. \A t \in Tasks : t # current => io[t].stage = "none"
    BY <1>7, <1>c DEF Unblock, Stages
  <2> QED BY <1>a, <2>1, <2>2, AnswerKept
<1>8. CASE Done
  <2>1. /\ current \in Tasks
        /\ \A t \in Tasks : t # current => io'[t] = io[t]
        /\ io'[current].stage = "none"
        /\ UNCHANGED <<drive, irq>>
    BY <1>8, <1>a DEF Done, At, Goto
  <2>2. \A t \in Tasks : t # current => io[t].stage = "none"
    BY <1>8, <1>c DEF Done, Stages
  <2> QED BY <1>a, <2>1, <2>2, AnswerKept
<1>9. CASE Waiter \/ Others
  <2>1. /\ UNCHANGED <<io, drive, irq>>
        /\ \/ MustWait \/ Sleep \/ Leave \/ SwapperRuns
           \/ \E t \in Tasks : OtherWake(t)
    BY <1>9 DEF Waiter, Others, diskvars
  <2>2. \A t \in Tasks : Owns(t) => pc'[t] = pc[t]
    BY <1>a, <2>1 DEF MustWait, Sleep, Leave, SwapperRuns, OtherWake, Owns
  <2>3. CASE Sleep \/ Leave \/ SwapperRuns
    <3>1. /\ \E runs \in BOOLEAN : Suspend(runs, FALSE)
          /\ current \in Tasks => ~Owns(current)
      BY <2>3, SwapperAssumption DEF Sleep, Leave, SwapperRuns, Owns
    <3>2. /\ \A t \in ready : t = current' \/ t \in ready'
          /\ \A t \in noted : t # current => t \in noted'
      BY <1>a, <3>1, SuspendKeeps
    <3> QED BY <1>a, <1>b, <2>1, <2>2, <3>1, <3>2, AnswerKept DEF Owns
  <2>4. CASE MustWait \/ \E t \in Tasks : OtherWake(t)
    <3>1. current' = current /\ ready \subseteq ready' /\ noted \subseteq noted'
      BY <2>4 DEF MustWait, OtherWake, WakeUp
    <3> QED BY <1>a, <1>b, <2>1, <2>2, <3>1, AnswerKept DEF Owns
  <2> QED BY <2>1, <2>3, <2>4
<1>10. CASE Identify
  <2>1. in_service = NoTask
    BY <1>10 DEF Identify
  <2>2. \A t \in Tasks : io[t].stage = "none"
    BY <1>b, <2>1, AtaAssumption
  <2> QED BY <1>10, <2>2 DEF Identify, AnswerInv
<1>11. CASE DriveDone
  <2>1. irq' /\ drive'.status \in {"ready", "error"} /\ UNCHANGED io
    BY <1>11, <1>a DEF DriveDone
  <2> QED BY <2>1 DEF AnswerInv
<1>12. CASE Handler
  <2>1. UNCHANGED <<pc, io, drive>> /\ current' = current
    BY <1>12 DEF Handler, WakeUp, schedvars
  <2> SUFFICES ASSUME NEW t \in Tasks, io[t].stage = "block"
               PROVE  \/ pc[t] = "hold" /\ t \in noted'
                      \/ pc[t] = "away" /\ t \in ready' \union {current}
    BY <2>1 DEF AnswerInv
  <2>2. Owns(t) /\ in_service = t /\ in_service # NoTask
    BY <1>b, AtaAssumption
  <2>3. WakeUp(t)
    BY <1>12, <2>2 DEF Handler
  <2> QED BY <1>b, <2>2, <2>3 DEF WakeUp, Owns
<1>13. CASE UNCHANGED atavars
  BY <1>13 DEF atavars, diskvars, mutexvars, AnswerInv
<1> QED
  BY <1>1, <1>2, <1>3, <1>4, <1>5, <1>6, <1>7, <1>8, <1>9, <1>10, <1>11, <1>12, <1>13
  DEF AtaNext, Reader

\* As long as no drive is opened during a read, no reader sleeps through the
\* interrupt of the command it waits for.
THEOREM AnswerIsHeard ==
  ASSUME OpensBusy = FALSE
  PROVE  AtaSpec => []SleepIsAnswered
<1>1. AtaInv /\ AnswerInv => SleepIsAnswered
  BY DEF AtaInv, StageInv, AnswerInv, SleepIsAnswered
<1>2. AtaInv /\ AnswerInv /\ [AtaNext]_atavars => AnswerInv'
  BY AnswerStep
<1> QED BY AtaInvInit, AtaInvStep, AnswerInit, <1>1, <1>2, PTL DEF AtaSpec

\* As long as no drive is opened during a read, `use mutex to resist other
\* processes' is true: nobody else takes the answer a reader waits for.
THEOREM CommandIsReaders ==
  ASSUME OpensBusy = FALSE
  PROVE  AtaSpec => []CommandIsMine
<1>1. AtaInv /\ AnswerInv => CommandIsMine
  BY DEF AtaInv, AtaTypeOK, CommandInv, AnswerInv, CommandIsMine
<1>2. AtaInv /\ AnswerInv /\ [AtaNext]_atavars => AnswerInv'
  BY AnswerStep
<1> QED BY AtaInvInit, AtaInvStep, AnswerInit, <1>1, <1>2, PTL DEF AtaSpec
=============================================================================
