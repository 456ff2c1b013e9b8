---------------------------- MODULE FamilyProofs ----------------------------
(***************************************************************************)
(* Theorems about parents and children, for every set of tasks: a task that *)
(* lives or has to be mourned has a parent that lives, and, as long as      *)
(* tasks begin to wait with SIGCHLD neither pending nor blocked, do_wait    *)
(* and do_waitpg find the child they wait for and hear of its exit.        *)
(***************************************************************************)
EXTENDS Family, TLAPS

\* Where a task is and its state belong together, and since the kernel is not
\* preempted, a task between two calls of schedule() is the one that runs.
StageInv ==
  \A t \in Tasks :
    /\ state[t] = "NONE" => pc[t] = "return" /\ t \notin ready \union {current}
    /\ state[t] \in {"ZOMBIE", "DEAD"} <=> pc[t] = "gone"
    /\ state[t] = "INTERRUPTIBLE" <=> pc[t] \in {"sleep", "asleep"}
    /\ pc[t] \in {"loop", "sleep", "test"} => t = current

\* init never exits; every other task has another task as its parent, and that
\* one has not exited.
LineageInv ==
  /\ state[InitTask] \in Living
  /\ \A t \in Tasks \ {InitTask} :
       state[t] \in Living \union {"ZOMBIE"} =>
         /\ ppid[t] \in Tasks /\ ppid[t] # t
         /\ state[ppid[t]] \in Living

\* SIG_DFL is in force while a task waits, so that the child it waits for cannot
\* die unheard.
WaitInv ==
  \A t \in Tasks :
    pc[t] \in Waiting =>
      /\ action[t] = "DFL"
      /\ waitfor[t] # NoTask =>
           ppid[waitfor[t]] = t /\ state[waitfor[t]] \in Living \union {"ZOMBIE"}

\* The pending SIGCHLD is about a child of the task, a zombie, or about a task that
\* is gone: the wait that reaps it takes only its own SIGCHLD away.
SenderInv ==
  \A t \in Tasks :
    chld[t] # NoTask =>
      \/ state[chld[t]] = "DEAD"
      \/ state[chld[t]] = "ZOMBIE" /\ ppid[chld[t]] = t

FamilyInv == FamilyTypeOK /\ StageInv /\ LineageInv /\ WaitInv /\ SenderInv

\* The zombies that are t's to mourn.
Unmourned(t) == {c \in Tasks : ppid[c] = t /\ state[c] = "ZOMBIE"}

\* What a waiting task knows of its children when it has begun to wait clean: a
\* pending SIGCHLD is about a zombie of its own; it goes to sleep with none
\* pending, and the one that comes then wakes it; and a child it waits for is not
\* a zombie before some SIGCHLD is pending.
AnswerInv ==
  \A t \in Tasks :
    pc[t] \in Waiting =>
      /\ t \notin blocked
      /\ chld[t] # NoTask => chld[t] \in Unmourned(t)
      /\ \/ pc[t] \in {"loop", "sleep"}
         \/ pc[t] = "asleep" /\ t \notin ready \union {current}
         => chld[t] = NoTask
      /\ t # InitTask /\ chld[t] = NoTask =>
           \A c \in Unmourned(t) : waitfor[t] \notin {c, NoTask}

-----------------------------------------------------------------------------
(* What the scheduler does to the ready set. *)

\* schedule(): whoever was ready is ready or runs, and nobody else is but the
\* caller.
LEMMA SuspendFacts ==
  ASSUME ReadyTypeOK, NEW runs, NEW stops, Suspend(runs, stops)
  PROVE  /\ ReadyTypeOK'
         /\ ready \subseteq ready' \union {current'}
         /\ ready' \union {current'} \subseteq ready \union {current, Swapper}
<1> DEFINE stays == current \in Tasks /\ ~stops /\ (runs \/ current \in noted)
           r     == IF stays THEN ready \union {current} ELSE ready
<1>1. r \subseteq Tasks /\ ready \subseteq r /\ r \subseteq ready \union {current}
  BY DEF ReadyTypeOK
<1>2. /\ current' \in (IF r = {} THEN {Swapper} ELSE r)
      /\ ready' = r \ {current'}
      /\ noted' \subseteq noted
  BY DEF Suspend
<1> HIDE DEF r
<1> QED BY <1>1, <1>2 DEF ReadyTypeOK

\* wake_up_process(t): t is ready unless it runs.
LEMMA WakeUpFacts ==
  ASSUME ReadyTypeOK, NEW t \in Tasks, WakeUp(t)
  PROVE  /\ ReadyTypeOK' /\ current' = current
         /\ ready \subseteq ready' /\ ready' \subseteq ready \union {t}
         /\ t # current => t \in ready'
BY DEF ReadyTypeOK, WakeUp

\* The end of send_sig_info(t): a task that sleeps is ready afterwards.
LEMMA NotifyFacts ==
  ASSUME ReadyTypeOK, NEW t \in Tasks, Notify(t)
  PROVE  /\ ReadyTypeOK' /\ current' = current
         /\ ready \subseteq ready' /\ ready' \subseteq ready \union {t}
         /\ state[t] = "INTERRUPTIBLE" /\ t # current => t \in ready'
         /\ state[t] # "INTERRUPTIBLE" => ready' = ready
BY WakeUpFacts DEF Notify, ReadyTypeOK, schedvars

-----------------------------------------------------------------------------
LEMMA FamilyInvInit == FamilyInit => FamilyInv
<1> SUFFICES ASSUME FamilyInit PROVE FamilyInv
  OBVIOUS
<1>1. /\ state = [t \in Tasks |-> IF t = InitTask THEN "RUNNING" ELSE "NONE"]
      /\ InitTask \in Tasks /\ ready = {InitTask} /\ current = Swapper /\ noted = {}
  BY FamilyAssumption DEF FamilyInit, ReadyInit
<1>2. FamilyTypeOK
  BY <1>1 DEF FamilyInit, FamilyTypeOK, ReadyTypeOK, Living
<1>3. StageInv
  BY <1>1, SwapperAssumption DEF FamilyInit, StageInv
<1>4. LineageInv /\ WaitInv /\ SenderInv
  BY <1>1 DEF FamilyInit, LineageInv, WaitInv, SenderInv, Living, Waiting
<1> QED BY <1>2, <1>3, <1>4 DEF FamilyInv

\* current moves on in the kernel, with no child born or gone: the invariant stays
\* when its new place fits its new state.
CurrentMoves ==
  /\ current \in Tasks /\ state[current] \in Living
  /\ ppid' = ppid
  /\ \A t \in Tasks \ {current} :
       pc'[t] = pc[t] /\ state'[t] = state[t]
       /\ action'[t] = action[t] /\ waitfor'[t] = waitfor[t]
  /\ \A t \in Tasks : chld'[t] \in {chld[t], NoTask}
  /\ ready' \union {current'} \subseteq ready \union {current, Swapper}
  /\ state'[current] \in Living /\ pc'[current] # "gone"
  /\ state'[current] = "INTERRUPTIBLE" <=> pc'[current] \in {"sleep", "asleep"}
  /\ pc'[current] \in {"loop", "sleep", "test"} => current' = current
  /\ pc'[current] \in Waiting =>
       /\ action'[current] = "DFL"
       /\ waitfor'[current] # NoTask =>
            /\ ppid[waitfor'[current]] = current
            /\ state[waitfor'[current]] \in Living \union {"ZOMBIE"}

LEMMA CurrentMovesKeeps ==
  ASSUME FamilyInv, FamilyTypeOK', CurrentMoves
  PROVE  FamilyInv'
<1> USE DEF CurrentMoves
<1>1. StageInv'
  BY SwapperAssumption DEF FamilyInv, FamilyTypeOK, StageInv, Living
<1>2. LineageInv'
  BY FamilyAssumption DEF FamilyInv, FamilyTypeOK, LineageInv, Living
<1>3. WaitInv'
  BY DEF FamilyInv, FamilyTypeOK, WaitInv, Living
<1>4. SenderInv'
  BY DEF FamilyInv, FamilyTypeOK, SenderInv, Living
<1> QED BY <1>1, <1>2, <1>3, <1>4 DEF FamilyInv

\* A zombie of current's is reaped, and current leaves the kernel.
LEMMA ChildReaped ==
  ASSUME FamilyInv, FamilyTypeOK', NEW c \in Tasks, current \in Tasks,
         state[c] = "ZOMBIE", ppid[c] = current, state[current] = "RUNNING",
         ReapAndReturn(c), UNCHANGED <<current, ready, noted, ppid>>,
         \A t \in Tasks \ {current} : action'[t] = action[t] /\ waitfor'[t] = waitfor[t],
         \A t \in Tasks : chld'[t] \in {chld[t], NoTask}
  PROVE  FamilyInv'
<1>1. /\ state' = [state EXCEPT ![c] = "DEAD"]
      /\ pc' = [pc EXCEPT ![current] = "return"]
  BY DEF ReapAndReturn, Goto
<1>2. StageInv'
  BY <1>1 DEF FamilyInv, FamilyTypeOK, StageInv, Living
<1>3. LineageInv'
  BY <1>1, FamilyAssumption DEF FamilyInv, FamilyTypeOK, LineageInv, Living
<1>4. WaitInv'
  BY <1>1 DEF FamilyInv, FamilyTypeOK, WaitInv, Living, Waiting
<1>5. SenderInv'
  BY <1>1 DEF FamilyInv, FamilyTypeOK, SenderInv
<1> QED BY <1>2, <1>3, <1>4, <1>5 DEF FamilyInv

\* Where current can be when it runs a given stage, and in what state.
LEMMA RunningFacts ==
  ASSUME FamilyInv, NEW where, In(where)
  PROVE  /\ current \in Tasks /\ pc[current] = where
         /\ where # "gone" => state[current] \in Living
         /\ where \in {"user", "return", "loop", "test"} => state[current] = "RUNNING"
BY DEF In, FamilyInv, FamilyTypeOK, StageInv, Living

\* The SIGCHLD that a child of p's would send now is not dropped.
Heard(p) == action[p] # "IGN" /\ chld[p] = NoTask

\* What do_exit does to the family: current dies, a zombie when its parent is to
\* hear of it, and its children are init's.
LEMMA ExitFacts ==
  ASSUME FamilyInv, Exit, NEW p, p = ppid[current]
  PROVE  /\ current \in Tasks \ {InitTask} /\ state[current] = "RUNNING"
         /\ pc[current] \in {"user", "return"}
         /\ p \in Tasks /\ p # current /\ state[p] \in Living
         /\ ReadyTypeOK' /\ current' = current
         /\ ready \subseteq ready' /\ ready' \subseteq ready \union {p}
         /\ Heard(p) /\ state[p] = "INTERRUPTIBLE" => p \in ready'
         /\ state'[current] = IF action[p] = "IGN" THEN "DEAD" ELSE "ZOMBIE"
         /\ pc' = [pc EXCEPT ![current] = "gone"]
         /\ action' = [action EXCEPT ![current] = "DFL"]
         /\ \A t \in Tasks \ {current} : state'[t] = state[t]
         /\ \A t \in Tasks : chld'[t] = IF t = current THEN NoTask
                                       ELSE IF t = p /\ Heard(p) THEN current ELSE chld[t]
         /\ \A t \in Tasks :
              ppid'[t] = IF ppid[t] = current /\ state[t] \notin {"NONE", "DEAD"}
                           THEN InitTask ELSE ppid[t]
         /\ FamilyTypeOK'
         /\ blocked' = blocked \ {current} /\ waitfor' = waitfor
<1>1. /\ current \in Tasks \ {InitTask} /\ state[current] = "RUNNING"
      /\ pc[current] \in {"user", "return"}
  BY RunningFacts DEF Exit, In
<1>2. p \in Tasks /\ p # current /\ state[p] \in Living
  BY <1>1 DEF FamilyInv, LineageInv, Living
<1>3. /\ state' = [state EXCEPT ![current] = IF action[p] = "IGN" THEN "DEAD" ELSE "ZOMBIE"]
      /\ chld' = [chld EXCEPT ![current] = NoTask, ![p] = IF Heard(p) THEN current ELSE @]
      /\ IF Heard(p) THEN Notify(p) ELSE UNCHANGED <<current, ready, noted>>
      /\ ppid' = [c \in Tasks |-> IF c \in Children(current) THEN InitTask ELSE ppid[c]]
      /\ pc' = [pc EXCEPT ![current] = "gone"]
      /\ action' = [action EXCEPT ![current] = "DFL"]
      /\ other' = other \ {current} /\ blocked' = blocked \ {current}
      /\ UNCHANGED <<waitfor, oldaction>>
  BY DEF Exit, Reparented, Goto, schedvars, Heard
<1>4. /\ ReadyTypeOK' /\ current' = current
      /\ ready \subseteq ready' /\ ready' \subseteq ready \union {p}
      /\ Heard(p) /\ state[p] = "INTERRUPTIBLE" => p \in ready'
  <2>1. CASE Heard(p)
    BY <1>2, <1>3, <2>1, NotifyFacts DEF FamilyInv, FamilyTypeOK
  <2>2. CASE ~Heard(p)
    BY <1>3, <2>2 DEF FamilyInv, FamilyTypeOK, ReadyTypeOK
  <2> QED BY <2>1, <2>2
<1>5. FamilyTypeOK'
  BY <1>1, <1>2, <1>3, <1>4, FamilyAssumption DEF FamilyInv, FamilyTypeOK, Living
<1>6. /\ state'[current] = IF action[p] = "IGN" THEN "DEAD" ELSE "ZOMBIE"
      /\ \A t \in Tasks \ {current} : state'[t] = state[t]
      /\ \A t \in Tasks : chld'[t] = IF t = current THEN NoTask
                                    ELSE IF t = p /\ Heard(p) THEN current ELSE chld[t]
  BY <1>1, <1>2, <1>3 DEF FamilyInv, FamilyTypeOK
<1>7. \A t \in Tasks :
        ppid'[t] = IF ppid[t] = current /\ state[t] \notin {"NONE", "DEAD"}
                     THEN InitTask ELSE ppid[t]
  BY <1>3 DEF Children
<1> QED BY <1>1, <1>2, <1>3, <1>4, <1>5, <1>6, <1>7

LEMMA FamilyInvStep == FamilyInv /\ [FamilyNext]_familyvars => FamilyInv'
<1> SUFFICES ASSUME FamilyInv, [FamilyNext]_familyvars PROVE FamilyInv'
  OBVIOUS
<1>a. FamilyTypeOK /\ ReadyTypeOK
  BY DEF FamilyInv, FamilyTypeOK
<1>1. ASSUME NEW c \in Tasks, NEW p \in BOOLEAN, Clone(c, p) PROVE FamilyInv'
  <2> DEFINE parent == IF p THEN ppid[current] ELSE current
  <2>1. /\ current \in Tasks /\ pc[current] = "user" /\ state[current] = "RUNNING"
        /\ state[c] = "NONE" /\ c # current
        /\ p => current # InitTask
        /\ state' = [state EXCEPT ![c] = "RUNNING"]
        /\ ppid' = [ppid EXCEPT ![c] = parent]
        /\ action' = [action EXCEPT ![c] = action[current]]
        /\ pc' = [pc EXCEPT ![current] = "return"]
        /\ UNCHANGED <<waitfor, oldaction, chld, other, blocked>>
    BY <1>1, RunningFacts DEF Clone, Goto
  <2>2. /\ ReadyTypeOK' /\ current' = current
        /\ ready' \subseteq ready \union {c}
    BY <1>1, <1>a, WakeUpFacts DEF Clone
  <2>3. parent \in Tasks /\ parent # c /\ state[parent] \in Living
    BY <2>1 DEF FamilyInv, LineageInv, Living
  <2> HIDE DEF parent
  <2>4. FamilyTypeOK'
    BY <1>a, <2>1, <2>2, <2>3 DEF FamilyTypeOK, Living
  <2>5. StageInv'
    BY <1>a, <2>1, <2>2 DEF FamilyInv, FamilyTypeOK, StageInv
  <2>6. LineageInv'
    BY <1>a, <2>1, <2>3 DEF FamilyInv, FamilyTypeOK, LineageInv, Living
  <2>7. WaitInv'
    BY <1>a, <2>1 DEF FamilyInv, FamilyTypeOK, StageInv, WaitInv, Living, Waiting
  <2>8. SenderInv'
    BY <1>a, <2>1 DEF FamilyInv, FamilyTypeOK, SenderInv
  <2> QED BY <2>4, <2>5, <2>6, <2>7, <2>8 DEF FamilyInv
<1>2. CASE SetAction \/ SetMask
  <2>1. /\ current \in Tasks /\ state[current] = "RUNNING"
        /\ pc' = [pc EXCEPT ![current] = "return"]
        /\ UNCHANGED <<current, ready, noted, state, ppid, waitfor, oldaction, chld, other>>
        /\ \A t \in Tasks \ {current} : action'[t] = action[t]
    BY <1>2, <1>a, RunningFacts DEF SetAction, SetMask, Goto, schedvars, FamilyTypeOK
  <2>2. FamilyTypeOK'
    <3>1. CASE SetAction
      BY <1>a, <2>1, <3>1 DEF SetAction, FamilyTypeOK, ReadyTypeOK
    <3>2. CASE SetMask
      BY <1>a, <2>1, <3>2 DEF SetMask, FamilyTypeOK, ReadyTypeOK
    <3> QED BY <1>2, <3>1, <3>2
  <2>3. CurrentMoves
    BY <1>a, <2>1 DEF CurrentMoves, FamilyTypeOK, Living, Waiting
  <2> QED BY <2>2, <2>3, CurrentMovesKeeps
<1>3. CASE ReturnToUserspace
  <2>1. /\ current \in Tasks /\ state[current] = "RUNNING"
        /\ pc' = [pc EXCEPT ![current] = "user"]
        /\ UNCHANGED <<state, ppid, waitfor, action, oldaction, blocked>>
        /\ other' \subseteq other
        /\ chld' = chld \/ chld' = [chld EXCEPT ![current] = NoTask]
    BY <1>3, RunningFacts DEF ReturnToUserspace, Goto
  <2>2. /\ ReadyTypeOK'
        /\ ready' \union {current'} \subseteq ready \union {current, Swapper}
    BY <1>3, <1>a, SuspendFacts DEF ReturnToUserspace, schedvars, ReadyTypeOK
  <2>3. FamilyTypeOK'
    BY <1>a, <2>1, <2>2 DEF FamilyTypeOK
  <2>4. CurrentMoves
    BY <1>a, <2>1, <2>2 DEF CurrentMoves, FamilyTypeOK, Living, Waiting
  <2> QED BY <2>3, <2>4, CurrentMovesKeeps
<1>4. CASE Exit
  <2> DEFINE p == ppid[current]
  <2>1. /\ current \in Tasks \ {InitTask} /\ state[current] = "RUNNING"
        /\ pc[current] \in {"user", "return"}
        /\ p \in Tasks /\ p # current /\ state[p] \in Living
        /\ current' = current /\ ready' \subseteq ready \union {p}
        /\ state'[current] = IF action[p] = "IGN" THEN "DEAD" ELSE "ZOMBIE"
        /\ pc' = [pc EXCEPT ![current] = "gone"]
        /\ action' = [action EXCEPT ![current] = "DFL"]
        /\ \A t \in Tasks \ {current} : state'[t] = state[t]
        /\ waitfor' = waitfor
    BY <1>4, ExitFacts
  <2>2. \A t \in Tasks :
          ppid'[t] = IF ppid[t] = current /\ state[t] \notin {"NONE", "DEAD"}
                       THEN InitTask ELSE ppid[t]
    BY <1>4, ExitFacts
  <2>3. \A t \in Tasks : chld'[t] = IF t = current THEN NoTask
                                    ELSE IF t = p /\ Heard(p) THEN current ELSE chld[t]
    BY <1>4, ExitFacts
  <2>4. FamilyTypeOK'
    BY <1>4, ExitFacts
  <2> HIDE DEF p
  <2>5. StageInv'
    BY <1>a, <2>1 DEF FamilyInv, FamilyTypeOK, StageInv, Living
  <2>6. LineageInv'
    BY <1>a, <2>1, <2>2, FamilyAssumption DEF FamilyInv, FamilyTypeOK, LineageInv, Living
  <2>7. WaitInv'
    <3> SUFFICES ASSUME NEW t \in Tasks, pc'[t] \in Waiting
                 PROVE  /\ action'[t] = "DFL"
                        /\ waitfor'[t] # NoTask =>
                             /\ ppid'[waitfor'[t]] = t
                             /\ state'[waitfor'[t]] \in Living \union {"ZOMBIE"}
      BY DEF WaitInv
    <3>1. t # current /\ pc[t] \in Waiting /\ action'[t] = action[t]
      BY <1>a, <2>1 DEF FamilyTypeOK, Waiting
    <3>2. /\ action[t] = "DFL"
          /\ waitfor[t] # NoTask =>
               ppid[waitfor[t]] = t /\ state[waitfor[t]] \in Living \union {"ZOMBIE"}
      BY <3>1 DEF FamilyInv, WaitInv
    <3>3. ASSUME waitfor[t] # NoTask
          PROVE  /\ ppid'[waitfor[t]] = t
                 /\ state'[waitfor[t]] \in Living \union {"ZOMBIE"}
      <4>1. waitfor[t] \in Tasks
        BY <1>a, <3>3 DEF FamilyTypeOK
      <4>2. ppid'[waitfor[t]] = t
        BY <2>2, <3>1, <3>2, <3>3, <4>1
      <4>3. waitfor[t] = current => p = t
        BY <3>2, <3>3 DEF p
      <4> QED BY <2>1, <3>2, <3>3, <4>1, <4>2, <4>3
    <3> QED BY <2>1, <3>1, <3>2, <3>3
  <2>8. SenderInv'
    <3> SUFFICES ASSUME NEW t \in Tasks, chld'[t] # NoTask
                 PROVE  \/ state'[chld'[t]] = "DEAD"
                        \/ state'[chld'[t]] = "ZOMBIE" /\ ppid'[chld'[t]] = t
      BY DEF SenderInv
    <3>1. CASE t = p /\ Heard(p)
      <4>1. chld'[t] = current /\ state'[current] = "ZOMBIE"
        BY <2>1, <2>3, <3>1 DEF Heard
      <4>2. ppid'[current] = p
        BY <2>1, <2>2 DEF p
      <4> QED BY <3>1, <4>1, <4>2
    <3>2. CASE ~(t = p /\ Heard(p))
      <4>1. chld'[t] = chld[t] /\ chld[t] \in Tasks /\ t # current
        BY <1>a, <2>3, <3>2 DEF FamilyTypeOK
      <4>2. \/ state[chld[t]] = "DEAD"
            \/ state[chld[t]] = "ZOMBIE" /\ ppid[chld[t]] = t
        BY <4>1, FamilyAssumption DEF FamilyInv, SenderInv
      <4> QED BY <2>1, <2>2, <4>1, <4>2
    <3> QED BY <3>1, <3>2
  <2> QED BY <2>4, <2>5, <2>6, <2>7, <2>8 DEF FamilyInv
<1>5. CASE ExitSchedule \/ SwapperRuns
  <2>1. UNCHANGED <<state, ppid, pc, waitfor, action, oldaction, chld, other, blocked>>
    BY <1>5 DEF ExitSchedule, SwapperRuns, sigvars
  <2>2. /\ ReadyTypeOK'
        /\ ready' \union {current'} \subseteq ready \union {current, Swapper}
    BY <1>5, <1>a, SuspendFacts DEF ExitSchedule, SwapperRuns
  <2>3. \A t \in Tasks : pc[t] \notin {"loop", "sleep", "test"}
    BY <1>5, SwapperAssumption DEF ExitSchedule, SwapperRuns, In, FamilyInv, StageInv
  <2>4. FamilyTypeOK' /\ StageInv'
    BY <1>a, <2>1, <2>2, <2>3, SwapperAssumption DEF FamilyInv, FamilyTypeOK, StageInv
  <2> QED BY <2>1, <2>4 DEF FamilyInv, LineageInv, WaitInv, SenderInv
<1>6. ASSUME NEW c \in Tasks, Wait(c) PROVE FamilyInv'
  <2>1. /\ current \in Tasks /\ state[current] = "RUNNING" /\ pc[current] = "user"
        /\ ppid[c] = current /\ state[c] \in Living \union {"ZOMBIE"}
        /\ UNCHANGED <<current, ready, noted, ppid, chld, other, blocked>>
    BY <1>6, <1>a, RunningFacts
    DEF Wait, Waitable, Children, FamilyTypeOK, schedvars, Living
  <2>2. CASE state[c] = "ZOMBIE"
    <3>1. ReapAndReturn(c) /\ UNCHANGED <<waitfor, action, oldaction>>
      BY <1>6, <2>2 DEF Wait
    <3>2. FamilyTypeOK'
      BY <1>a, <2>1, <3>1 DEF FamilyTypeOK, ReadyTypeOK, ReapAndReturn, Goto
    <3> QED BY <1>a, <2>1, <2>2, <3>1, <3>2, ChildReaped
  <2>3. CASE state[c] # "ZOMBIE"
    <3>1. /\ pc' = [pc EXCEPT ![current] = "loop"] /\ state' = state
          /\ action' = [action EXCEPT ![current] = "DFL"]
          /\ oldaction' = [oldaction EXCEPT ![current] = action[current]]
          /\ waitfor' = [waitfor EXCEPT ![current] = c]
      BY <1>6, <2>3 DEF Wait, StartWaiting, Goto
    <3>2. FamilyTypeOK'
      BY <1>a, <2>1, <3>1 DEF FamilyTypeOK, ReadyTypeOK, Waiting
    <3>3. CurrentMoves
      BY <1>a, <2>1, <3>1 DEF CurrentMoves, FamilyTypeOK, Living, Waiting
    <3> QED BY <3>2, <3>3, CurrentMovesKeeps
  <2> QED BY <2>2, <2>3
<1>7. CASE WaitAny
  <2>1. /\ current \in Tasks /\ state[current] = "RUNNING" /\ pc[current] = "user"
        /\ UNCHANGED <<current, ready, noted, ppid, chld, other, blocked>>
    BY <1>7, RunningFacts DEF WaitAny, schedvars
  <2>2. CASE \E c \in Children(current) : state[c] = "ZOMBIE"
    <3>1. PICK c \in Children(current) : state[c] = "ZOMBIE" /\ ReapAndReturn(c)
      BY <1>7, <2>2 DEF WaitAny
    <3>2. UNCHANGED <<waitfor, action, oldaction>>
      BY <1>7, <2>2 DEF WaitAny
    <3>3. c \in Tasks /\ ppid[c] = current
      BY DEF Children
    <3>4. FamilyTypeOK'
      BY <1>a, <2>1, <3>1, <3>2, <3>3 DEF FamilyTypeOK, ReadyTypeOK, ReapAndReturn, Goto
    <3> QED BY <1>a, <2>1, <3>1, <3>2, <3>3, <3>4, ChildReaped
  <2>3. CASE ~\E c \in Children(current) : state[c] = "ZOMBIE"
    <3>1. /\ pc' = [pc EXCEPT ![current] = "loop"] /\ state' = state
          /\ action' = [action EXCEPT ![current] = "DFL"]
          /\ oldaction' = [oldaction EXCEPT ![current] = action[current]]
          /\ waitfor' = [waitfor EXCEPT ![current] = NoTask]
      BY <1>7, <2>3 DEF WaitAny, StartWaiting, Goto
    <3>2. FamilyTypeOK'
      BY <1>a, <2>1, <3>1 DEF FamilyTypeOK, ReadyTypeOK, Waiting
    <3>3. CurrentMoves
      BY <1>a, <2>1, <3>1 DEF CurrentMoves, FamilyTypeOK, Living, Waiting
    <3> QED BY <3>2, <3>3, CurrentMovesKeeps
  <2> QED BY <2>2, <2>3
<1>8. CASE WaitPrepares \/ WaitWakes \/ WaitAgain
  <2>1. /\ current \in Tasks /\ state[current] \in Living /\ pc[current] \in Waiting
        /\ UNCHANGED <<current, ready, noted, ppid, waitfor, action, oldaction,
                       chld, other, blocked>>
    BY <1>8, RunningFacts
    DEF WaitPrepares, WaitWakes, WaitAgain, schedvars, sigvars, Waiting
  <2>2. \/ /\ state' = [state EXCEPT ![current] = "INTERRUPTIBLE"]
           /\ pc' = [pc EXCEPT ![current] = "sleep"]
        \/ /\ state' = [state EXCEPT ![current] = "RUNNING"]
           /\ pc' = [pc EXCEPT ![current] = "test"]
        \/ /\ state' = state /\ state[current] = "RUNNING"
           /\ pc' = [pc EXCEPT ![current] = "loop"]
    BY <1>8, RunningFacts DEF WaitPrepares, WaitWakes, WaitAgain, Goto
  <2>3. FamilyTypeOK'
    BY <1>a, <2>1, <2>2 DEF FamilyTypeOK, ReadyTypeOK, Living, Waiting
  <2>4. /\ action[current] = "DFL"
        /\ waitfor[current] # NoTask =>
             /\ ppid[waitfor[current]] = current
             /\ state[waitfor[current]] \in Living \union {"ZOMBIE"}
    BY <2>1 DEF FamilyInv, WaitInv
  <2>5. CurrentMoves
    BY <1>a, <2>1, <2>2, <2>4 DEF CurrentMoves, FamilyTypeOK, Living, Waiting
  <2> QED BY <2>3, <2>5, CurrentMovesKeeps
<1>9. CASE WaitSleep
  <2>1. /\ current \in Tasks /\ state[current] = "INTERRUPTIBLE" /\ pc[current] = "sleep"
        /\ pc' = [pc EXCEPT ![current] = "asleep"]
        /\ UNCHANGED <<state, ppid, waitfor, action, oldaction, chld, other, blocked>>
    BY <1>9, RunningFacts DEF WaitSleep, Goto, sigvars, FamilyInv, StageInv
  <2>2. /\ ReadyTypeOK'
        /\ ready' \union {current'} \subseteq ready \union {current, Swapper}
    BY <1>9, <1>a, SuspendFacts DEF WaitSleep
  <2>3. FamilyTypeOK'
    BY <1>a, <2>1, <2>2 DEF FamilyTypeOK, Waiting
  <2>4. /\ action[current] = "DFL"
        /\ waitfor[current] # NoTask =>
             /\ ppid[waitfor[current]] = current
             /\ state[waitfor[current]] \in Living \union {"ZOMBIE"}
    BY <2>1 DEF FamilyInv, WaitInv, Waiting
  <2>5. CurrentMoves
    BY <1>a, <2>1, <2>2, <2>4 DEF CurrentMoves, FamilyTypeOK, Living, Waiting
  <2> QED BY <2>3, <2>5, CurrentMovesKeeps
<1>10. CASE WaitReaps
  <2> DEFINE c == chld[current]
  <2>1. /\ current \in Tasks /\ state[current] = "RUNNING" /\ pc[current] = "test"
        /\ c # NoTask /\ state[c] # "DEAD" /\ ReapAndReturn(c)
        /\ action' = [action EXCEPT ![current] = oldaction[current]]
        /\ oldaction' = [oldaction EXCEPT ![current] = "DFL"]
        /\ waitfor' = [waitfor EXCEPT ![current] = NoTask]
        /\ chld' = [chld EXCEPT ![current] = NoTask]
        /\ UNCHANGED <<current, ready, noted, ppid, other, blocked>>
    BY <1>10, RunningFacts DEF WaitReaps, PutBack, schedvars
  <2>2. c \in Tasks /\ state[c] = "ZOMBIE" /\ ppid[c] = current
    BY <1>a, <2>1 DEF FamilyInv, FamilyTypeOK, SenderInv
  <2> HIDE DEF c
  <2>3. FamilyTypeOK'
    BY <1>a, <2>1, <2>2 DEF FamilyTypeOK, ReadyTypeOK, ReapAndReturn, Goto
  <2>4. /\ \A t \in Tasks \ {current} : action'[t] = action[t] /\ waitfor'[t] = waitfor[t]
        /\ \A t \in Tasks : chld'[t] \in {chld[t], NoTask}
    BY <1>a, <2>1 DEF FamilyTypeOK
  <2> QED BY <2>1, <2>2, <2>3, <2>4, ChildReaped
<1>11. CASE WaitInterrupted
  <2>1. /\ current \in Tasks /\ state[current] = "RUNNING"
        /\ pc' = [pc EXCEPT ![current] = "return"]
        /\ action' = [action EXCEPT ![current] = oldaction[current]]
        /\ oldaction' = [oldaction EXCEPT ![current] = "DFL"]
        /\ waitfor' = [waitfor EXCEPT ![current] = NoTask]
        /\ UNCHANGED <<current, ready, noted, state, ppid, chld, other, blocked>>
    BY <1>11, RunningFacts DEF WaitInterrupted, PutBack, Goto, schedvars
  <2>2. FamilyTypeOK'
    BY <1>a, <2>1 DEF FamilyTypeOK, ReadyTypeOK
  <2>3. CurrentMoves
    BY <1>a, <2>1 DEF CurrentMoves, FamilyTypeOK, Living, Waiting
  <2> QED BY <2>2, <2>3, CurrentMovesKeeps
<1>12. ASSUME NEW t \in Tasks, OtherSignal(t) PROVE FamilyInv'
  <2>1. /\ state[t] \in Living /\ other' = other \union {t}
        /\ UNCHANGED <<state, ppid, pc, waitfor, action, oldaction, chld, blocked>>
    BY <1>12 DEF OtherSignal
  <2>2. /\ ReadyTypeOK' /\ current' = current
        /\ ready' \subseteq ready \union {t}
    BY <1>12, <1>a, NotifyFacts DEF OtherSignal
  <2>3. FamilyTypeOK' /\ StageInv'
    BY <1>a, <2>1, <2>2 DEF FamilyInv, FamilyTypeOK, StageInv, Living
  <2> QED BY <2>1, <2>3 DEF FamilyInv, LineageInv, WaitInv, SenderInv
<1>13. CASE UNCHANGED familyvars
  BY <1>13 DEF familyvars, sigvars, FamilyInv, FamilyTypeOK, ReadyTypeOK, StageInv,
     LineageInv, WaitInv, SenderInv
<1> QED
  BY <1>1, <1>2, <1>3, <1>4, <1>5, <1>6, <1>7, <1>8, <1>9, <1>10, <1>11, <1>12, <1>13
  DEF FamilyNext

LEMMA FamilyInvHolds == FamilySpec => []FamilyInv
<1> QED BY FamilyInvInit, FamilyInvStep, PTL DEF FamilySpec

\* The family tree and what each task knows of it stay of their types: a parent is
\* a pid, and a pending SIGCHLD has one.
THEOREM FamilyTypeCorrect == FamilySpec => []FamilyTypeOK
<1>1. FamilyInv => FamilyTypeOK
  BY DEF FamilyInv
<1> QED BY <1>1, FamilyInvHolds, PTL

\* do_exit never looks up a parent that has exited (exit.c:94-95, 106): whatever
\* the children and their parents do, and in whatever order they die, a task that
\* lives or waits to be mourned has a living parent.
THEOREM OrphansHaveInit == FamilySpec => []ParentMourns
<1>1. FamilyInv => ParentMourns
  BY DEF FamilyInv, LineageInv, ParentMourns
<1> QED BY <1>1, FamilyInvHolds, PTL

-----------------------------------------------------------------------------
(* Waits that begin clean. *)

LEMMA AnswerInit == FamilyInit => AnswerInv
BY DEF FamilyInit, AnswerInv, Waiting

\* A step that starts no wait, and changes nothing that a waiting task knows.
LEMMA AnswerKept ==
  ASSUME AnswerInv,
         \A t \in Tasks : pc'[t] \in Waiting =>
           /\ pc'[t] = pc[t] /\ waitfor'[t] = waitfor[t] /\ chld'[t] = chld[t]
           /\ t \in blocked' <=> t \in blocked
           /\ Unmourned(t)' = Unmourned(t)
           /\ t \notin ready' \union {current'} => t \notin ready \union {current}
  PROVE  AnswerInv'
BY DEF AnswerInv

\* current, in a wait, goes on to the next stage of it.
LEMMA AnswerMoves ==
  ASSUME AnswerInv, FamilyInv, NEW where \in Waiting, current \in Tasks,
         pc' = [pc EXCEPT ![current] = where],
         \A t \in Tasks : Unmourned(t)' = Unmourned(t),
         \A t \in Tasks \ {current} :
           t \notin ready' \union {current'} => t \notin ready \union {current},
         \A t \in Tasks \ {current} : waitfor'[t] = waitfor[t],
         UNCHANGED <<chld, blocked>>,
         current \notin blocked,
         chld[current] # NoTask => chld[current] \in Unmourned(current),
         where \in {"loop", "sleep", "asleep"} => chld[current] = NoTask,
         chld[current] = NoTask =>
           \A c \in Unmourned(current) : waitfor'[current] \notin {c, NoTask}
  PROVE  AnswerInv'
BY DEF AnswerInv, FamilyInv, FamilyTypeOK

LEMMA AnswerStep ==
  ASSUME CleanWaits = TRUE, FamilyInv, AnswerInv, [FamilyNext]_familyvars
  PROVE  AnswerInv'
<1>a. FamilyTypeOK /\ ReadyTypeOK
  BY DEF FamilyInv, FamilyTypeOK
<1>1. ASSUME NEW c \in Tasks, NEW p \in BOOLEAN, Clone(c, p) PROVE AnswerInv'
  <2>1. /\ pc' = [pc EXCEPT ![current] = "return"] /\ current \in Tasks
        /\ state[c] = "NONE" /\ state' = [state EXCEPT ![c] = "RUNNING"]
        /\ \A d \in Tasks \ {c} : ppid'[d] = ppid[d]
        /\ UNCHANGED <<waitfor, chld, blocked>>
    BY <1>1, <1>a DEF Clone, In, Goto, FamilyTypeOK
  <2>2. current' = current /\ ready \subseteq ready'
    BY <1>1, <1>a, WakeUpFacts DEF Clone
  <2>3. \A t \in Tasks : Unmourned(t)' = Unmourned(t)
    BY <1>a, <2>1 DEF Unmourned, FamilyTypeOK
  <2> QED BY <1>a, <2>1, <2>2, <2>3, AnswerKept DEF FamilyTypeOK, Waiting
<1>2. CASE SetAction \/ SetMask \/ ReturnToUserspace
  <2>1. /\ current \in Tasks /\ pc'[current] \in {"user", "return"}
        /\ \A t \in Tasks \ {current} :
             /\ pc'[t] = pc[t] /\ chld'[t] = chld[t]
             /\ t \in blocked' <=> t \in blocked
        /\ UNCHANGED <<state, ppid, waitfor>>
    BY <1>2, <1>a DEF SetAction, SetMask, ReturnToUserspace, In, Goto, FamilyTypeOK
  <2>2. ready \subseteq ready' \union {current'}
    BY <1>2, <1>a, SuspendFacts DEF SetAction, SetMask, ReturnToUserspace, schedvars
  <2>3. current' # current =>
          ready' \union {current'} \subseteq ready \union {current, Swapper}
    BY <1>2, <1>a, SuspendFacts DEF SetAction, SetMask, ReturnToUserspace, schedvars
  <2>4. \A t \in Tasks \ {current} :
          t \notin ready' \union {current'} => t \notin ready \union {current}
    BY <2>2
  <2>5. \A t \in Tasks : Unmourned(t)' = Unmourned(t)
    BY <2>1 DEF Unmourned
  <2> QED BY <2>1, <2>4, <2>5, AnswerKept DEF Waiting
<1>3. CASE Exit
  <2> DEFINE p == ppid[current]
  <2>1. /\ current \in Tasks \ {InitTask} /\ pc[current] \in {"user", "return"}
        /\ p \in Tasks /\ p # current
        /\ current' = current /\ ready \subseteq ready'
        /\ Heard(p) /\ state[p] = "INTERRUPTIBLE" => p \in ready'
        /\ state'[current] = IF action[p] = "IGN" THEN "DEAD" ELSE "ZOMBIE"
        /\ pc' = [pc EXCEPT ![current] = "gone"]
        /\ \A t \in Tasks \ {current} : state'[t] = state[t]
        /\ blocked' = blocked \ {current} /\ waitfor' = waitfor
    BY <1>3, ExitFacts
  <2>2. \A t \in Tasks :
          ppid'[t] = IF ppid[t] = current /\ state[t] \notin {"NONE", "DEAD"}
                       THEN InitTask ELSE ppid[t]
    BY <1>3, ExitFacts
  <2>3. \A t \in Tasks : chld'[t] = IF t = current THEN NoTask
                                    ELSE IF t = p /\ Heard(p) THEN current ELSE chld[t]
    BY <1>3, ExitFacts
  <2>4. state[current] = "RUNNING"
    BY <1>3, ExitFacts
  <2>5. p = ppid[current]
    OBVIOUS
  <2> HIDE DEF p
  <2>6. \A t \in Tasks \ {current} :
          /\ Unmourned(t) \subseteq Unmourned(t)'
          /\ t \notin {p, InitTask} => Unmourned(t)' = Unmourned(t)
          /\ t # InitTask => Unmourned(t)' \subseteq Unmourned(t) \union {current}
    BY <2>1, <2>2, <2>4, <2>5 DEF Unmourned
  <2>7. ASSUME NEW t \in Tasks, pc'[t] \in Waiting
        PROVE  /\ t \notin blocked'
               /\ chld'[t] # NoTask => chld'[t] \in Unmourned(t)'
               /\ \/ pc'[t] \in {"loop", "sleep"}
                  \/ pc'[t] = "asleep" /\ t \notin ready' \union {current'}
                  => chld'[t] = NoTask
               /\ t # InitTask /\ chld'[t] = NoTask =>
                    \A c \in Unmourned(t)' : waitfor'[t] \notin {c, NoTask}
    <3>1. t # current /\ pc'[t] = pc[t]
      BY <1>a, <2>1, <2>7 DEF FamilyTypeOK, Waiting
    <3>2. /\ t \notin blocked /\ action[t] = "DFL"
          /\ chld[t] # NoTask => chld[t] \in Unmourned(t)
          /\ \/ pc[t] \in {"loop", "sleep"}
             \/ pc[t] = "asleep" /\ t \notin ready \union {current}
             => chld[t] = NoTask
          /\ t # InitTask /\ chld[t] = NoTask =>
               \A c \in Unmourned(t) : waitfor[t] \notin {c, NoTask}
      BY <2>7, <3>1 DEF AnswerInv, FamilyInv, WaitInv
    <3>3. CASE t = p
      <4>1. current \in Unmourned(t)'
        BY <2>1, <2>2, <2>5, <3>1, <3>2, <3>3 DEF Unmourned
      <4>2. chld'[t] # NoTask /\ chld'[t] \in Unmourned(t)'
        BY <2>1, <2>3, <2>6, <3>1, <3>2, <3>3, <4>1, FamilyAssumption DEF Heard
      <4>3. pc[t] \notin {"loop", "sleep"}
        BY <3>1 DEF FamilyInv, StageInv
      <4>4. pc[t] = "asleep" => t \in ready'
        <5>1. pc[t] = "asleep" => state[t] = "INTERRUPTIBLE"
          BY DEF FamilyInv, StageInv
        <5> QED BY <2>1, <3>1, <3>2, <3>3, <5>1 DEF Heard
      <4> QED BY <2>1, <3>1, <3>2, <4>2, <4>3, <4>4
    <3>4. CASE t # p
      <4>1. chld'[t] = chld[t]
        BY <2>3, <3>1, <3>4
      <4> QED BY <2>1, <2>6, <3>1, <3>2, <3>4, <4>1
    <3> QED BY <3>3, <3>4
  <2> QED BY <2>7 DEF AnswerInv
<1>4. CASE ExitSchedule \/ SwapperRuns
  <2>1. UNCHANGED <<state, ppid, pc, waitfor, chld, blocked>>
    BY <1>4 DEF ExitSchedule, SwapperRuns, sigvars
  <2>2. ready \subseteq ready' \union {current'}
    BY <1>4, <1>a, SuspendFacts DEF ExitSchedule, SwapperRuns
  <2>3. \A t \in Tasks : pc[t] \in Waiting => t # current
    BY <1>4, SwapperAssumption DEF ExitSchedule, SwapperRuns, In, Waiting
  <2>4. \A t \in Tasks : Unmourned(t)' = Unmourned(t)
    BY <2>1 DEF Unmourned
  <2> QED BY <2>1, <2>2, <2>3, <2>4, AnswerKept
<1>5. ASSUME NEW c \in Tasks, In("user"), Clean,
             UNCHANGED <<current, ready, noted, ppid, chld, blocked>>,
             ReapAndReturn(c), c \in Unmourned(current), waitfor' = waitfor
      PROVE  AnswerInv'
  <2>1. /\ current \in Tasks /\ pc' = [pc EXCEPT ![current] = "return"]
        /\ state' = [state EXCEPT ![c] = "DEAD"]
    BY <1>5 DEF In, ReapAndReturn, Goto
  <2>2. \A t \in Tasks \ {current} : Unmourned(t)' = Unmourned(t)
    BY <1>5, <1>a, <2>1 DEF Unmourned, FamilyTypeOK
  <2> QED BY <1>5, <1>a, <2>1, <2>2, AnswerKept DEF FamilyTypeOK, Waiting
<1>6. ASSUME NEW c \in Tasks, Wait(c) PROVE AnswerInv'
  <2>1. /\ current \in Tasks /\ Clean /\ In("user") /\ c \in Children(current)
        /\ UNCHANGED <<current, ready, noted, ppid, chld, blocked>>
    BY <1>6 DEF Wait, Waitable, In, schedvars
  <2>2. CASE state[c] = "ZOMBIE"
    <3>1. ReapAndReturn(c) /\ waitfor' = waitfor /\ c \in Unmourned(current)
      BY <1>6, <2>1, <2>2 DEF Wait, Children, Unmourned
    <3> QED BY <1>5, <2>1, <3>1
  <2>3. CASE state[c] # "ZOMBIE"
    <3>1. /\ pc' = [pc EXCEPT ![current] = "loop"] /\ state' = state
          /\ waitfor' = [waitfor EXCEPT ![current] = c]
      BY <1>6, <2>3 DEF Wait, StartWaiting, Goto
    <3>2. \A t \in Tasks : Unmourned(t)' = Unmourned(t)
      BY <2>1, <3>1 DEF Unmourned
    <3>3. /\ chld[current] = NoTask /\ current \notin blocked
          /\ waitfor'[current] = c /\ c \notin Unmourned(current) /\ c # NoTask
          /\ \A t \in Tasks \ {current} : waitfor'[t] = waitfor[t]
      BY <1>a, <2>1, <2>3, <3>1, FamilyAssumption DEF Clean, Unmourned, FamilyTypeOK
    <3> QED BY <2>1, <3>1, <3>2, <3>3, AnswerMoves DEF Waiting
  <2> QED BY <2>2, <2>3
<1>7. CASE WaitAny
  <2>1. /\ current \in Tasks /\ Clean /\ In("user")
        /\ UNCHANGED <<current, ready, noted, ppid, chld, blocked>>
    BY <1>7 DEF WaitAny, In, schedvars
  <2>2. CASE \E c \in Children(current) : state[c] = "ZOMBIE"
    <3>1. PICK c \in Children(current) : state[c] = "ZOMBIE" /\ ReapAndReturn(c)
      BY <1>7, <2>2 DEF WaitAny
    <3>2. waitfor' = waitfor /\ c \in Tasks /\ c \in Unmourned(current)
      BY <1>7, <2>2, <3>1 DEF WaitAny, Children, Unmourned
    <3> QED BY <1>5, <2>1, <3>1, <3>2
  <2>3. CASE ~\E c \in Children(current) : state[c] = "ZOMBIE"
    <3>1. /\ pc' = [pc EXCEPT ![current] = "loop"] /\ state' = state
          /\ waitfor' = [waitfor EXCEPT ![current] = NoTask]
      BY <1>7, <2>3 DEF WaitAny, StartWaiting, Goto
    <3>2. \A t \in Tasks : Unmourned(t)' = Unmourned(t)
      BY <2>1, <3>1 DEF Unmourned
    <3>3. /\ chld[current] = NoTask /\ current \notin blocked
          /\ Unmourned(current) = {}
          /\ \A t \in Tasks \ {current} : waitfor'[t] = waitfor[t]
      BY <1>a, <2>1, <2>3, <3>1 DEF Clean, Unmourned, Children, FamilyTypeOK
    <3> QED BY <2>1, <3>1, <3>2, <3>3, AnswerMoves DEF Waiting
  <2> QED BY <2>2, <2>3
<1>8. CASE WaitPrepares \/ WaitSleep \/ WaitWakes \/ WaitAgain
  <2>1. /\ current \in Tasks /\ pc[current] \in Waiting
        /\ UNCHANGED <<ppid, waitfor, chld, blocked>>
    BY <1>8 DEF WaitPrepares, WaitSleep, WaitWakes, WaitAgain, In, sigvars, Waiting
  <2>2. /\ current \notin blocked
        /\ chld[current] # NoTask => chld[current] \in Unmourned(current)
        /\ pc[current] \in {"loop", "sleep"} => chld[current] = NoTask
        /\ current # InitTask /\ chld[current] = NoTask =>
             \A c \in Unmourned(current) : waitfor[current] \notin {c, NoTask}
    BY <2>1 DEF AnswerInv
  <2>3. /\ state[current] \in Living
        /\ \/ state' = state
           \/ state' = [state EXCEPT ![current] = "INTERRUPTIBLE"]
           \/ state' = [state EXCEPT ![current] = "RUNNING"]
    <3>1. state[current] \in Living
      BY <2>1 DEF FamilyInv, FamilyTypeOK, StageInv, Living, Waiting
    <3> QED BY <1>8, <3>1 DEF WaitPrepares, WaitSleep, WaitWakes, WaitAgain
  <2>4. \A t \in Tasks : Unmourned(t)' = Unmourned(t)
    BY <1>a, <2>1, <2>3 DEF Unmourned, FamilyTypeOK, Living
  <2>5. ready \subseteq ready' \union {current'}
    BY <1>8, <1>a, SuspendFacts
    DEF WaitPrepares, WaitSleep, WaitWakes, WaitAgain, schedvars
  <2>6. PICK where \in Waiting :
          /\ pc' = [pc EXCEPT ![current] = where]
          /\ where \in {"loop", "sleep", "asleep"} => chld[current] = NoTask
    BY <1>8, <2>2 DEF WaitPrepares, WaitSleep, WaitWakes, WaitAgain, In, Goto,
       SignalPending, Waiting
  <2>7. \A t \in Tasks :
          /\ pc'[t] \in Waiting => pc[t] \in Waiting
          /\ t # current => pc'[t] = pc[t]
    BY <1>a, <2>1, <2>6 DEF FamilyTypeOK
  <2>8. pc'[current] = where
    BY <1>a, <2>1, <2>6 DEF FamilyTypeOK
  <2> QED BY <2>1, <2>2, <2>4, <2>5, <2>6, <2>7, <2>8 DEF AnswerInv
<1>9. CASE WaitReaps \/ WaitInterrupted
  <2>1. /\ current \in Tasks /\ pc' = [pc EXCEPT ![current] = "return"]
        /\ \A t \in Tasks \ {current} : waitfor'[t] = waitfor[t] /\ chld'[t] = chld[t]
        /\ UNCHANGED <<current, ready, noted, ppid, blocked>>
    BY <1>9, <1>a DEF WaitReaps, WaitInterrupted, PutBack, ReapAndReturn, Goto, In,
       schedvars, FamilyTypeOK
  <2>2. \/ state' = state
        \/ /\ state' = [state EXCEPT ![chld[current]] = "DEAD"]
           /\ chld[current] # NoTask /\ pc[current] = "test"
    BY <1>9 DEF WaitReaps, WaitInterrupted, ReapAndReturn, In
  <2>3. chld[current] # NoTask /\ pc[current] = "test" =>
          chld[current] \in Unmourned(current)
    BY <2>1 DEF AnswerInv, Waiting
  <2>4. \A t \in Tasks \ {current} : Unmourned(t)' = Unmourned(t)
    BY <1>a, <2>1, <2>2, <2>3 DEF Unmourned, FamilyTypeOK
  <2> QED BY <1>a, <2>1, <2>4, AnswerKept DEF FamilyTypeOK, Waiting
<1>10. ASSUME NEW t \in Tasks, OtherSignal(t) PROVE AnswerInv'
  <2>1. /\ UNCHANGED <<current, state, ppid, pc, waitfor, chld, blocked>>
        /\ ready \subseteq ready'
    BY <1>10, <1>a, NotifyFacts DEF OtherSignal
  <2>2. \A u \in Tasks : Unmourned(u)' = Unmourned(u)
    BY <2>1 DEF Unmourned
  <2> QED BY <2>1, <2>2, AnswerKept
<1>11. CASE UNCHANGED familyvars
  BY <1>11 DEF familyvars, schedvars, sigvars, AnswerInv, Unmourned
<1> QED
  BY <1>1, <1>2, <1>3, <1>4, <1>6, <1>7, <1>8, <1>9, <1>10, <1>11 DEF FamilyNext

LEMMA AnswerHolds ==
  ASSUME CleanWaits = TRUE
  PROVE  FamilySpec => [](FamilyInv /\ AnswerInv)
<1>1. FamilyInv /\ AnswerInv /\ [FamilyNext]_familyvars => AnswerInv'
  BY AnswerStep
<1> QED BY <1>1, FamilyInvInit, FamilyInvStep, AnswerInit, PTL DEF FamilySpec

\* do_wait's pointer to the child stays good across schedule(), and do_waitpg finds
\* the task whose pid a pending SIGCHLD has (exit.c:155-167, 218-222).
THEOREM ChildIsFound ==
  ASSUME CleanWaits = TRUE
  PROVE  FamilySpec => []WaitedChildStays
<1>1. FamilyInv /\ AnswerInv => WaitedChildStays
  BY DEF FamilyInv, WaitInv, AnswerInv, Unmourned, WaitedChildStays, Living
<1> QED BY <1>1, AnswerHolds, PTL

\* However many children exit, and in whatever order, no task but init sleeps on
\* beside a zombie that it waits for: the SIGCHLD that is dropped is never the one
\* that would have woken it.
THEOREM WaitIsAnswered ==
  ASSUME CleanWaits = TRUE
  PROVE  FamilySpec => []ChildHeard
<1>1. FamilyInv /\ AnswerInv => ChildHeard
  BY DEF AnswerInv, Unmourned, Children, ChildHeard, SleepsThrough, Waiting
<1> QED BY <1>1, AnswerHolds, PTL
=============================================================================
