--------------------------- MODULE SignalsProofs ---------------------------
(***************************************************************************)
(* Theorems about signals, for every set of processes, signals and masks,   *)
(* stacks of any size and any number of calls: types, which say that        *)
(* SIGKILL, SIGSTOP and SIGCONT are never blocked, nor in a frame that      *)
(* sigreturn takes a mask from; and the mask that a program chose comes     *)
(* back when its handlers return by the code on the stack.                 *)
(***************************************************************************)
EXTENDS Signals, WellFoundedInduction, TLAPS

-----------------------------------------------------------------------------
(* The least and the greatest of some numbers, which CHOOSE finds. *)

LEMMA LeastExists ==
  ASSUME NEW S \in SUBSET Nat, S # {}
  PROVE  \E x \in S : \A y \in S : x <= y
<1>1. PICK x \in S : \A y \in S : ~ (<<y, x>> \in OpToRel(<, Nat))
  BY NatLessThanWellFounded, WFMin, Zenon
<1>2. \A y \in S : ~(y < x)
  BY <1>1 DEF OpToRel
<1> QED BY <1>2

LEMMA GreatestExists ==
  ASSUME NEW n \in Nat, NEW S \in SUBSET (0 .. n), S # {}
  PROVE  \E x \in S : \A y \in S : x >= y
<1> DEFINE T == {n - s : s \in S}
<1>1. T \in SUBSET Nat /\ T # {}
  <2>1. \A s \in S : s \in 0 .. n
    OBVIOUS
  <2>2. \A s \in S : n - s \in Nat
    BY <2>1
  <2> QED BY <2>2
<1>2. PICK m \in T : \A k \in T : m <= k
  BY <1>1, LeastExists
<1>3. PICK x \in S : m = n - x
  OBVIOUS
<1>4. \A y \in S : n - x <= n - y
  BY <1>2, <1>3
<1> QED BY <1>4

LEMMA MinFacts ==
  ASSUME NEW S \in SUBSET Nat, S # {}
  PROVE  Min(S) \in S
BY LeastExists DEF Min

LEMMA MaxFacts ==
  ASSUME NEW n \in Nat, NEW S \in SUBSET (0 .. n), S # {}
  PROVE  Max(S) \in S
BY GreatestExists DEF Max

-----------------------------------------------------------------------------
(* Processes. *)

\* What a process can be, with a stack of any size.
Frames == Seq(SUBSET (Used \ SIG_UNMASKABLE))

ProcessType ==
  [status : {"free", "user", "asleep", "waiting", "returning", "stopped", "zombie", "gone"},
   ece391 : BOOLEAN, pgid : Processes,
   pending : SUBSET Used, forced : SUBSET Used, blocked : SUBSET (Used \ SIG_UNMASKABLE),
   action : [Used -> Actions], frames : Frames, astray : BOOLEAN]

\* The mask that p will have outside all handlers.
OuterMask(p) == IF p.ece391 \/ p.frames = << >> THEN p.blocked ELSE p.frames[1]

IsLiving(p) == p.status \notin {"free", "zombie", "gone"}

\* That mask is the one that the program chose.
Keeps(p) == IsLiving(p) /\ ~p.astray

SignalsInv == SignalsTypeOK /\ MaskComesBack

LEMMA TypeMeans ==
  SignalsTypeOK <=>
    /\ process \in [Processes -> ProcessType]
    /\ \A t \in Processes : Len(process[t].frames) <= MaxFrames
    /\ chosen \in [Processes -> SUBSET Used] /\ calls \in 0 .. MaxCalls
BY DEF SignalsTypeOK, ProcessType, Frames

LEMMA MaskMeans ==
  MaskComesBack <=>
    \A t \in Processes : Keeps(process[t]) => chosen[t] = OuterMask(process[t])
BY DEF MaskComesBack, Living, Keeps, IsLiving, OuterMask

LEMMA UsedFacts ==
  /\ SIGSEGV \in Used /\ SIGSEGV \notin SIG_UNMASKABLE /\ 0 \notin Used
  /\ Used \subseteq 1 .. 31 /\ {} \subseteq Used
BY SignalsAssumption DEF SIGSEGV, SIGKILL, SIGSTOP, SIGCONT, SIG_UNMASKABLE

\* Every action has a mask of used signals.
LEMMA ActionFacts ==
  /\ SIG_DFL \in Actions /\ SIG_IGN \in Actions
  /\ \A a \in Actions : a.mask \subseteq Used
<1>1. SIG_DFL.mask = {} /\ SIG_IGN.mask = {}
  BY DEF SIG_DFL, SIG_IGN, Action
<1>2. \A M \in Masks : Action("catch", M).mask \subseteq Used
  BY SignalsAssumption DEF Action
<1> QED BY <1>1, <1>2 DEF Actions

\* The signal that deliver_signal takes is one that is pending, or there is none.
LEMMA OneFacts ==
  ASSUME NEW p \in ProcessType, signal_pending_one(p) # 0
  PROVE  signal_pending_one(p) \in p.pending /\ signal_pending_one(p) \in Used
<1> DEFINE S == IF fatal_signal_pending(p) # {} THEN fatal_signal_pending(p)
                                              ELSE signal_pending(p) \union {0}
<1>1. fatal_signal_pending(p) \subseteq p.pending /\ signal_pending(p) \subseteq p.pending
  BY DEF fatal_signal_pending, signal_pending
<1>2. p.pending \subseteq Used
  BY DEF ProcessType
<1>3. S # {} /\ S \subseteq p.pending \union {0} /\ S \in SUBSET (0 .. 31)
  <2>1. S # {} /\ S \subseteq p.pending \union {0}
    BY <1>1
  <2>2. \A s \in Used \union {0} : s \in 0 .. 31
    BY UsedFacts
  <2> QED BY <1>2, <2>1, <2>2
<1> HIDE DEF S
<1>4. Max(S) \in S
  BY <1>3, MaxFacts
<1>5. signal_pending_one(p) = Max(S)
  BY DEF signal_pending_one, S
<1> QED BY <1>2, <1>3, <1>4, <1>5

\* What is sent to a process changes only what is pending for it, and may wake it.
LEMMA SentFacts ==
  ASSUME NEW p \in ProcessType, NEW s \in Used
  PROVE  /\ Sent(p, s) \in ProcessType /\ Forced(p, s) \in ProcessType
         /\ Sent(p, s).frames = p.frames /\ Forced(p, s).frames = p.frames
         /\ Sent(p, s).astray = p.astray /\ Forced(p, s).astray = p.astray
         /\ IsLiving(Sent(p, s)) <=> IsLiving(p)
         /\ IsLiving(Forced(p, s)) <=> IsLiving(p)
         /\ OuterMask(Sent(p, s)) = OuterMask(p) /\ OuterMask(Forced(p, s)) = OuterMask(p)
<1> DEFINE q == [p EXCEPT !.pending = @ \union {s}]
           w == [q EXCEPT !.status = "returning"]
<1>1. /\ q \in ProcessType /\ q.frames = p.frames /\ q.blocked = p.blocked
      /\ q.ece391 = p.ece391 /\ q.astray = p.astray /\ q.status = p.status
  BY DEF ProcessType
<1>2. /\ w \in ProcessType /\ w.frames = p.frames /\ w.blocked = p.blocked
      /\ w.ece391 = p.ece391 /\ w.astray = p.astray /\ w.status = "returning"
  BY <1>1 DEF ProcessType
<1>3. \/ Sent(p, s) = p
      \/ Sent(p, s) = q
      \/ p.status \in {"asleep", "waiting"} /\ Sent(p, s) = w
  BY DEF Sent
<1> HIDE DEF q, w
<1>4. /\ Sent(p, s) \in ProcessType /\ Sent(p, s).frames = p.frames
      /\ Sent(p, s).blocked = p.blocked /\ Sent(p, s).ece391 = p.ece391
      /\ Sent(p, s).astray = p.astray /\ (IsLiving(Sent(p, s)) <=> IsLiving(p))
  BY <1>1, <1>2, <1>3 DEF IsLiving
<1>5. /\ Forced(p, s) \in ProcessType /\ Forced(p, s).frames = p.frames
      /\ Forced(p, s).blocked = p.blocked /\ Forced(p, s).ece391 = p.ece391
      /\ Forced(p, s).astray = p.astray /\ Forced(p, s).status = Sent(p, s).status
  BY <1>4 DEF Forced, ProcessType
<1> QED BY <1>4, <1>5 DEF OuterMask, IsLiving

\* A handler's frame keeps the mask that was in force.
LEMMA HandledFacts ==
  ASSUME NEW p \in ProcessType, NEW s \in Used
  PROVE  /\ Handled(p, s) \in ProcessType
         /\ Len(Handled(p, s).frames) = Len(p.frames) + 1
         /\ Handled(p, s).astray = p.astray
         /\ OuterMask(Handled(p, s)) = OuterMask(p)
<1> DEFINE M == IF p.ece391 THEN {} ELSE p.blocked
           Sets == SUBSET (Used \ SIG_UNMASKABLE)
<1>1. /\ p.frames \in Seq(Sets) /\ p.blocked \in Sets /\ p.action[s] \in Actions
      /\ p.ece391 \in BOOLEAN
  BY DEF ProcessType, Frames
<1>2. M \in Sets
  BY <1>1
<1>3. p.action[s].mask \ SIG_UNMASKABLE \in Sets
  BY <1>1, ActionFacts
<1> HIDE DEF M, Sets
<1>4. /\ Append(p.frames, M) \in Seq(Sets) /\ Append(p.frames, M) # << >>
      /\ Len(Append(p.frames, M)) = Len(p.frames) + 1
      /\ p.frames # << >> => Append(p.frames, M)[1] = p.frames[1]
      /\ p.frames = << >> => Append(p.frames, M)[1] = M
  BY <1>1, <1>2
<1>5. /\ Handled(p, s).frames = Append(p.frames, M)
      /\ Handled(p, s).ece391 = p.ece391 /\ Handled(p, s).astray = p.astray
      /\ p.ece391 => Handled(p, s).blocked = p.blocked
  BY DEF Handled, ProcessType, M
<1>6. Handled(p, s) \in ProcessType
  <2>1. CASE p.ece391
    BY <1>4, <2>1 DEF Handled, ProcessType, Frames, M, Sets
  <2>2. CASE ~p.ece391
    BY <1>3, <1>4, <2>2 DEF Handled, ProcessType, Frames, M, Sets
  <2> QED BY <2>1, <2>2
<1> QED BY <1>4, <1>5, <1>6 DEF OuterMask, M

\* A stack without its innermost frame has the same outermost one, unless that was
\* the innermost too.
LEMMA FrontFacts ==
  ASSUME NEW S, NEW f \in Seq(S), f # << >>
  PROVE  /\ Front(f) \in Seq(S) /\ Len(Front(f)) <= Len(f) /\ Last(f) \in S
         /\ Front(f) = << >> => Last(f) = f[1]
         /\ Front(f) # << >> => Front(f)[1] = f[1]
<1>1. Len(f) \in Nat /\ Len(f) > 0 /\ \A i \in 1 .. Len(f) : f[i] \in S
  OBVIOUS
<1>2. /\ Front(f) \in Seq(S) /\ Len(Front(f)) = Len(f) - 1
      /\ Len(f) > 1 => Front(f)[1] = f[1]
  <2>1. SubSeq(f, 1, Len(f) - 1) \in Seq(S)
    BY <1>1
  <2>2. Len(SubSeq(f, 1, Len(f) - 1)) = Len(f) - 1
    BY <1>1
  <2>3. Len(f) > 1 => SubSeq(f, 1, Len(f) - 1)[1] = f[1]
    BY <1>1
  <2> QED BY <2>1, <2>2, <2>3 DEF Front
<1>3. Front(f) = << >> => Len(f) = 1
  BY <1>1, <1>2
<1>4. Front(f) # << >> => Len(f) > 1
  BY <1>1, <1>2
<1> QED BY <1>1, <1>2, <1>3, <1>4 DEF Last

\* sigreturn takes the mask of the innermost frame, and when that is the only one
\* it is the outermost.
LEMMA ReturnedFacts ==
  ASSUME NEW p \in ProcessType, p.frames # << >>
  PROVE  LET q == [p EXCEPT !.frames = Front(@), !.status = "returning",
                            !.blocked = IF p.ece391 THEN @ ELSE Last(p.frames) \ SIG_UNMASKABLE]
         IN  /\ q \in ProcessType
             /\ Len(q.frames) <= Len(p.frames)
             /\ q.astray = p.astray
             /\ OuterMask(q) = OuterMask(p)
<1> DEFINE Sets == SUBSET (Used \ SIG_UNMASKABLE)
           mask == IF p.ece391 THEN p.blocked ELSE Last(p.frames) \ SIG_UNMASKABLE
           q == [p EXCEPT !.frames = Front(@), !.status = "returning", !.blocked = mask]
<1>1. p.frames \in Seq(Sets) /\ p.blocked \in Sets
  BY DEF ProcessType, Frames
<1>2. /\ Front(p.frames) \in Seq(Sets) /\ Len(Front(p.frames)) <= Len(p.frames)
      /\ Last(p.frames) \in Sets
      /\ Front(p.frames) = << >> => Last(p.frames) = p.frames[1]
      /\ Front(p.frames) # << >> => Front(p.frames)[1] = p.frames[1]
  BY <1>1, FrontFacts
<1>3. mask = IF p.ece391 THEN p.blocked ELSE Last(p.frames)
  BY <1>2
<1>4. mask \in Sets
  BY <1>1, <1>2, <1>3
<1> HIDE DEF mask
<1>5. /\ q.frames = Front(p.frames) /\ q.ece391 = p.ece391 /\ q.blocked = mask
      /\ q.astray = p.astray /\ q \in ProcessType
  BY <1>2, <1>4 DEF ProcessType, Frames
<1> HIDE DEF q
<1>6. OuterMask(q) = OuterMask(p)
  BY <1>2, <1>3, <1>5 DEF OuterMask
<1> QED BY <1>2, <1>5, <1>6 DEF q, mask

-----------------------------------------------------------------------------
(* Steps. *)

\* A step that leaves every process that lives on with its outer mask.
LEMMA MasksKept ==
  ASSUME SignalsInv, chosen' = chosen, calls' \in 0 .. MaxCalls,
         process' \in [Processes -> ProcessType],
         \A t \in Processes :
           /\ Len(process'[t].frames) <= MaxFrames
           /\ Keeps(process'[t]) =>
                Keeps(process[t]) /\ OuterMask(process'[t]) = OuterMask(process[t])
  PROVE  SignalsInv'
<1>1. /\ chosen \in [Processes -> SUBSET Used]
      /\ \A t \in Processes : Keeps(process[t]) => chosen[t] = OuterMask(process[t])
  BY TypeMeans, MaskMeans DEF SignalsInv
<1>2. SignalsTypeOK'
  BY <1>1 DEF SignalsTypeOK, ProcessType, Frames
<1>3. \A t \in Processes : Keeps(process'[t]) => chosen[t] = OuterMask(process'[t])
  BY <1>1
<1>4. MaskComesBack'
  BY <1>3 DEF MaskComesBack, Living, Keeps, IsLiving, OuterMask
<1> QED BY <1>2, <1>4 DEF SignalsInv

\* The same when one process changes.
LEMMA OneChanges ==
  ASSUME SignalsInv, NEW t \in Processes, NEW p \in ProcessType, Becomes(t, p),
         chosen' = chosen, calls' \in 0 .. MaxCalls,
         Len(p.frames) <= MaxFrames,
         Keeps(p) => Keeps(process[t]) /\ OuterMask(p) = OuterMask(process[t])
  PROVE  SignalsInv'
<1>1. /\ process \in [Processes -> ProcessType]
      /\ \A u \in Processes : Len(process[u].frames) <= MaxFrames
  BY TypeMeans DEF SignalsInv
<1>2. /\ process' = [process EXCEPT ![t] = p]
      /\ process' \in [Processes -> ProcessType]
      /\ \A u \in Processes : process'[u] = IF u = t THEN p ELSE process[u]
  BY <1>1 DEF Becomes
<1>3. \A u \in Processes :
        /\ Len(process'[u].frames) <= MaxFrames
        /\ Keeps(process'[u]) =>
             Keeps(process[u]) /\ OuterMask(process'[u]) = OuterMask(process[u])
  BY <1>1, <1>2
<1> QED BY <1>2, <1>3, MasksKept

\* The same when one process gets another status and pending signals.
LEMMA StatusChanges ==
  ASSUME SignalsInv, NEW t \in Processes, IsLiving(process[t]),
         NEW p \in ProcessType, Becomes(t, p),
         p.frames = process[t].frames, p.blocked = process[t].blocked,
         p.ece391 = process[t].ece391, p.astray = process[t].astray,
         chosen' = chosen, calls' \in 0 .. MaxCalls
  PROVE  SignalsInv'
<1>1. /\ Len(p.frames) <= MaxFrames /\ OuterMask(p) = OuterMask(process[t])
      /\ Keeps(p) => Keeps(process[t])
  BY TypeMeans DEF SignalsInv, OuterMask, Keeps
<1> QED BY <1>1, OneChanges

\* The first process, and what is left of one that is no more.
LEMMA BornFacts ==
  /\ Born \in ProcessType /\ Born.frames = << >> /\ Born.blocked = {}
  /\ \A st \in {"free", "gone"} : /\ [Born EXCEPT !.status = st] \in ProcessType
                                 /\ [Born EXCEPT !.status = st].frames = << >>
                                 /\ ~IsLiving([Born EXCEPT !.status = st])
<1>1. Processes \subseteq Nat /\ Processes # {} /\ Min(Processes) \in Processes
  BY SignalsAssumption, MinFacts
<1>2. Born \in ProcessType /\ Born.frames = << >> /\ Born.blocked = {}
  BY <1>1, UsedFacts, ActionFacts DEF Born, ProcessType, Frames
<1> QED BY <1>2 DEF ProcessType, IsLiving

LEMMA SignalsInvInit == SignalsInit => SignalsInv
<1> SUFFICES ASSUME SignalsInit PROVE SignalsInv
  OBVIOUS
<1>1. Processes \subseteq Nat /\ Processes # {} /\ Min(Processes) \in Processes
  BY SignalsAssumption, MinFacts
<1>2. Born \in ProcessType /\ Len(Born.frames) = 0 /\ Born.frames = << >> /\ Born.blocked = {}
  BY BornFacts
<1>3. /\ [Born EXCEPT !.status = "free"] \in ProcessType
      /\ [Born EXCEPT !.status = "free"].frames = << >>
      /\ ~IsLiving([Born EXCEPT !.status = "free"])
  BY BornFacts
<1>4. /\ process \in [Processes -> ProcessType]
      /\ \A t \in Processes :
           /\ process[t].frames = << >> /\ Len(process[t].frames) = 0
           /\ Keeps(process[t]) => OuterMask(process[t]) = {}
  BY <1>1, <1>2, <1>3 DEF SignalsInit, OuterMask, Keeps
<1>5. SignalsTypeOK
  <2>1. /\ chosen \in [Processes -> SUBSET Used] /\ calls \in 0 .. MaxCalls
    BY UsedFacts, SignalsAssumption DEF SignalsInit
  <2>2. \A t \in Processes : Len(process[t].frames) <= MaxFrames
    BY <1>4, SignalsAssumption
  <2> QED BY <1>4, <2>1, <2>2, TypeMeans
<1>6. MaskComesBack
  BY <1>4, MaskMeans DEF SignalsInit
<1> QED BY <1>5, <1>6 DEF SignalsInv

\* deliver_signal: the process dies, or goes on with its outer mask.
LEMMA DeliverStep ==
  ASSUME SignalsInv, NEW t \in Processes, deliver_signal(t)
  PROVE  SignalsInv'
<1> DEFINE p == process[t]
           s == signal_pending_one(p)
           q == [p EXCEPT !.pending = @ \ {s}, !.forced = @ \ {s}]
           fits == Len(p.frames) < MaxFrames
<1>1. /\ p \in ProcessType /\ IsLiving(p) /\ Len(p.frames) \in Nat
      /\ Len(p.frames) <= MaxFrames
      /\ chosen' = chosen /\ calls' \in 0 .. MaxCalls
  BY TypeMeans DEF SignalsInv, deliver_signal, IsLiving, ProcessType, Frames
<1>2. s \in Used
  BY <1>1, OneFacts DEF deliver_signal
<1>3. /\ q \in ProcessType /\ q.frames = p.frames /\ q.blocked = p.blocked
      /\ q.ece391 = p.ece391 /\ q.astray = p.astray
  BY <1>1 DEF ProcessType
<1>4. \/ \E st \in {"zombie", "stopped", "user"} : Becomes(t, [q EXCEPT !.status = st])
      \/ fits /\ Becomes(t, Handled(q, s))
      \/ Becomes(t, [Forced(q, SIGSEGV) EXCEPT !.status = "returning"])
  BY DEF deliver_signal
<1> HIDE DEF q, s
<1>5. /\ Forced(q, SIGSEGV) \in ProcessType
      /\ Forced(q, SIGSEGV).frames = p.frames
      /\ Forced(q, SIGSEGV).astray = p.astray
      /\ OuterMask(Forced(q, SIGSEGV)) = OuterMask(p)
  <2>1. OuterMask(q) = OuterMask(p)
    BY <1>3 DEF OuterMask
  <2> QED BY <1>3, <2>1, UsedFacts, SentFacts
<1>6. /\ Handled(q, s) \in ProcessType
      /\ Len(Handled(q, s).frames) = Len(p.frames) + 1
      /\ Handled(q, s).astray = p.astray
      /\ OuterMask(Handled(q, s)) = OuterMask(p)
  <2>1. OuterMask(q) = OuterMask(p)
    BY <1>3 DEF OuterMask
  <2> QED BY <1>2, <1>3, <2>1, HandledFacts
<1>7. ASSUME NEW st \in {"zombie", "stopped", "user"}, Becomes(t, [q EXCEPT !.status = st])
      PROVE  SignalsInv'
  <2>1. /\ [q EXCEPT !.status = st] \in ProcessType
        /\ [q EXCEPT !.status = st].frames = p.frames
        /\ [q EXCEPT !.status = st].blocked = p.blocked
        /\ [q EXCEPT !.status = st].ece391 = p.ece391
        /\ [q EXCEPT !.status = st].astray = p.astray
    BY <1>3 DEF ProcessType
  <2> QED BY <1>1, <1>7, <2>1, StatusChanges
<1>8. CASE fits /\ Becomes(t, Handled(q, s))
  <2>1. Len(Handled(q, s).frames) <= MaxFrames
    BY <1>1, <1>6, <1>8, SignalsAssumption
  <2>2. Keeps(Handled(q, s)) => Keeps(p)
    BY <1>1, <1>6 DEF Keeps
  <2> QED BY <1>1, <1>6, <1>8, <2>1, <2>2, OneChanges
<1>9. CASE Becomes(t, [Forced(q, SIGSEGV) EXCEPT !.status = "returning"])
  <2> DEFINE r == [Forced(q, SIGSEGV) EXCEPT !.status = "returning"]
  <2>1. /\ r \in ProcessType /\ r.frames = p.frames /\ r.astray = p.astray
        /\ r.blocked = Forced(q, SIGSEGV).blocked /\ r.ece391 = Forced(q, SIGSEGV).ece391
    BY <1>5 DEF ProcessType
  <2> HIDE DEF r
  <2>2. OuterMask(r) = OuterMask(p) /\ (Keeps(r) => Keeps(p))
    BY <1>1, <1>5, <2>1 DEF OuterMask, Keeps
  <2>3. Becomes(t, r)
    BY <1>9 DEF r
  <2> QED BY <1>1, <2>1, <2>2, <2>3, OneChanges
<1> QED BY <1>4, <1>7, <1>8, <1>9

\* A signal to many: their masks are as they were.
LEMMA SendStep ==
  ASSUME SignalsInv, NEW S, NEW s \in Used, SendTo(S, s), UNCHANGED <<chosen, calls>>
  PROVE  SignalsInv'
<1>1. /\ process \in [Processes -> ProcessType] /\ calls \in 0 .. MaxCalls
      /\ \A t \in Processes : Len(process[t].frames) <= MaxFrames
  BY TypeMeans DEF SignalsInv
<1>2. /\ process' \in [Processes -> ProcessType]
      /\ \A t \in Processes :
           \/ process'[t] = process[t]
           \/ process'[t] = Sent(process[t], s)
  BY <1>1, SentFacts DEF SendTo
<1>3. \A t \in Processes :
        /\ Len(process'[t].frames) <= MaxFrames
        /\ Keeps(process'[t]) =>
             Keeps(process[t]) /\ OuterMask(process'[t]) = OuterMask(process[t])
  BY <1>1, <1>2, SentFacts DEF Keeps
<1> QED BY <1>1, <1>2, <1>3, MasksKept

LEMMA SigreturnStep ==
  ASSUME SignalsInv, NEW t \in Processes, sigreturn(t)
  PROVE  SignalsInv'
<1> DEFINE p == process[t]
           q == [p EXCEPT !.frames = Front(@), !.status = "returning",
                          !.blocked = IF p.ece391 THEN @ ELSE Last(p.frames) \ SIG_UNMASKABLE]
<1>1. /\ p \in ProcessType /\ IsLiving(p) /\ Len(p.frames) \in Nat
      /\ Len(p.frames) <= MaxFrames
      /\ chosen' = chosen /\ calls' \in 0 .. MaxCalls
  BY TypeMeans DEF SignalsInv, sigreturn, InUserMode, IsLiving, ProcessType, Frames
<1>2. Becomes(t, q) /\ p.frames # << >>
  BY DEF sigreturn
<1>3. /\ q \in ProcessType /\ OuterMask(q) = OuterMask(p)
      /\ Len(q.frames) <= Len(p.frames) /\ q.astray = p.astray
  BY <1>1, <1>2, ReturnedFacts
<1> HIDE DEF q
<1>4. Len(q.frames) <= MaxFrames
  BY <1>1, <1>3, SignalsAssumption DEF ProcessType, Frames
<1>5. Keeps(q) => Keeps(p)
  BY <1>1, <1>3 DEF Keeps
<1> QED BY <1>1, <1>2, <1>3, <1>4, <1>5, OneChanges

\* From elsewhere: a SIGSEGV, or any mask, and nothing is promised of it any more.
LEMMA StrayStep ==
  ASSUME SignalsInv, NEW t \in Processes, StrayReturn(t)
  PROVE  SignalsInv'
<1> DEFINE p == process[t]
           r == [Forced(p, SIGSEGV) EXCEPT !.status = "returning"]
           q(M) == [p EXCEPT !.frames = << >>, !.status = "returning", !.astray = @ \/ ~p.ece391,
                             !.blocked = IF p.ece391 THEN @ ELSE M \ SIG_UNMASKABLE]
<1>1. /\ p \in ProcessType /\ IsLiving(p) /\ Len(p.frames) \in Nat
      /\ Len(p.frames) <= MaxFrames
      /\ chosen' = chosen /\ calls' \in 0 .. MaxCalls
  <2>1. p.status = "user" /\ chosen' = chosen /\ calls' = calls
    <3>1. InUserMode(t) /\ UNCHANGED <<chosen, calls>>
      BY Zenon DEF StrayReturn
    <3> QED BY <3>1 DEF InUserMode
  <2> QED BY <2>1, TypeMeans DEF SignalsInv, IsLiving, ProcessType, Frames
<1>2. Becomes(t, r) \/ \E M \in Masks : Becomes(t, q(M))
  BY DEF StrayReturn
<1> HIDE DEF r, q
<1>3. CASE Becomes(t, r)
  <2>1. /\ Forced(p, SIGSEGV) \in ProcessType
        /\ Forced(p, SIGSEGV).frames = p.frames
        /\ Forced(p, SIGSEGV).astray = p.astray
        /\ OuterMask(Forced(p, SIGSEGV)) = OuterMask(p)
    BY <1>1, UsedFacts, SentFacts
  <2>2. /\ r \in ProcessType /\ r.frames = p.frames /\ r.astray = p.astray
        /\ r.blocked = Forced(p, SIGSEGV).blocked /\ r.ece391 = Forced(p, SIGSEGV).ece391
    BY <2>1 DEF ProcessType, r
  <2>3. OuterMask(r) = OuterMask(p) /\ (Keeps(r) => Keeps(p))
    BY <1>1, <2>1, <2>2 DEF OuterMask, Keeps
  <2> QED BY <1>1, <1>3, <2>2, <2>3, OneChanges
<1>4. ASSUME NEW M \in Masks, Becomes(t, q(M)) PROVE SignalsInv'
  <2>1. M \ SIG_UNMASKABLE \in SUBSET (Used \ SIG_UNMASKABLE)
    BY SignalsAssumption
  <2>2. p.ece391 \in BOOLEAN /\ p.astray \in BOOLEAN /\ << >> \in Frames
    BY <1>1 DEF ProcessType, Frames
  <2>3. CASE p.ece391
    <3>1. /\ q(M) \in ProcessType /\ q(M).frames = << >> /\ q(M).blocked = p.blocked
          /\ q(M).ece391 = p.ece391 /\ (q(M).astray <=> p.astray)
      BY <1>1, <2>2, <2>3 DEF ProcessType, q
    <3>2. OuterMask(q(M)) = OuterMask(p) /\ (Keeps(q(M)) => Keeps(p))
      BY <1>1, <2>3, <3>1 DEF OuterMask, Keeps
    <3>3. Len(q(M).frames) <= MaxFrames
      BY <3>1, SignalsAssumption
    <3> QED BY <1>1, <1>4, <3>1, <3>2, <3>3, OneChanges
  <2>4. CASE ~p.ece391
    <3>1. q(M) \in ProcessType /\ q(M).frames = << >> /\ q(M).astray
      BY <1>1, <2>1, <2>2, <2>4 DEF ProcessType, q
    <3>2. ~Keeps(q(M))
      BY <3>1 DEF Keeps
    <3>3. Len(q(M).frames) <= MaxFrames
      BY <3>1, SignalsAssumption
    <3> QED BY <1>1, <1>4, <3>1, <3>2, <3>3, OneChanges
  <2> QED BY <2>2, <2>3, <2>4
<1> QED BY <1>2, <1>3, <1>4

\* What a program chooses to block is its outer mask as long as it runs no handler.
LEMMA MaskStep ==
  ASSUME SignalsInv, NEW t \in Processes, NEW M \in Masks, rt_sigprocmask(t, M)
  PROVE  SignalsInv'
<1> DEFINE p == process[t]
           set == M \ SIG_UNMASKABLE
           q == [p EXCEPT !.blocked = set]
<1>1. /\ process \in [Processes -> ProcessType]
      /\ chosen \in [Processes -> SUBSET Used] /\ calls \in 0 .. MaxCalls
      /\ \A u \in Processes : Len(process[u].frames) <= MaxFrames
      /\ \A u \in Processes : Keeps(process[u]) => chosen[u] = OuterMask(process[u])
  BY TypeMeans, MaskMeans DEF SignalsInv
<1>2. set \in SUBSET (Used \ SIG_UNMASKABLE) /\ set \in SUBSET Used
  BY SignalsAssumption
<1>3. p \in ProcessType /\ IsLiving(p) /\ ~p.ece391
  BY <1>1 DEF rt_sigprocmask, InUserMode, IsLiving
<1>4. /\ process' = [process EXCEPT ![t].blocked = set]
      /\ chosen' = IF p.frames = << >> THEN [chosen EXCEPT ![t] = set] ELSE chosen
      /\ calls' = calls + 1 /\ calls < MaxCalls
  BY DEF rt_sigprocmask, Counted
<1> HIDE DEF set
<1>5. /\ q \in ProcessType /\ q.frames = p.frames /\ q.ece391 = p.ece391
      /\ q.blocked = set /\ q.status = p.status /\ q.astray = p.astray
  BY <1>2, <1>3 DEF ProcessType
<1>6. /\ process'[t] = q
      /\ \A u \in Processes \ {t} : process'[u] = process[u]
      /\ process' \in [Processes -> ProcessType]
  BY <1>1, <1>4, <1>5
<1>7. SignalsTypeOK'
  <2>1. chosen' \in [Processes -> SUBSET Used] /\ calls' \in 0 .. MaxCalls
    BY <1>1, <1>2, <1>4, SignalsAssumption
  <2>2. \A u \in Processes : Len(process'[u].frames) <= MaxFrames
    BY <1>1, <1>5, <1>6
  <2> QED BY <1>6, <2>1, <2>2 DEF SignalsTypeOK, ProcessType, Frames
<1> HIDE DEF q
<1>8. \A u \in Processes : Keeps(process'[u]) => chosen'[u] = OuterMask(process'[u])
  <2>1. ASSUME Keeps(q) PROVE chosen'[t] = OuterMask(process'[t])
    <3>1. OuterMask(q) = IF p.frames = << >> THEN set ELSE p.frames[1]
      BY <1>3, <1>5 DEF OuterMask
    <3>2. chosen[t] = IF p.frames = << >> THEN p.blocked ELSE p.frames[1]
      BY <1>1, <1>3, <1>5, <2>1 DEF OuterMask, Keeps
    <3> QED BY <1>1, <1>4, <1>6, <3>1, <3>2
  <2>2. \A u \in Processes \ {t} : chosen'[u] = chosen[u]
    BY <1>1, <1>4
  <2> QED BY <1>1, <1>6, <2>1, <2>2
<1>9. MaskComesBack'
  BY <1>8 DEF MaskComesBack, Living, Keeps, IsLiving, OuterMask
<1> QED BY <1>7, <1>9 DEF SignalsInv

\* A child has no mask of its own but what its parent's frames keep.
LEMMA ForkStep ==
  ASSUME SignalsInv, NEW t \in Processes, NEW c \in Processes, Fork(t, c)
  PROVE  SignalsInv'
<1> DEFINE p == process[t]
           q == [p EXCEPT !.pending = {}, !.forced = {}, !.blocked = {}]
           mask == IF p.ece391 \/ p.frames = << >> THEN {} ELSE chosen[t]
<1>1. /\ process \in [Processes -> ProcessType]
      /\ chosen \in [Processes -> SUBSET Used] /\ calls \in 0 .. MaxCalls
      /\ \A u \in Processes : Len(process[u].frames) <= MaxFrames
      /\ \A u \in Processes : Keeps(process[u]) => chosen[u] = OuterMask(process[u])
  BY TypeMeans, MaskMeans DEF SignalsInv
<1>2. /\ p \in ProcessType /\ IsLiving(p)
      /\ process' = [process EXCEPT ![c] = q]
      /\ chosen' = [chosen EXCEPT ![c] = mask] /\ calls' = calls
  BY <1>1 DEF Fork, InUserMode, IsLiving
<1>3. /\ q \in ProcessType /\ q.frames = p.frames /\ q.ece391 = p.ece391
      /\ q.blocked = {} /\ q.status = p.status /\ q.astray = p.astray
  BY <1>2 DEF ProcessType
<1> HIDE DEF q
<1>4. (Keeps(q) => mask = OuterMask(q)) /\ mask \in SUBSET Used
  BY <1>1, <1>2, <1>3 DEF OuterMask, Keeps
<1> HIDE DEF mask
<1>5. \A u \in Processes : /\ process'[u] = IF u = c THEN q ELSE process[u]
                          /\ chosen'[u] = IF u = c THEN mask ELSE chosen[u]
  BY <1>1, <1>2
<1>6. /\ process' \in [Processes -> ProcessType] /\ chosen' \in [Processes -> SUBSET Used]
      /\ \A u \in Processes : Len(process'[u].frames) <= MaxFrames
  BY <1>1, <1>2, <1>3, <1>4, <1>5
<1>7. SignalsTypeOK'
  BY <1>1, <1>2, <1>6 DEF SignalsTypeOK, ProcessType, Frames
<1>8. \A u \in Processes : Keeps(process'[u]) => chosen'[u] = OuterMask(process'[u])
  BY <1>1, <1>4, <1>5
<1>9. MaskComesBack'
  BY <1>8 DEF MaskComesBack, Living, Keeps, IsLiving, OuterMask
<1> QED BY <1>7, <1>9 DEF SignalsInv

\* The new program starts outside all handlers, with the mask of the moment.
LEMMA ExecStep ==
  ASSUME SignalsInv, NEW t \in Processes, NEW ece391 \in BOOLEAN, NEW fails \in BOOLEAN,
         Exec(t, ece391, fails)
  PROVE  SignalsInv'
<1> DEFINE p == [process[t] EXCEPT !.ece391 = ece391, !.action = [s \in Used |-> SIG_DFL],
                                   !.frames = << >>, !.astray = FALSE, !.status = "returning"]
           q == IF fails THEN Forced(p, SIGSEGV) ELSE p
<1>1. /\ process \in [Processes -> ProcessType]
      /\ chosen \in [Processes -> SUBSET Used] /\ calls \in 0 .. MaxCalls
      /\ \A u \in Processes : Len(process[u].frames) <= MaxFrames
      /\ \A u \in Processes : Keeps(process[u]) => chosen[u] = OuterMask(process[u])
  BY TypeMeans, MaskMeans DEF SignalsInv
<1>2. /\ process' = [process EXCEPT ![t] = q]
      /\ chosen' = [chosen EXCEPT ![t] = p.blocked]
      /\ calls' = calls + 1 /\ calls < MaxCalls
  BY DEF Exec, Becomes, Counted
<1>3. /\ p \in ProcessType /\ p.frames = << >> /\ p.blocked \in SUBSET Used
      /\ OuterMask(p) = p.blocked
  <2>1. << >> \in Frames /\ [s \in Used |-> SIG_DFL] \in [Used -> Actions]
    BY ActionFacts DEF Frames
  <2>2. process[t] \in ProcessType
    BY <1>1
  <2>3. p \in ProcessType /\ p.frames = << >>
    BY <2>1, <2>2 DEF ProcessType
  <2> HIDE DEF p
  <2> QED BY <2>3 DEF ProcessType, OuterMask
<1> HIDE DEF p
<1>4. q \in ProcessType /\ q.frames = << >> /\ OuterMask(q) = p.blocked
  BY <1>3, UsedFacts, SentFacts
<1> HIDE DEF q
<1>5. \A u \in Processes : /\ process'[u] = IF u = t THEN q ELSE process[u]
                          /\ chosen'[u] = IF u = t THEN p.blocked ELSE chosen[u]
  BY <1>1, <1>2
<1>6. /\ process' \in [Processes -> ProcessType] /\ chosen' \in [Processes -> SUBSET Used]
      /\ \A u \in Processes : Len(process'[u].frames) <= MaxFrames
      /\ calls' \in 0 .. MaxCalls
  <2>1. Len(q.frames) <= MaxFrames
    BY <1>4, SignalsAssumption
  <2> QED BY <1>1, <1>2, <1>3, <1>4, <1>5, <2>1, SignalsAssumption
<1>7. SignalsTypeOK'
  BY <1>6 DEF SignalsTypeOK, ProcessType, Frames
<1>8. \A u \in Processes : Keeps(process'[u]) => chosen'[u] = OuterMask(process'[u])
  BY <1>1, <1>4, <1>5
<1>9. MaskComesBack'
  BY <1>8 DEF MaskComesBack, Living, Keeps, IsLiving, OuterMask
<1> QED BY <1>7, <1>9 DEF SignalsInv

LEMMA SignalsInvStep == SignalsInv /\ [SignalsNext]_signalsvars => SignalsInv'
<1> SUFFICES ASSUME SignalsInv, [SignalsNext]_signalsvars PROVE SignalsInv'
  OBVIOUS
<1>a. /\ process \in [Processes -> ProcessType] /\ calls \in 0 .. MaxCalls
      /\ \A t \in Processes : Len(process[t].frames) <= MaxFrames
  BY TypeMeans DEF SignalsInv
<1>1. ASSUME NEW t \in Processes, deliver_signal(t) \/ sigreturn(t) \/ StrayReturn(t)
      PROVE  SignalsInv'
  BY <1>1, DeliverStep, SigreturnStep, StrayStep
<1>2. ASSUME NEW t \in Processes, Fault(t) PROVE SignalsInv'
  <2>1. /\ IsLiving(process[t]) /\ process[t] \in ProcessType
        /\ Becomes(t, Sent(process[t], SIGSEGV)) /\ chosen' = chosen /\ calls' = calls
    BY <1>2, <1>a DEF Fault, InUserMode, IsLiving
  <2>2. /\ Sent(process[t], SIGSEGV) \in ProcessType
        /\ Sent(process[t], SIGSEGV).frames = process[t].frames
        /\ OuterMask(Sent(process[t], SIGSEGV)) = OuterMask(process[t])
        /\ Keeps(Sent(process[t], SIGSEGV)) => Keeps(process[t])
    BY <2>1, UsedFacts, SentFacts DEF Keeps
  <2> QED BY <1>a, <2>1, <2>2, OneChanges
<1>3. ASSUME NEW t \in Processes,
             Wait(t) \/ Waitpid(t) \/ WaitEnds(t) \/ Exit(t) \/ Return(t)
      PROVE  SignalsInv'
  <2>1. PICK st \in {"asleep", "waiting", "returning", "zombie", "user"} :
          process' = [process EXCEPT ![t].status = st]
    BY <1>3 DEF Wait, Waitpid, WaitEnds, Exit, Return, Becomes
  <2>2. chosen' = chosen /\ calls' = calls /\ IsLiving(process[t])
    BY <1>3 DEF Wait, Waitpid, WaitEnds, Exit, Return, InUserMode, IsLiving
  <2> DEFINE q == [process[t] EXCEPT !.status = st]
  <2>3. /\ q \in ProcessType /\ q.frames = process[t].frames /\ q.astray = process[t].astray
        /\ q.blocked = process[t].blocked /\ q.ece391 = process[t].ece391
    <3>1. process[t] \in ProcessType
      BY <1>a
    <3> QED BY <3>1 DEF ProcessType
  <2>4. Becomes(t, q)
    BY <2>1 DEF Becomes
  <2> HIDE DEF q
  <2> QED BY <1>a, <2>2, <2>3, <2>4, StatusChanges
<1>11. ASSUME NEW t \in Processes, Reaped(t) PROVE SignalsInv'
  <2> DEFINE q == [Born EXCEPT !.status = "gone"]
  <2>1. q \in ProcessType /\ Len(q.frames) = 0 /\ ~Keeps(q)
    BY BornFacts DEF Keeps
  <2>2. Becomes(t, q) /\ chosen' = chosen /\ calls' = calls
    BY <1>11 DEF Reaped
  <2> HIDE DEF q
  <2> QED BY <1>a, <2>1, <2>2, OneChanges, SignalsAssumption
<1>4. ASSUME NEW t \in Processes, NewGroup(t) PROVE SignalsInv'
  <2> DEFINE q == [process[t] EXCEPT !.pgid = t]
  <2>1. /\ IsLiving(process[t]) /\ Becomes(t, q)
        /\ chosen' = chosen /\ calls' \in 0 .. MaxCalls
    BY <1>4, <1>a, SignalsAssumption DEF NewGroup, InUserMode, IsLiving, Counted, Becomes
  <2>2. /\ q \in ProcessType /\ q.frames = process[t].frames
        /\ q.blocked = process[t].blocked /\ q.ece391 = process[t].ece391
        /\ q.astray = process[t].astray
    <3>1. process[t] \in ProcessType
      BY <1>a
    <3> QED BY <3>1 DEF ProcessType
  <2> HIDE DEF q
  <2> QED BY <1>a, <2>1, <2>2, StatusChanges
<1>5. ASSUME NEW t \in Processes, NEW s \in Used, send_sig_info_pg(t, s) \/ Kill(t, s)
      PROVE  SignalsInv'
  <2>1. PICK S : SendTo(S, s)
    BY <1>5 DEF send_sig_info_pg, Kill
  <2>2. UNCHANGED <<chosen, calls>>
    BY <1>5 DEF send_sig_info_pg, Kill
  <2> QED BY <2>1, <2>2, SendStep
<1>6. ASSUME NEW t \in Processes, NEW s \in Used, NEW a \in Actions, SetAction(t, s, a)
      PROVE  SignalsInv'
  <2> DEFINE q == [process[t] EXCEPT !.action[s] = a]
  <2>1. /\ IsLiving(process[t]) /\ Becomes(t, q)
        /\ chosen' = chosen /\ calls' \in 0 .. MaxCalls
    BY <1>6, <1>a, SignalsAssumption DEF SetAction, InUserMode, IsLiving, Counted, Becomes
  <2>2. /\ q \in ProcessType /\ q.frames = process[t].frames
        /\ q.blocked = process[t].blocked /\ q.ece391 = process[t].ece391
        /\ q.astray = process[t].astray
    <3>1. process[t] \in ProcessType
      BY <1>a
    <3> QED BY <3>1 DEF ProcessType
  <2> HIDE DEF q
  <2> QED BY <1>a, <2>1, <2>2, StatusChanges
<1>7. ASSUME NEW t \in Processes, NEW M \in Masks, rt_sigprocmask(t, M) PROVE SignalsInv'
  BY <1>7, MaskStep
<1>8. ASSUME NEW t \in Processes, NEW c \in Processes, Fork(t, c) PROVE SignalsInv'
  BY <1>8, ForkStep
<1>9. ASSUME NEW t \in Processes, NEW ece391 \in BOOLEAN, NEW fails \in BOOLEAN,
             Exec(t, ece391, fails)
      PROVE  SignalsInv'
  BY <1>9, ExecStep
<1>10. CASE UNCHANGED signalsvars
  BY <1>10 DEF signalsvars, SignalsInv, SignalsTypeOK, MaskComesBack, Living
<1> QED
  BY <1>1, <1>2, <1>3, <1>4, <1>5, <1>6, <1>7, <1>8, <1>9, <1>10, <1>11
  DEF SignalsNext

\* No mask that is in force or that a frame keeps blocks SIGKILL, SIGSTOP or
\* SIGCONT, whatever masks handlers and programs ask for and however they nest; and
\* a process keeps its other types.
THEOREM SignalsTypeCorrect == SignalsSpec => []SignalsTypeOK
<1>1. SignalsInv => SignalsTypeOK
  BY DEF SignalsInv
<1> QED BY <1>1, SignalsInvInit, SignalsInvStep, PTL DEF SignalsSpec

\* A program that is back from all its handlers has the mask that it chose, however
\* they interrupted each other, and whether it was forked inside one or not, if they
\* returned by the code on the stack and not by a restorer of the program's.
THEOREM MaskIsRestored == SignalsSpec => []MaskComesBack
<1>1. SignalsInv => MaskComesBack
  BY DEF SignalsInv
<1> QED BY <1>1, SignalsInvInit, SignalsInvStep, PTL DEF SignalsSpec
=============================================================================
