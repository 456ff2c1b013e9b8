---------------------------- MODULE FilesProofs ----------------------------
(***************************************************************************)
(* Theorems about descriptor tables, open files, terminals and sessions,   *)
(* for any number of each and of tasks: types; that every count is the     *)
(* number of its holders; that nothing uncounted outlives what it points   *)
(* at, which alone needs that Misuse is empty.                             *)
(*                                                                         *)
(* TasksHold, TablesHold, Users and Members count holders.  The lemmas     *)
(* named ...Moved say how they change when one task or one table does; the *)
(* lemmas named ...Facts, what each operator on the heap does to a heap    *)
(* that Agrees with given numbers of holders; the lemmas named ...Step put *)
(* the two together, one for each action.                                  *)
(*                                                                         *)
(* After them come the theorems about the other two components of the run  *)
(* MCFilesNamesNet, the network card's driver and the pathnames, which     *)
(* share nothing with these, and one about the three together.             *)
(***************************************************************************)
EXTENDS MCFilesNamesNet, SequenceTheorems, FiniteSetTheorems, WellFoundedInduction, TLAPS

-----------------------------------------------------------------------------
(* Sets and their sizes. *)

LEMMA LeastExists ==
  ASSUME NEW S \in SUBSET Nat, S # {}
  PROVE  \E x \in S : \A y \in S : x <= y
<1>1. PICK x \in S : \A y \in S : ~ (<<y, x>> \in OpToRel(<, Nat))
  BY NatLessThanWellFounded, WFMin, Zenon
<1>2. \A y \in S : ~(y < x)
  BY <1>1 DEF OpToRel
<1> QED BY <1>2

LEMMA MinFacts ==
  ASSUME NEW S \in SUBSET Nat, S # {}
  PROVE  Min(S) \in S
BY LeastExists DEF Min

LEMMA RangesFinite ==
  /\ IsFiniteSet(Tasks) /\ IsFiniteSet(Tables) /\ IsFiniteSet(Files)
  /\ IsFiniteSet(Sessions) /\ IsFiniteSet(Fds)
  /\ Cardinality(Tasks) = NumTasks
<1>1. NumTasks \in Nat \ {0} /\ NumTables \in Nat \ {0} /\ NumFiles \in Nat \ {0}
      /\ NumSessions \in Nat \ {0} /\ NumFds \in Nat \ {0}
  BY FilesAssumption
<1> QED BY <1>1, FS_Interval DEF Tasks, Tables, Files, Sessions, Fds

\* A subset of a finite set is counted by a natural number, and by 0 only when
\* it is empty.
LEMMA Countable ==
  ASSUME NEW S, IsFiniteSet(S), NEW T \in SUBSET S
  PROVE  /\ IsFiniteSet(T) /\ Cardinality(T) \in Nat
         /\ Cardinality(T) <= Cardinality(S)
         /\ Cardinality(T) = 0 <=> T = {}
BY FS_Subset, FS_CardinalityType, FS_EmptySet

\* Two sets that differ in x at most.
LEMMA OneMoved ==
  ASSUME NEW S, NEW T, NEW x, IsFiniteSet(S), IsFiniteSet(T), S \ {x} = T \ {x}
  PROVE  /\ Cardinality(S) \in Nat /\ Cardinality(T) \in Nat
         /\ Cardinality(T) + (IF x \in S THEN 1 ELSE 0)
              = Cardinality(S) + (IF x \in T THEN 1 ELSE 0)
<1>1. Cardinality(S) \in Nat /\ Cardinality(T) \in Nat
  BY FS_CardinalityType
<1>2. Cardinality(S \ {x}) = IF x \in S THEN Cardinality(S) - 1 ELSE Cardinality(S)
  BY FS_RemoveElement
<1>3. Cardinality(T \ {x}) = IF x \in T THEN Cardinality(T) - 1 ELSE Cardinality(T)
  BY FS_RemoveElement
<1> QED BY <1>1, <1>2, <1>3

\* A set that falls into two parts.
LEMMA TwoParts ==
  ASSUME NEW S, IsFiniteSet(S), NEW T \in SUBSET S
  PROVE  /\ Cardinality(S) \in Nat /\ Cardinality(T) \in Nat /\ Cardinality(S \ T) \in Nat
         /\ Cardinality(S) = Cardinality(T) + Cardinality(S \ T)
<1>1. S \cap T = T
  OBVIOUS
<1>2. IsFiniteSet(S \ T) /\ Cardinality(S \ T) = Cardinality(S) - Cardinality(T)
  BY <1>1, FS_Difference
<1>3. Cardinality(S) \in Nat /\ Cardinality(T) \in Nat /\ Cardinality(S \ T) \in Nat
  BY <1>2, FS_Subset, FS_CardinalityType
<1> QED BY <1>2, <1>3

\* Pairs of an x and a descriptor: those of one x, and the others.
Others(R, x) == {p \in R : p[1] # x}
FdsOf(R, x) == {d \in Fds : <<x, d>> \in R}

LEMMA PairsOfOne ==
  ASSUME NEW X, IsFiniteSet(X), NEW R \in SUBSET (X \X Fds), NEW x
  PROVE  /\ IsFiniteSet(R) /\ Cardinality(R) \in Nat
         /\ Cardinality(Others(R, x)) \in Nat /\ Cardinality(FdsOf(R, x)) \in Nat
         /\ Cardinality(R) = Cardinality(Others(R, x)) + Cardinality(FdsOf(R, x))
<1> DEFINE D == {d \in Fds : <<x, d>> \in R}
           T == {p \in R : p[1] = x}
           g == [d \in D |-> <<x, d>>]
<1>1. IsFiniteSet(R)
  <2>1. IsFiniteSet(X \X Fds)
    BY RangesFinite, FS_Product
  <2> QED BY <2>1, FS_Subset
<1>2. IsFiniteSet(D)
  <2>1. D \in SUBSET Fds
    OBVIOUS
  <2> QED BY <2>1, RangesFinite, FS_Subset
<1>3. Cardinality(T) = Cardinality(D)
  <2>1. g \in Bijection(D, T)
    <3>1. g \in [D -> T]
      OBVIOUS
    <3>2. \A a, b \in D : g[a] = g[b] => a = b
      OBVIOUS
    <3>3. \A p \in T : \E a \in D : g[a] = p
      <4> TAKE p \in T
      <4>1. p \in X \X Fds /\ p[1] = x /\ p \in R
        OBVIOUS
      <4>2. p = <<x, p[2]>> /\ p[2] \in Fds
        BY <4>1
      <4>3. p[2] \in D /\ g[p[2]] = p
        BY <4>1, <4>2
      <4> QED BY <4>3
    <3> QED BY <3>1, <3>2, <3>3 DEF Bijection, Injection, Surjection, IsInjective
  <2>2. ExistsBijection(D, T)
    BY <2>1 DEF ExistsBijection
  <2> QED BY <1>2, <2>2, FS_Bijection
<1>4. T \in SUBSET R /\ R \ T = Others(R, x)
  BY DEF Others
<1>5. /\ Cardinality(R) \in Nat /\ Cardinality(T) \in Nat /\ Cardinality(R \ T) \in Nat
      /\ Cardinality(R) = Cardinality(T) + Cardinality(R \ T)
  BY <1>1, <1>4, TwoParts
<1>6. Cardinality(Others(R, x)) = Cardinality(R \ T)
  BY <1>4
<1>7. Cardinality(T) = Cardinality(FdsOf(R, x))
  BY <1>3 DEF FdsOf
<1> HIDE DEF D, T, g
<1> QED BY <1>1, <1>5, <1>6, <1>7
-----------------------------------------------------------------------------
(* What tasks and tables hold. *)

SetTo(c, x, n) == [c EXCEPT ![x] = n]

TaskType ==
  [status : {"free", "alive", "zombie", "gone"}, mm : BOOLEAN, execing : BOOLEAN, ece391 : BOOLEAN,
   files : Tables \union {None}, cwd : Files \union {None}, exe : Files \union {None},
   session : Sessions \union {None}, pgid : 0 .. NumTasks,
   reading : Files \union {None}, polled : [Fds -> Files \union {None}]]

TableType == [refs : Nat, fd : [Fds -> Files \union {None}], cloexec : SUBSET Fds]

\* A task with other values in some of its fields.
Cloned(p, b, x, g) == [p EXCEPT !.files = b, !.execing = x, !.pgid = g]

ClonedAs(r, p, b, x) ==
  /\ r.files = b /\ r.execing = x /\ r.mm = p.mm
  /\ r.reading = p.reading /\ r.session = p.session /\ r.status = p.status
  /\ r.cwd = p.cwd /\ r.exe = p.exe /\ r.polled = p.polled

LEMMA ClonedFields ==
  ASSUME NEW p \in TaskType, NEW b \in Tables \union {None}, NEW x \in BOOLEAN, NEW g \in 0 .. NumTasks,
         NEW r, r = Cloned(p, b, x, g)
  PROVE  r \in TaskType /\ ClonedAs(r, p, b, x)
<1>1. r \in TaskType
  BY ZenonT(30) DEF TaskType, Cloned
<1>2. ClonedAs(r, p, b, x)
  BY DEF TaskType, Cloned, ClonedAs
<1> QED BY <1>1, <1>2

Execed(p, f, x) == [p EXCEPT !.exe = f, !.ece391 = x, !.execing = FALSE]

ExecedAs(r, p, f) ==
  /\ r.files = p.files /\ r.execing = FALSE /\ r.mm = p.mm
  /\ r.reading = p.reading /\ r.session = p.session /\ r.status = p.status
  /\ r.cwd = p.cwd /\ r.exe = f /\ r.polled = p.polled

LEMMA ExecedFields ==
  ASSUME NEW p \in TaskType, NEW f \in Files \union {None}, NEW x \in BOOLEAN,
         NEW r, r = Execed(p, f, x)
  PROVE  r \in TaskType /\ ExecedAs(r, p, f)
<1>1. r \in TaskType
  BY DEF TaskType, Execed
<1>2. ExecedAs(r, p, f)
  BY DEF TaskType, Execed, ExecedAs
<1> QED BY <1>1, <1>2

Started(p, b, e, w, x) == [p EXCEPT !.files = b, !.exe = e, !.cwd = w, !.mm = TRUE, !.ece391 = x]

StartedAs(r, p, b, e, w) ==
  /\ r.files = b /\ r.execing = p.execing /\ r.mm
  /\ r.reading = p.reading /\ r.session = p.session /\ r.status = p.status
  /\ r.cwd = w /\ r.exe = e /\ r.polled = p.polled

LEMMA StartedFields ==
  ASSUME NEW p \in TaskType, NEW b \in Tables \union {None}, NEW e \in Files \union {None},
         NEW w \in Files \union {None}, NEW x \in BOOLEAN,
         NEW r, r = Started(p, b, e, w, x)
  PROVE  r \in TaskType /\ StartedAs(r, p, b, e, w)
<1>1. r \in TaskType
  BY DEF TaskType, Started
<1>2. StartedAs(r, p, b, e, w)
  BY DEF TaskType, Started, StartedAs
<1> QED BY <1>1, <1>2

\* A table with another count of users.
LEMMA TableUsed ==
  ASSUME NEW q \in TableType, NEW n \in Nat
  PROVE  /\ [q EXCEPT !.refs = n] \in TableType /\ [q EXCEPT !.refs = n].refs = n
         /\ [q EXCEPT !.refs = n].fd = q.fd
BY DEF TableType

\* What one task and one table hold of a file.
TaskHolds(r, f) ==
  IF r.status = "alive" THEN One(r.cwd)[f] + One(r.exe)[f] + In(r.polled, Fds)[f] ELSE 0

TableHolds(r, f) == IF r.refs > 0 THEN In(r.fd, Fds)[f] ELSE 0

\* What all of them hold, with the tasks tk and the tables tb.
Living(tk) == {t \in Tasks : tk[t].status = "alive"}

TasksHold(tk, f) ==
  Cardinality({t \in Living(tk) : tk[t].cwd = f}) + Cardinality({t \in Living(tk) : tk[t].exe = f})
  + Cardinality({p \in Living(tk) \X Fds : tk[p[1]].polled[p[2]] = f})

TablesHold(tb, f) ==
  Cardinality({p \in Tables \X Fds : tb[p[1]].refs > 0 /\ tb[p[1]].fd[p[2]] = f})

\* Whether one task uses the table b, is a member of the session s.
Uses(r, b) == IF r.status = "alive" /\ r.files = b THEN 1 ELSE 0
IsIn(r, s) == IF r.status = "alive" /\ r.session = s THEN 1 ELSE 0

Users(tk, b) == Cardinality({t \in Living(tk) : tk[t].files = b})

Members(tk, s) == Cardinality({t \in Living(tk) : tk[t].session = s})

LEMMA OneType ==
  ASSUME NEW x
  PROVE  One(x) \in [Files -> Nat] /\ \A f \in Files : One(x)[f] = IF f = x THEN 1 ELSE 0
BY DEF One

LEMMA InType ==
  ASSUME NEW slots, NEW D \in SUBSET Fds
  PROVE  /\ In(slots, D) \in [Files -> Nat]
         /\ \A f \in Files : In(slots, D)[f] = Cardinality({d \in D : slots[d] = f})
         /\ \A f \in Files : In(slots, D)[f] = 0 <=> \A d \in D : slots[d] # f
<1>1. \A f \in Files : /\ Cardinality({d \in D : slots[d] = f}) \in Nat
                       /\ Cardinality({d \in D : slots[d] = f}) = 0
                            <=> {d \in D : slots[d] = f} = {}
  BY RangesFinite, Countable
<1> QED BY <1>1 DEF In

LEMMA PlusType ==
  ASSUME NEW c \in [Files -> Nat], NEW d \in [Files -> Nat]
  PROVE  /\ Plus(c, d) \in [Files -> Nat]
         /\ \A f \in Files : Plus(c, d)[f] = c[f] + d[f]
BY DEF Plus

LEMMA HoldsType ==
  ASSUME NEW f \in Files
  PROVE  /\ \A r \in TaskType : TaskHolds(r, f) \in Nat
         /\ \A r \in TableType : TableHolds(r, f) \in Nat
BY OneType, InType DEF TaskHolds, TableHolds, TaskType, TableType

\* One descriptor of a table that changes.
LEMMA SlotChanged ==
  ASSUME NEW fd \in [Fds -> Files \union {None}], NEW d \in Fds, NEW v, NEW f \in Files
  PROVE  /\ In(fd, Fds)[f] \in Nat /\ In(SetTo(fd, d, v), Fds)[f] \in Nat
         /\ In(SetTo(fd, d, v), Fds)[f] + One(fd[d])[f] = In(fd, Fds)[f] + One(v)[f]
<1> DEFINE S == {e \in Fds : fd[e] = f}
           T == {e \in Fds : SetTo(fd, d, v)[e] = f}
<1>1. IsFiniteSet(S) /\ IsFiniteSet(T)
  BY RangesFinite, FS_Subset
<1>2. S \ {d} = T \ {d}
  BY DEF SetTo
<1>3. (d \in S <=> fd[d] = f) /\ (d \in T <=> v = f)
  BY DEF SetTo
<1>4. /\ Cardinality(S) \in Nat /\ Cardinality(T) \in Nat
      /\ Cardinality(T) + (IF d \in S THEN 1 ELSE 0) = Cardinality(S) + (IF d \in T THEN 1 ELSE 0)
  BY <1>1, <1>2, OneMoved
<1>5. In(fd, Fds)[f] = Cardinality(S) /\ In(SetTo(fd, d, v), Fds)[f] = Cardinality(T)
  BY DEF In
<1> HIDE DEF S, T
<1> QED BY <1>3, <1>4, <1>5, OneType

\* Some descriptors of a table that are closed.
LEMMA SlotsCleared ==
  ASSUME NEW fd \in [Fds -> Files \union {None}], NEW D \in SUBSET Fds, NEW f \in Files
  PROVE  /\ In(fd, Fds)[f] \in Nat /\ In(fd, D)[f] \in Nat
         /\ In([d \in Fds |-> IF d \in D THEN None ELSE fd[d]], Fds)[f] + In(fd, D)[f]
              = In(fd, Fds)[f]
<1> DEFINE new == [d \in Fds |-> IF d \in D THEN None ELSE fd[d]]
           S == {e \in Fds : fd[e] = f}
           T == {e \in D : fd[e] = f}
<1>1. IsFiniteSet(S) /\ T \in SUBSET S
  BY RangesFinite, FS_Subset
<1>2. {e \in Fds : new[e] = f} = S \ T
  BY DEF Files, None
<1>3. /\ Cardinality(S) \in Nat /\ Cardinality(T) \in Nat /\ Cardinality(S \ T) \in Nat
      /\ Cardinality(S) = Cardinality(T) + Cardinality(S \ T)
  BY <1>1, TwoParts
<1>4. In(fd, Fds)[f] = Cardinality(S) /\ In(fd, D)[f] = Cardinality(T)
      /\ In(new, Fds)[f] = Cardinality(S \ T)
  BY <1>2 DEF In
<1> HIDE DEF S, T, new
<1>5. In(new, Fds)[f] + In(fd, D)[f] = In(fd, Fds)[f] /\ In(fd, Fds)[f] \in Nat /\ In(fd, D)[f] \in Nat
  BY <1>3, <1>4
<1> QED BY <1>5 DEF new

\* A table that changes.
LEMMA TableMoved ==
  ASSUME NEW tb \in [Tables -> TableType], NEW new \in [Tables -> TableType],
         NEW b \in Tables, \A a \in Tables \ {b} : new[a] = tb[a], NEW f \in Files
  PROVE  /\ TablesHold(tb, f) \in Nat /\ TablesHold(new, f) \in Nat
         /\ TablesHold(new, f) + TableHolds(tb[b], f) = TablesHold(tb, f) + TableHolds(new[b], f)
         /\ TableHolds(tb[b], f) <= TablesHold(tb, f)
<1> DEFINE R(x) == {p \in Tables \X Fds : x[p[1]].refs > 0 /\ x[p[1]].fd[p[2]] = f}
           Rest(x) == Others(R(x), b)
           Mine(x) == FdsOf(R(x), b)
<1>1. \A x : /\ Cardinality(R(x)) \in Nat /\ Cardinality(Rest(x)) \in Nat
             /\ Cardinality(Mine(x)) \in Nat
             /\ Cardinality(R(x)) = Cardinality(Rest(x)) + Cardinality(Mine(x))
  <2> TAKE x
  <2>1. R(x) \in SUBSET (Tables \X Fds)
    OBVIOUS
  <2>2. IsFiniteSet(Tables)
    BY RangesFinite
  <2> HIDE DEF R
  <2> QED BY <2>1, <2>2, PairsOfOne
<1>2. Rest(new) = Rest(tb)
  BY DEF Others
<1>3. \A x \in {tb, new} : Cardinality(Mine(x)) = TableHolds(x[b], f)
  <2> TAKE x \in {tb, new}
  <2>1. x[b].refs > 0 => Mine(x) = {d \in Fds : x[b].fd[d] = f}
    BY DEF FdsOf
  <2>2. ~(x[b].refs > 0) => Mine(x) = {}
    BY DEF FdsOf
  <2> HIDE DEF Mine
  <2>3. x[b].refs > 0 => Cardinality(Mine(x)) = In(x[b].fd, Fds)[f]
    BY <2>1, InType
  <2>4. ~(x[b].refs > 0) => Cardinality(Mine(x)) = 0
    BY <2>2, FS_EmptySet
  <2> QED BY <2>3, <2>4 DEF TableHolds
<1>4. TablesHold(tb, f) = Cardinality(R(tb)) /\ TablesHold(new, f) = Cardinality(R(new))
  BY DEF TablesHold
<1> HIDE DEF R, Rest, Mine
<1> QED BY <1>1, <1>2, <1>3, <1>4

\* A task that changes.
LEMMA TaskMoved ==
  ASSUME NEW tk \in [Tasks -> TaskType], NEW new \in [Tasks -> TaskType],
         NEW t \in Tasks, \A u \in Tasks \ {t} : new[u] = tk[u], NEW f \in Files
  PROVE  /\ TasksHold(tk, f) \in Nat /\ TasksHold(new, f) \in Nat
         /\ TasksHold(new, f) + TaskHolds(tk[t], f) = TasksHold(tk, f) + TaskHolds(new[t], f)
         /\ TaskHolds(tk[t], f) <= TasksHold(tk, f)
<1> DEFINE C(x) == {u \in Living(x) : x[u].cwd = f}
           E(x) == {u \in Living(x) : x[u].exe = f}
           R(x) == {p \in Living(x) \X Fds : x[p[1]].polled[p[2]] = f}
           Rest(x) == Others(R(x), t)
           Mine(x) == FdsOf(R(x), t)
           alive(x) == x[t].status = "alive"
<1>1. \A x : IsFiniteSet(C(x)) /\ IsFiniteSet(E(x)) /\ IsFiniteSet(Living(x))
  BY RangesFinite, FS_Subset DEF Living
<1>2. /\ Cardinality(C(tk)) \in Nat /\ Cardinality(C(new)) \in Nat
      /\ Cardinality(C(new)) + (IF t \in C(tk) THEN 1 ELSE 0)
           = Cardinality(C(tk)) + (IF t \in C(new) THEN 1 ELSE 0)
      /\ t \in C(tk) => Cardinality(C(tk)) > 0
  <2>1. C(tk) \ {t} = C(new) \ {t}
    BY DEF Living
  <2> HIDE DEF C
  <2>2. Cardinality(C(tk)) = 0 <=> C(tk) = {}
    BY <1>1, FS_EmptySet
  <2>3. IsFiniteSet(C(tk)) /\ IsFiniteSet(C(new))
    BY <1>1
  <2>4. /\ Cardinality(C(tk)) \in Nat /\ Cardinality(C(new)) \in Nat
        /\ Cardinality(C(new)) + (IF t \in C(tk) THEN 1 ELSE 0)
             = Cardinality(C(tk)) + (IF t \in C(new) THEN 1 ELSE 0)
    BY <2>1, <2>3, OneMoved
  <2> QED BY <2>2, <2>4
<1>3. /\ Cardinality(E(tk)) \in Nat /\ Cardinality(E(new)) \in Nat
      /\ Cardinality(E(new)) + (IF t \in E(tk) THEN 1 ELSE 0)
           = Cardinality(E(tk)) + (IF t \in E(new) THEN 1 ELSE 0)
      /\ t \in E(tk) => Cardinality(E(tk)) > 0
  <2>1. E(tk) \ {t} = E(new) \ {t}
    BY DEF Living
  <2> HIDE DEF E
  <2>2. Cardinality(E(tk)) = 0 <=> E(tk) = {}
    BY <1>1, FS_EmptySet
  <2>3. IsFiniteSet(E(tk)) /\ IsFiniteSet(E(new))
    BY <1>1
  <2>4. /\ Cardinality(E(tk)) \in Nat /\ Cardinality(E(new)) \in Nat
        /\ Cardinality(E(new)) + (IF t \in E(tk) THEN 1 ELSE 0)
             = Cardinality(E(tk)) + (IF t \in E(new) THEN 1 ELSE 0)
    BY <2>1, <2>3, OneMoved
  <2> QED BY <2>2, <2>4
<1>4. \A x : /\ Cardinality(R(x)) \in Nat /\ Cardinality(Rest(x)) \in Nat
             /\ Cardinality(Mine(x)) \in Nat
             /\ Cardinality(R(x)) = Cardinality(Rest(x)) + Cardinality(Mine(x))
  <2> TAKE x
  <2>1. R(x) \in SUBSET (Living(x) \X Fds)
    OBVIOUS
  <2> HIDE DEF R
  <2> QED BY <2>1, <1>1, PairsOfOne
<1>5. Rest(new) = Rest(tk)
  BY DEF Living, Others
<1>6. \A x \in {tk, new} :
        /\ t \in C(x) <=> alive(x) /\ x[t].cwd = f
        /\ t \in E(x) <=> alive(x) /\ x[t].exe = f
        /\ Cardinality(Mine(x)) = IF alive(x) THEN In(x[t].polled, Fds)[f] ELSE 0
  <2> TAKE x \in {tk, new}
  <2>1. alive(x) => Mine(x) = {d \in Fds : x[t].polled[d] = f}
    BY DEF Living, FdsOf
  <2>2. ~alive(x) => Mine(x) = {}
    BY DEF Living, FdsOf
  <2>3. t \in C(x) <=> alive(x) /\ x[t].cwd = f
    BY DEF Living
  <2>4. t \in E(x) <=> alive(x) /\ x[t].exe = f
    BY DEF Living
  <2> HIDE DEF Mine, C, E
  <2>5. alive(x) => Cardinality(Mine(x)) = In(x[t].polled, Fds)[f]
    BY <2>1 DEF In
  <2>6. ~alive(x) => Cardinality(Mine(x)) = 0
    BY <2>2, FS_EmptySet
  <2> QED BY <2>3, <2>4, <2>5, <2>6
<1>7. \A x \in {tk, new} :
        TaskHolds(x[t], f) = (IF t \in C(x) THEN 1 ELSE 0) + (IF t \in E(x) THEN 1 ELSE 0)
                             + Cardinality(Mine(x))
  <2> TAKE x \in {tk, new}
  <2> HIDE DEF Mine, C, E
  <2>1. Cardinality(Mine(x)) \in Nat
    BY <1>4
  <2>2. One(x[t].cwd)[f] = (IF x[t].cwd = f THEN 1 ELSE 0)
        /\ One(x[t].exe)[f] = (IF x[t].exe = f THEN 1 ELSE 0)
    BY DEF One
  <2> QED BY <1>6, <2>1, <2>2 DEF TaskHolds
<1>8. \A x \in {tk, new} :
        TasksHold(x, f) = Cardinality(C(x)) + Cardinality(E(x)) + Cardinality(R(x))
  BY DEF TasksHold
<1> HIDE DEF C, E, R, Rest, Mine, alive
<1> QED BY <1>2, <1>3, <1>4, <1>5, <1>7, <1>8

LEMMA UsersMoved ==
  ASSUME NEW tk, NEW new, NEW t \in Tasks, \A u \in Tasks \ {t} : new[u] = tk[u], NEW b
  PROVE  /\ Users(tk, b) \in 0 .. NumTasks /\ Users(new, b) \in 0 .. NumTasks
         /\ Users(new, b) + Uses(tk[t], b) = Users(tk, b) + Uses(new[t], b)
         /\ Uses(tk[t], b) <= Users(tk, b)
<1> DEFINE S(x) == {u \in Living(x) : x[u].files = b}
<1>1. \A x : IsFiniteSet(S(x)) /\ Cardinality(S(x)) \in 0 .. NumTasks
             /\ (Cardinality(S(x)) = 0 <=> S(x) = {})
  <2> TAKE x
  <2>1. S(x) \in SUBSET Tasks
    BY DEF Living
  <2> HIDE DEF S
  <2> QED BY <2>1, RangesFinite, Countable, FilesAssumption
<1>2. S(tk) \ {t} = S(new) \ {t}
  BY DEF Living
<1>3. \A x : /\ Uses(x[t], b) = IF t \in S(x) THEN 1 ELSE 0
             /\ Users(x, b) = Cardinality(S(x))
  BY DEF Living, Users, Uses
<1> HIDE DEF S
<1>4. Cardinality(S(new)) + (IF t \in S(tk) THEN 1 ELSE 0)
        = Cardinality(S(tk)) + (IF t \in S(new) THEN 1 ELSE 0)
  BY <1>1, <1>2, OneMoved
<1> QED BY <1>1, <1>3, <1>4

LEMMA MembersMoved ==
  ASSUME NEW tk, NEW new, NEW t \in Tasks, \A u \in Tasks \ {t} : new[u] = tk[u], NEW s
  PROVE  /\ Members(tk, s) \in Nat /\ Members(new, s) \in Nat
         /\ Members(new, s) + IsIn(tk[t], s) = Members(tk, s) + IsIn(new[t], s)
         /\ IsIn(tk[t], s) <= Members(tk, s)
<1> DEFINE S(x) == {u \in Living(x) : x[u].session = s}
<1>1. \A x : IsFiniteSet(S(x)) /\ Cardinality(S(x)) \in Nat
             /\ (Cardinality(S(x)) = 0 <=> S(x) = {})
  <2> TAKE x
  <2>1. S(x) \in SUBSET Tasks
    BY DEF Living
  <2> HIDE DEF S
  <2> QED BY <2>1, RangesFinite, Countable
<1>2. S(tk) \ {t} = S(new) \ {t}
  BY DEF Living
<1>3. \A x : /\ IsIn(x[t], s) = IF t \in S(x) THEN 1 ELSE 0
             /\ Members(x, s) = Cardinality(S(x))
  BY DEF Living, Members, IsIn
<1> HIDE DEF S
<1>4. Cardinality(S(new)) + (IF t \in S(tk) THEN 1 ELSE 0)
        = Cardinality(S(tk)) + (IF t \in S(new) THEN 1 ELSE 0)
  BY <1>1, <1>2, OneMoved
<1> QED BY <1>1, <1>3, <1>4

-----------------------------------------------------------------------------
(* The heap. *)

FileType == [refs : Nat, kind : FileKinds, port : Ports \union {0}]
TtyType == [refs : Nat, session : Sessions \union {None}]
SessionType == [refs : Nat, sid : Tasks \union {None}, tty : Ttys \union {"none"}]

HeapType == [file : [Files -> FileType], tty : [Ttys -> TtyType],
             session : [Sessions -> SessionType], port : [Ports -> Files \union {None}]]

\* The uses of a terminal.
OfKind(H, y) == {f \in Files : H.file[f].kind = y}
OfTty(H, y) == {s \in Sessions : H.session[s].tty = y}
TtyUses(H, g, y) ==
  Cardinality(OfKind(H, y)) + Cardinality(OfTty(H, y)) + (IF g = y THEN 1 ELSE 0)

\* The heap H counts h[f] holders of each file, k[s] of each session, and the
\* uses of each terminal when g is in the foreground; and it has reset what
\* nobody holds.
Agrees(H, h, k, g) ==
  /\ H \in HeapType
  /\ \A f \in Files : H.file[f].refs = h[f] /\ (h[f] = 0 => H.file[f] = NoFile)
  /\ \A s \in Sessions : H.session[s].refs = k[s] /\ (k[s] = 0 => H.session[s] = NoSession)
  /\ \A y \in Ttys : H.tty[y].refs = TtyUses(H, g, y)

\* NothingDangles, of what the heap alone says.
Linked(H) ==
  /\ \A f \in Files : H.file[f].refs > 0 => H.file[f].kind # "none"
  /\ \A p \in Ports, f \in Files : H.port[p] = f <=> H.file[f].port = p
  /\ \A y \in Ttys, s \in Sessions : H.tty[y].session = s <=> H.session[s].tty = y

Minus(c, d) == [f \in Files |-> c[f] - d[f]]

LEMMA Names == "none" \notin Ttys /\ "other" \notin Ttys /\ "socket" \notin Ttys /\ Console \in Ttys
               /\ 0 \notin Ports /\ None \notin Files /\ None \notin Sessions /\ None \notin Tasks
               /\ None \notin Tables
BY FilesAssumption DEF None, Files, Sessions, Tasks, Tables

LEMMA UsesType ==
  ASSUME NEW H, NEW g, NEW y
  PROVE  /\ IsFiniteSet(OfKind(H, y)) /\ Cardinality(OfKind(H, y)) \in Nat
         /\ IsFiniteSet(OfTty(H, y)) /\ Cardinality(OfTty(H, y)) \in Nat
         /\ TtyUses(H, g, y) \in Nat
         /\ OfTty(H, y) # {} => Cardinality(OfTty(H, y)) > 0
<1>1. OfKind(H, y) \in SUBSET Files /\ OfTty(H, y) \in SUBSET Sessions
  BY DEF OfKind, OfTty
<1>2. /\ IsFiniteSet(OfKind(H, y)) /\ Cardinality(OfKind(H, y)) \in Nat
      /\ IsFiniteSet(OfTty(H, y)) /\ Cardinality(OfTty(H, y)) \in Nat
      /\ Cardinality(OfTty(H, y)) = 0 <=> OfTty(H, y) = {}
  BY <1>1, RangesFinite, Countable
<1> QED BY <1>2 DEF TtyUses

\* The uses of a terminal stay when no file and no session changes sides.
LEMMA UsesSame ==
  ASSUME NEW H, NEW G, NEW g, NEW y,
         \A f \in Files : G.file[f].kind = H.file[f].kind,
         \A s \in Sessions : G.session[s].tty = H.session[s].tty
  PROVE  TtyUses(G, g, y) = TtyUses(H, g, y)
<1>1. OfKind(G, y) = OfKind(H, y) /\ OfTty(G, y) = OfTty(H, y)
  BY DEF OfKind, OfTty
<1> QED BY <1>1 DEF TtyUses

\* tty_put
LEMMA PutTtyFacts ==
  ASSUME NEW tty \in [Ttys -> TtyType], NEW y, NEW n \in Nat,
         y \in Ttys => n <= tty[y].refs
  PROVE  /\ PutTty(tty, y, n) \in [Ttys -> TtyType]
         /\ \A z \in Ttys \ {y} : PutTty(tty, y, n)[z] = tty[z]
         /\ y \in Ttys => /\ PutTty(tty, y, n)[y].refs = tty[y].refs - n
                          /\ \/ PutTty(tty, y, n)[y].session = tty[y].session
                             \/ tty[y].refs = n /\ PutTty(tty, y, n)[y].session = None
<1>1. CASE y \notin Ttys \/ n = 0
  BY <1>1 DEF PutTty, TtyType
<1>2. CASE y \in Ttys /\ n # 0 /\ tty[y].refs = n
  <2>1. PutTty(tty, y, n) = [tty EXCEPT ![y] = NoTty]
    BY <1>2 DEF PutTty
  <2>2. NoTty \in TtyType /\ NoTty.refs = 0 /\ NoTty.session = None
    BY DEF NoTty, TtyType
  <2> QED BY <1>2, <2>1, <2>2
<1>3. CASE y \in Ttys /\ n # 0 /\ tty[y].refs # n
  <2>1. PutTty(tty, y, n) = [tty EXCEPT ![y].refs = @ - n]
    BY <1>3 DEF PutTty
  <2>2. tty[y].refs - n \in Nat
    BY <1>3 DEF TtyType
  <2> QED BY <1>3, <2>1, <2>2 DEF TtyType
<1> QED BY <1>1, <1>2, <1>3

\* More references to files.
LEMMA TakenFacts ==
  ASSUME NEW H, NEW h \in [Files -> Nat], NEW k \in [Sessions -> Nat], NEW g \in Ttys,
         Agrees(H, h, k, g), NEW c \in [Files -> Nat]
  PROVE  /\ Agrees(Taken(H, c), Plus(h, c), k, g)
         /\ Linked(H) /\ (\A f \in Files : c[f] > 0 => h[f] > 0) => Linked(Taken(H, c))
<1> DEFINE G == Taken(H, c)
<1>1. /\ G.file = [f \in Files |-> [H.file[f] EXCEPT !.refs = @ + c[f]]]
      /\ G.tty = H.tty /\ G.session = H.session /\ G.port = H.port
      /\ G \in [file : {G.file}, tty : {H.tty}, session : {H.session}, port : {H.port}]
  BY DEF Agrees, Taken, HeapType
<1> HIDE DEF G
<1>2. \A f \in Files : /\ G.file[f] \in FileType /\ G.file[f].refs = h[f] + c[f]
                       /\ G.file[f].kind = H.file[f].kind /\ G.file[f].port = H.file[f].port
                       /\ h[f] + c[f] = 0 => G.file[f] = NoFile
  <2> TAKE f \in Files
  <2>1. H.file[f] \in FileType /\ H.file[f].refs = h[f] /\ (h[f] = 0 => H.file[f] = NoFile)
    BY DEF Agrees, HeapType
  <2>2. G.file[f] = [H.file[f] EXCEPT !.refs = @ + c[f]]
    BY <1>1
  <2>3. h[f] \in Nat /\ c[f] \in Nat
    OBVIOUS
  <2>4. h[f] + c[f] = 0 => h[f] = 0 /\ c[f] = 0
    BY <2>3
  <2> QED BY <2>1, <2>2, <2>3, <2>4 DEF FileType, NoFile
<1>3. G \in HeapType
  <2>1. G.file \in [Files -> FileType]
    BY <1>1, <1>2
  <2> QED BY <1>1, <2>1 DEF Agrees, HeapType
<1>4. \A y \in Ttys : TtyUses(G, g, y) = TtyUses(H, g, y)
  BY <1>1, <1>2, UsesSame
<1>5. Agrees(G, Plus(h, c), k, g)
  BY <1>1, <1>2, <1>3, <1>4, PlusType, SMTT(30) DEF Agrees
<1>6. Linked(H) /\ (\A f \in Files : c[f] > 0 => h[f] > 0) => Linked(G)
  <2> SUFFICES ASSUME Linked(H), \A f \in Files : c[f] > 0 => h[f] > 0  PROVE Linked(G)
    OBVIOUS
  <2>1. \A f \in Files : G.file[f].refs > 0 => H.file[f].refs > 0
    <3> TAKE f \in Files
    <3>1. h[f] \in Nat /\ c[f] \in Nat /\ (c[f] > 0 => h[f] > 0)
      OBVIOUS
    <3>2. H.file[f].refs = h[f] /\ G.file[f].refs = h[f] + c[f]
      BY <1>2 DEF Agrees
    <3> QED BY <3>1, <3>2
  <2> QED BY <2>1, <1>1, <1>2 DEF Linked
<1> QED BY <1>5, <1>6 DEF G

\* filp_close, as often as c says.
LEMMA ClosedFacts ==
  ASSUME NEW H, NEW h \in [Files -> Nat], NEW k \in [Sessions -> Nat], NEW g \in Ttys,
         Agrees(H, h, k, g), NEW c \in [Files -> Nat], \A f \in Files : c[f] <= h[f]
  PROVE  /\ Agrees(Closed(H, c), Minus(h, c), k, g)
         /\ Linked(H) => Linked(Closed(H, c))
<1> DEFINE G == Closed(H, c)
           gone == {f \in Files : c[f] > 0 /\ H.file[f].refs = c[f]}
           Open(y) == Cardinality({f \in gone : H.file[f].kind = y})
<1>1. /\ G.file = [f \in Files |-> IF f \in gone THEN NoFile
                                   ELSE [H.file[f] EXCEPT !.refs = H.file[f].refs - c[f]]]
      /\ G.tty = [y \in Ttys |-> PutTty(H.tty, y, Open(y))[y]]
      /\ G.port = Unbound(H, gone)
      /\ G.session = H.session
      /\ G \in [file : {G.file}, tty : {G.tty}, session : {H.session}, port : {G.port}]
  BY DEF Agrees, Closed, HeapType
<1> HIDE DEF G
<1>2. \A f \in Files : /\ G.file[f] \in FileType /\ G.file[f].refs = h[f] - c[f]
                       /\ h[f] - c[f] = 0 => G.file[f] = NoFile
                       /\ f \in gone => G.file[f] = NoFile /\ H.file[f].refs > 0
                       /\ f \notin gone => /\ G.file[f].kind = H.file[f].kind
                                           /\ G.file[f].port = H.file[f].port
                                           /\ G.file[f].refs > 0 => H.file[f].refs > 0
  <2> TAKE f \in Files
  <2>1. H.file[f] \in FileType /\ H.file[f].refs = h[f] /\ (h[f] = 0 => H.file[f] = NoFile)
    BY DEF Agrees, HeapType
  <2>2. h[f] \in Nat /\ c[f] \in Nat /\ c[f] <= h[f]
    OBVIOUS
  <2>3. NoFile \in FileType /\ NoFile.refs = 0
    BY DEF NoFile, FileType, FileKinds
  <2>4. CASE f \in gone
    BY <1>1, <2>1, <2>2, <2>3, <2>4
  <2>5. CASE f \notin gone
    <3>1. G.file[f] = [H.file[f] EXCEPT !.refs = h[f] - c[f]]
      BY <1>1, <2>1, <2>5
    <3>2. h[f] - c[f] = 0 => h[f] = 0 /\ c[f] = 0
      BY <2>1, <2>2, <2>5
    <3> QED BY <2>1, <2>2, <2>5, <3>1, <3>2 DEF FileType, NoFile
  <2> QED BY <2>4, <2>5
<1>3. \A y \in Ttys :
        /\ Open(y) \in Nat /\ Open(y) <= H.tty[y].refs
        /\ TtyUses(G, g, y) = H.tty[y].refs - Open(y)
        /\ H.tty[y].refs = Open(y) => OfTty(H, y) = {}
  <2> TAKE y \in Ttys
  <2> DEFINE K == {f \in gone : H.file[f].kind = y}
  <2>1. K \in SUBSET OfKind(H, y)
    BY DEF OfKind
  <2>2. OfKind(G, y) = OfKind(H, y) \ K
    <3>1. \A f \in gone : G.file[f].kind # y
      BY <1>2, Names DEF NoFile
    <3> QED BY <1>2, <3>1 DEF OfKind
  <2>3. OfTty(G, y) = OfTty(H, y)
    BY <1>1 DEF OfTty
  <2> HIDE DEF K, gone
  <2>4. /\ Cardinality(OfKind(H, y)) \in Nat /\ Cardinality(K) \in Nat
        /\ Cardinality(OfKind(G, y)) \in Nat
        /\ Cardinality(OfKind(H, y)) = Cardinality(K) + Cardinality(OfKind(G, y))
    BY <2>1, <2>2, UsesType, TwoParts
  <2>5. Cardinality(OfTty(H, y)) \in Nat
        /\ (OfTty(H, y) # {} => Cardinality(OfTty(H, y)) > 0)
    BY UsesType
  <2>6. H.tty[y].refs = TtyUses(H, g, y)
    BY DEF Agrees
  <2>7. Open(y) = Cardinality(K)
    BY DEF K
  <2> HIDE DEF Open
  <2> QED BY <2>3, <2>4, <2>5, <2>6, <2>7 DEF TtyUses
<1>4. \A y \in Ttys :
        /\ G.tty[y] \in TtyType /\ G.tty[y].refs = TtyUses(G, g, y)
        /\ \/ G.tty[y].session = H.tty[y].session
           \/ G.tty[y].session = None /\ OfTty(H, y) = {}
  <2> TAKE y \in Ttys
  <2> HIDE DEF Open, gone
  <2>1. H.tty \in [Ttys -> TtyType]
    BY DEF Agrees, HeapType
  <2>2. G.tty[y] = PutTty(H.tty, y, Open(y))[y]
    BY <1>1
  <2> QED BY <1>3, <2>1, <2>2, PutTtyFacts
<1>5. G.port \in [Ports -> Files \union {None}]
  BY <1>1 DEF Unbound, Agrees, HeapType
<1>6. G \in HeapType
  <2>1. G.file \in [Files -> FileType]
    BY <1>1, <1>2
  <2>2. G.tty \in [Ttys -> TtyType]
    BY <1>1, <1>4, Zenon
  <2>3. H.session \in [Sessions -> SessionType]
    BY DEF Agrees, HeapType
  <2> QED BY <1>1, <1>5, <2>1, <2>2, <2>3 DEF HeapType
<1>7. Agrees(G, Minus(h, c), k, g)
  BY <1>1, <1>2, <1>4, <1>6, ZenonT(30) DEF Agrees, Minus
<1>8. ASSUME Linked(H)  PROVE Linked(G)
  <2>1. \A f \in Files : G.file[f].refs > 0 => G.file[f].kind # "none"
    <3> TAKE f \in Files
    <3>1. f \in gone => ~(G.file[f].refs > 0)
      BY <1>2 DEF NoFile
    <3> QED BY <3>1, <1>2, <1>8 DEF Linked
  <2>2. ASSUME NEW p \in Ports, NEW f \in Files
        PROVE  G.port[p] = f <=> G.file[f].port = p
    <3>1. \A x \in Files : H.port[p] = x <=> H.file[x].port = p
      BY <1>8 DEF Linked
    <3>2. G.port[p] = IF \E x \in gone : H.file[x].port = p THEN None ELSE H.port[p]
      BY <1>1 DEF Unbound
    <3>3. CASE f \in gone
      BY <1>2, <3>1, <3>2, <3>3, Names DEF NoFile
    <3>4. CASE f \notin gone
      BY <1>2, <3>1, <3>2, <3>4, Names
    <3> QED BY <3>3, <3>4
  <2>3. ASSUME NEW y \in Ttys, NEW s \in Sessions
        PROVE  G.tty[y].session = s <=> G.session[s].tty = y
    BY <1>1, <1>4, <1>8, Names, SMTT(30) DEF Linked, OfTty
  <2> QED BY <2>1, <2>2, <2>3 DEF Linked
<1> QED BY <1>7, <1>8 DEF G

LEMMA OpenedFacts ==
  ASSUME NEW H, NEW h \in [Files -> Nat], NEW k \in [Sessions -> Nat], NEW g \in Ttys,
         Agrees(H, h, k, g), task \in [Tasks -> TaskType], NEW t \in Tasks,
         NEW f \in Files, h[f] = 0, NEW c \in Nat \ {0}, NEW noctty \in BOOLEAN,
         NEW kind \in FileKinds \ {"none"}
  PROVE  /\ Agrees(Opened(H, t, f, kind, c, noctty), SetTo(h, f, c), k, g)
         /\ Linked(H) => Linked(Opened(H, t, f, kind, c, noctty))
<1> DEFINE G == Opened(H, t, f, kind, c, noctty)
           s == task[t].session
           takes == kind \in Ttys /\ MayTake(H, t, kind) /\ ~noctty
           new == [refs |-> c, kind |-> kind, port |-> 0]
<1>1. H \in HeapType /\ H.file[f] = NoFile /\ new \in FileType
      /\ s \in Sessions \union {None}
      /\ new.kind = kind /\ new.port = 0 /\ new.refs = c
  BY DEF Agrees, FileType, TaskType
<1>2. /\ takes => /\ s \in Sessions /\ H.session[s].tty = "none"
                  /\ H.tty[kind].session = None /\ k[s] # 0
  <2>1. takes => s # None /\ H.session[s].tty = "none" /\ H.tty[kind].session = None
                 /\ H.session[s].sid = t
    BY DEF MayTake
  <2>2. s \in Sessions /\ k[s] = 0 => H.session[s].sid # t
    BY Names DEF Agrees, NoSession
  <2> HIDE DEF takes
  <2> QED BY <1>1, <2>1, <2>2
<1>3. /\ G.file = [H.file EXCEPT ![f] = new]
      /\ G.port = H.port
      /\ G.session = IF takes THEN [H.session EXCEPT ![s].tty = kind] ELSE H.session
      /\ G.tty = IF takes THEN [H.tty EXCEPT ![kind] = [refs |-> H.tty[kind].refs + 2, session |-> s]]
                 ELSE IF kind \in Ttys THEN [H.tty EXCEPT ![kind].refs = H.tty[kind].refs + 1]
                 ELSE H.tty
      /\ G \in [file : {G.file}, tty : {G.tty}, session : {G.session}, port : {G.port}]
  BY <1>1, Zenon DEF Opened, HeapType
<1> HIDE DEF G, takes, new
<1>4. G.file \in [Files -> FileType] /\ G.session \in [Sessions -> SessionType]
      /\ G.tty \in [Ttys -> TtyType] /\ G.port \in [Ports -> Files \union {None}]
  <2>1. G.file \in [Files -> FileType] /\ G.port \in [Ports -> Files \union {None}]
    BY <1>1, <1>3 DEF HeapType
  <2>2. kind \in FileKinds /\ (takes => kind \in Ttys)
    BY DEF takes
  <2>3. G.session \in [Sessions -> SessionType]
    <3>1. H.session \in [Sessions -> SessionType]
      BY <1>1 DEF HeapType
    <3>2. \A x \in Sessions : [H.session[x] EXCEPT !.tty = kind] \in SessionType \/ ~takes
      BY <2>2, <3>1 DEF SessionType
    <3> QED BY <1>2, <1>3, <3>1, <3>2
  <2>4. G.tty \in [Ttys -> TtyType]
    BY <1>1, <1>3, <2>2 DEF HeapType, TtyType
  <2> QED BY <2>1, <2>3, <2>4
<1>5. G \in HeapType
  BY <1>3, <1>4 DEF HeapType
<1>6. \A y \in Ttys : /\ Cardinality(OfKind(G, y)) = Cardinality(OfKind(H, y)) + (IF y = kind THEN 1 ELSE 0)
                      /\ Cardinality(OfTty(G, y)) = Cardinality(OfTty(H, y))
                                                    + (IF takes /\ y = kind THEN 1 ELSE 0)
  <2> TAKE y \in Ttys
  <2>1. OfKind(G, y) = (IF y = kind THEN OfKind(H, y) \union {f} ELSE OfKind(H, y))
        /\ f \notin OfKind(H, y)
    BY <1>1, <1>3, Names DEF OfKind, NoFile, HeapType
  <2>2. OfTty(G, y) = (IF takes /\ y = kind THEN OfTty(H, y) \union {s} ELSE OfTty(H, y))
        /\ (takes => s \notin OfTty(H, y))
    BY <1>1, <1>2, <1>3, Names DEF OfTty, HeapType, SessionType
  <2>3. IsFiniteSet(OfKind(H, y)) /\ Cardinality(OfKind(H, y)) \in Nat
        /\ IsFiniteSet(OfTty(H, y)) /\ Cardinality(OfTty(H, y)) \in Nat
    BY UsesType
  <2>4. /\ Cardinality(OfKind(H, y) \union {f}) = Cardinality(OfKind(H, y)) + 1
        /\ takes => Cardinality(OfTty(H, y) \union {s}) = Cardinality(OfTty(H, y)) + 1
    BY <2>1, <2>2, <2>3, FS_AddElement
  <2>5. /\ Cardinality(OfKind(G, y)) = Cardinality(OfKind(H, y)) + (IF y = kind THEN 1 ELSE 0)
        /\ Cardinality(OfTty(G, y)) = Cardinality(OfTty(H, y)) + (IF takes /\ y = kind THEN 1 ELSE 0)
    BY <2>1, <2>2, <2>3, <2>4
  <2> QED BY <2>5
<1>7. \A y \in Ttys : G.tty[y].refs = TtyUses(G, g, y)
  <2> TAKE y \in Ttys
  <2>1. Cardinality(OfKind(H, y)) \in Nat /\ Cardinality(OfTty(H, y)) \in Nat
    BY UsesType
  <2>2. H.tty[y].refs = TtyUses(H, g, y) /\ H.tty[y] \in TtyType
    BY <1>1 DEF Agrees, HeapType
  <2>3. takes => kind \in Ttys
    BY DEF takes
  <2>4. G.tty[y].refs = H.tty[y].refs + (IF y = kind THEN IF takes THEN 2 ELSE 1 ELSE 0)
    BY <1>1, <1>3, <2>2, <2>3 DEF HeapType, TtyType
  <2> QED BY <1>6, <2>1, <2>2, <2>4 DEF TtyUses
<1>8. Agrees(G, SetTo(h, f, c), k, g)
  <2>1. \A x \in Files : G.file[x].refs = SetTo(h, f, c)[x]
                         /\ (SetTo(h, f, c)[x] = 0 => G.file[x] = NoFile)
    BY <1>1, <1>3 DEF Agrees, HeapType, SetTo
  <2>2. \A x \in Sessions : G.session[x].refs = k[x] /\ (k[x] = 0 => G.session[x] = NoSession)
    BY <1>1, <1>2, <1>3 DEF Agrees, HeapType, SessionType
  <2> QED BY <1>5, <1>7, <2>1, <2>2 DEF Agrees
<1>9. ASSUME Linked(H)  PROVE Linked(G)
  <2>1. \A x \in Files : G.file[x].refs > 0 => G.file[x].kind # "none"
    BY <1>1, <1>3, <1>9 DEF Linked, HeapType
  <2>2. \A p \in Ports, x \in Files : G.port[p] = x <=> G.file[x].port = p
    BY <1>1, <1>3, <1>9, Names DEF Linked, HeapType, NoFile
  <2>3. \A y \in Ttys, x \in Sessions : G.tty[y].session = x <=> G.session[x].tty = y
    <3> TAKE y \in Ttys, x \in Sessions
    <3>1. /\ H.tty[y].session = x <=> H.session[x].tty = y
          /\ H.tty \in [Ttys -> TtyType] /\ H.session \in [Sessions -> SessionType]
      BY <1>1, <1>9 DEF Linked, HeapType
    <3>2. G.tty[y].session = IF takes /\ y = kind THEN s ELSE H.tty[y].session
      BY <1>3, <3>1 DEF TtyType
    <3>3. G.session[x].tty = IF takes /\ x = s THEN kind ELSE H.session[x].tty
      BY <1>3, <3>1 DEF SessionType
    <3> QED BY <1>2, <3>1, <3>2, <3>3, Names
  <2> QED BY <2>1, <2>2, <2>3 DEF Linked
<1> QED BY <1>8, <1>9 DEF G

\* put_session
LEMMA PutSessionFacts ==
  ASSUME NEW H, NEW h \in [Files -> Nat], NEW k \in [Sessions -> Nat], NEW g \in Ttys,
         Agrees(H, h, k, g), NEW s \in Sessions, k[s] > 0
  PROVE  /\ Agrees(PutSession(H, s), h, SetTo(k, s, k[s] - 1), g)
         /\ Linked(H) => Linked(PutSession(H, s))
<1> DEFINE G == PutSession(H, s)
           y == H.session[s].tty
           left(z) == IF z = y /\ H.tty[z].session = s THEN [H.tty[z] EXCEPT !.session = None] ELSE H.tty[z]
           Left == [z \in Ttys |-> left(z)]
<1>1. /\ H \in HeapType /\ H.session \in [Sessions -> SessionType] /\ H.tty \in [Ttys -> TtyType]
      /\ H.session[s].refs = k[s] /\ s # None
      /\ k[s] \in Nat
  BY Names DEF Agrees, HeapType
<1>2. CASE k[s] > 1
  <2>1. G = [H EXCEPT !.session[s].refs = @ - 1]
    BY <1>1, <1>2 DEF PutSession
  <2> HIDE DEF G
  <2>2. /\ G.session = [H.session EXCEPT ![s].refs = @ - 1]
        /\ G.file = H.file /\ G.tty = H.tty /\ G.port = H.port
        /\ G \in [file : {H.file}, tty : {H.tty}, session : {G.session}, port : {H.port}]
    BY <1>1, <2>1 DEF HeapType
  <2>3. G.session \in [Sessions -> SessionType]
    BY <1>1, <1>2, <2>2 DEF SessionType
  <2>4. G \in HeapType
    BY <1>1, <2>2, <2>3 DEF HeapType
  <2>5. (\A x \in Sessions : G.session[x].tty = H.session[x].tty)
        /\ \A f \in Files : G.file[f].kind = H.file[f].kind
    BY <1>1, <2>2 DEF SessionType
  <2>6. \A z \in Ttys : TtyUses(G, g, z) = TtyUses(H, g, z)
    <3> TAKE z \in Ttys
    <3>1. \A x \in Sessions : G.session[x].tty = H.session[x].tty
      BY <2>5
    <3>2. \A f \in Files : G.file[f].kind = H.file[f].kind
      BY <2>5
    <3> QED BY <3>1, <3>2, UsesSame
  <2>7. \A x \in Sessions : G.session[x].refs = SetTo(k, s, k[s] - 1)[x]
                            /\ (SetTo(k, s, k[s] - 1)[x] = 0 => G.session[x] = NoSession)
    BY <1>1, <1>2, <2>2 DEF Agrees, SessionType, SetTo
  <2>8. Agrees(G, h, SetTo(k, s, k[s] - 1), g)
    BY <2>2, <2>4, <2>6, <2>7 DEF Agrees
  <2>9. Linked(H) => Linked(G)
    BY <2>2, <2>5 DEF Linked
  <2> QED BY <2>8, <2>9 DEF G
<1>3. CASE k[s] = 1
  <2>1. G = [H EXCEPT !.session[s] = NoSession, !.tty = PutTty(Left, y, 1)]
    BY <1>1, <1>3 DEF PutSession
  <2> HIDE DEF G, Left
  <2>2. /\ G.session = [H.session EXCEPT ![s] = NoSession]
        /\ G.tty = PutTty(Left, y, 1)
        /\ G.file = H.file /\ G.port = H.port
        /\ G \in [file : {H.file}, tty : {G.tty}, session : {G.session}, port : {H.port}]
    BY <1>1, <2>1 DEF HeapType
  <2>3. /\ Left \in [Ttys -> TtyType]
        /\ \A z \in Ttys : /\ Left[z].refs = H.tty[z].refs
                           /\ Left[z].session = IF z = y /\ H.tty[z].session = s THEN None
                                                ELSE H.tty[z].session
    BY <1>1 DEF Left, TtyType
  <2>4. \A z \in Ttys : /\ OfKind(G, z) = OfKind(H, z)
                        /\ OfTty(G, z) = OfTty(H, z) \ {s}
                        /\ s \in OfTty(H, z) <=> z = y
    BY <1>1, <2>2, Names DEF OfKind, OfTty, NoSession
  <2>5. \A z \in Ttys : /\ TtyUses(G, g, z) = TtyUses(H, g, z) - (IF z = y THEN 1 ELSE 0)
                        /\ TtyUses(H, g, z) = H.tty[z].refs /\ H.tty[z].refs \in Nat
                        /\ z = y => H.tty[z].refs >= 1
                        /\ TtyUses(G, g, z) = 0 => OfTty(G, z) = {}
    <3> TAKE z \in Ttys
    <3>1. /\ Cardinality(OfKind(H, z)) \in Nat /\ Cardinality(OfTty(H, z)) \in Nat
          /\ Cardinality(OfTty(G, z)) \in Nat /\ IsFiniteSet(OfTty(H, z))
          /\ OfTty(G, z) # {} => Cardinality(OfTty(G, z)) > 0
      BY UsesType
    <3>2. Cardinality(OfTty(G, z)) = Cardinality(OfTty(H, z)) - (IF z = y THEN 1 ELSE 0)
      BY <2>4, <3>1, FS_RemoveElement
    <3>3. TtyUses(H, g, z) = H.tty[z].refs
      BY DEF Agrees
    <3> DEFINE one == IF g = z THEN 1 ELSE 0
    <3>4. /\ TtyUses(G, g, z) = Cardinality(OfKind(H, z)) + Cardinality(OfTty(G, z)) + one
          /\ TtyUses(H, g, z) = Cardinality(OfKind(H, z)) + Cardinality(OfTty(H, z)) + one
          /\ one \in Nat
      BY <2>4 DEF TtyUses
    <3> HIDE DEF one
    <3>5. z = y => Cardinality(OfTty(H, z)) > 0
      BY <2>4, UsesType
    <3> QED BY <3>1, <3>2, <3>3, <3>4, <3>5
  <2>6. /\ G.tty \in [Ttys -> TtyType]
        /\ \A z \in Ttys : /\ G.tty[z].refs = TtyUses(G, g, z)
                           /\ \/ G.tty[z].session = Left[z].session
                              \/ G.tty[z].session = None /\ OfTty(G, z) = {}
    <3>1. y \in Ttys => 1 <= Left[y].refs
      BY <2>3, <2>5
    <3>2. /\ G.tty \in [Ttys -> TtyType]
          /\ \A z \in Ttys \ {y} : G.tty[z] = Left[z]
          /\ y \in Ttys => /\ G.tty[y].refs = Left[y].refs - 1
                           /\ \/ G.tty[y].session = Left[y].session
                              \/ Left[y].refs = 1 /\ G.tty[y].session = None
      BY <2>2, <2>3, <3>1, PutTtyFacts
    <3>3. \A z \in Ttys \ {y} : G.tty[z].refs = TtyUses(G, g, z) /\ G.tty[z].session = Left[z].session
      BY <2>3, <2>5, <3>2
    <3>4. y \in Ttys => /\ G.tty[y].refs = TtyUses(G, g, y)
                        /\ \/ G.tty[y].session = Left[y].session
                           \/ G.tty[y].session = None /\ OfTty(G, y) = {}
      BY <2>3, <2>5, <3>2
    <3> QED BY <3>2, <3>3, <3>4
  <2>7. G.session \in [Sessions -> SessionType]
    BY <1>1, <2>2 DEF SessionType, NoSession
  <2>8. G \in HeapType
    BY <1>1, <2>2, <2>6, <2>7 DEF HeapType
  <2>9. \A x \in Sessions : G.session[x].refs = SetTo(k, s, k[s] - 1)[x]
                            /\ (SetTo(k, s, k[s] - 1)[x] = 0 => G.session[x] = NoSession)
    BY <1>1, <1>3, <2>2 DEF Agrees, NoSession, SetTo
  <2>10. Agrees(G, h, SetTo(k, s, k[s] - 1), g)
    BY <2>2, <2>6, <2>8, <2>9 DEF Agrees
  <2>11. ASSUME Linked(H)  PROVE Linked(G)
    <3>1. ASSUME NEW z \in Ttys, NEW x \in Sessions
          PROVE  G.tty[z].session = x <=> G.session[x].tty = z
      <4>1. H.tty[z].session = x <=> H.session[x].tty = z
        BY <2>11 DEF Linked
      <4>2. H.tty[z].session = s <=> y = z
        BY <2>11 DEF Linked
      <4>3. G.session[x].tty = IF x = s THEN "none" ELSE H.session[x].tty
        BY <1>1, <2>2 DEF NoSession
      <4>4. Left[z].session = x <=> G.session[x].tty = z
        BY <2>3, <4>1, <4>2, <4>3, Names
      <4>5. OfTty(G, z) = {} => G.session[x].tty # z
        BY DEF OfTty
      <4> QED BY <2>6, <4>4, <4>5, Names
    <3> QED BY <2>2, <2>11, <3>1 DEF Linked
  <2> QED BY <2>10, <2>11 DEF G
<1> QED BY <1>1, <1>2, <1>3

\* One more task of a session, and a new session.
Joined(H, s) == [H EXCEPT !.session[s].refs = @ + 1]
Founded(H, s, t) == [H EXCEPT !.session[s] = [refs |-> 1, sid |-> t, tty |-> "none"]]

LEMMA JoinedFacts ==
  ASSUME NEW H, NEW h \in [Files -> Nat], NEW k \in [Sessions -> Nat], NEW g \in Ttys,
         Agrees(H, h, k, g), NEW s \in Sessions
  PROVE  /\ Agrees(Joined(H, s), h, SetTo(k, s, k[s] + 1), g)
         /\ Linked(H) => Linked(Joined(H, s))
<1> DEFINE G == Joined(H, s)
<1>1. /\ H \in HeapType /\ H.session \in [Sessions -> SessionType]
      /\ H.session[s].refs = k[s] /\ k[s] \in Nat
  BY DEF Agrees, HeapType
<1>2. /\ G.session = [H.session EXCEPT ![s].refs = @ + 1]
      /\ G.file = H.file /\ G.tty = H.tty /\ G.port = H.port
      /\ G \in [file : {H.file}, tty : {H.tty}, session : {G.session}, port : {H.port}]
  BY <1>1 DEF HeapType, Joined
<1> HIDE DEF G
<1>3. G.session \in [Sessions -> SessionType]
  BY <1>1, <1>2 DEF SessionType
<1>4. G \in HeapType
  BY <1>1, <1>2, <1>3 DEF HeapType
<1>5. (\A x \in Sessions : G.session[x].tty = H.session[x].tty)
      /\ \A f \in Files : G.file[f].kind = H.file[f].kind
  BY <1>1, <1>2 DEF SessionType
<1>6. \A z \in Ttys : TtyUses(G, g, z) = TtyUses(H, g, z)
  <2> TAKE z \in Ttys
  <2>1. \A x \in Sessions : G.session[x].tty = H.session[x].tty
    BY <1>5
  <2>2. \A f \in Files : G.file[f].kind = H.file[f].kind
    BY <1>5
  <2> QED BY <2>1, <2>2, UsesSame
<1>7. \A x \in Sessions : G.session[x].refs = SetTo(k, s, k[s] + 1)[x]
                          /\ (SetTo(k, s, k[s] + 1)[x] = 0 => G.session[x] = NoSession)
  BY <1>1, <1>2 DEF Agrees, SessionType, SetTo
<1>8. Agrees(G, h, SetTo(k, s, k[s] + 1), g)
  BY <1>2, <1>4, <1>6, <1>7 DEF Agrees
<1>9. Linked(H) => Linked(G)
  BY <1>2, <1>5 DEF Linked
<1> QED BY <1>8, <1>9 DEF G

LEMMA FoundedFacts ==
  ASSUME NEW H, NEW h \in [Files -> Nat], NEW k \in [Sessions -> Nat], NEW g \in Ttys,
         Agrees(H, h, k, g), NEW s \in Sessions, k[s] = 0, NEW t \in Tasks
  PROVE  /\ Agrees(Founded(H, s, t), h, SetTo(k, s, 1), g)
         /\ Linked(H) => Linked(Founded(H, s, t))
<1> DEFINE new == [refs |-> 1, sid |-> t, tty |-> "none"]
           G == Founded(H, s, t)
<1>1. /\ H \in HeapType /\ H.session \in [Sessions -> SessionType]
      /\ H.session[s] = NoSession
      /\ new \in SessionType /\ new.refs = 1 /\ new.tty = "none"
  BY DEF Agrees, HeapType, SessionType
<1>2. /\ G.session = [H.session EXCEPT ![s] = new]
      /\ G.file = H.file /\ G.tty = H.tty /\ G.port = H.port
      /\ G \in [file : {H.file}, tty : {H.tty}, session : {G.session}, port : {H.port}]
  BY <1>1 DEF HeapType, Founded
<1> HIDE DEF G, new
<1>3. G.session \in [Sessions -> SessionType]
  BY <1>1, <1>2
<1>4. G \in HeapType
  BY <1>1, <1>2, <1>3 DEF HeapType
<1>5. (\A x \in Sessions : G.session[x].tty = H.session[x].tty)
      /\ \A f \in Files : G.file[f].kind = H.file[f].kind
  BY <1>1, <1>2 DEF NoSession
<1>6. \A z \in Ttys : TtyUses(G, g, z) = TtyUses(H, g, z)
  <2> TAKE z \in Ttys
  <2>1. \A x \in Sessions : G.session[x].tty = H.session[x].tty
    BY <1>5
  <2>2. \A f \in Files : G.file[f].kind = H.file[f].kind
    BY <1>5
  <2> QED BY <2>1, <2>2, UsesSame
<1>7. \A x \in Sessions : G.session[x].refs = SetTo(k, s, 1)[x]
                          /\ (SetTo(k, s, 1)[x] = 0 => G.session[x] = NoSession)
  BY <1>1, <1>2 DEF Agrees, SetTo
<1>8. Agrees(G, h, SetTo(k, s, 1), g)
  BY <1>2, <1>4, <1>6, <1>7 DEF Agrees
<1>9. Linked(H) => Linked(G)
  BY <1>2, <1>5 DEF Linked
<1> QED BY <1>8, <1>9 DEF G, new

\* bind, of the file f that had the port own, to the port q
BoundTo(H, f, q, own) ==
  [H EXCEPT !.file[f].port = q,
            !.port = [r \in Ports |-> IF r = q THEN f ELSE IF r = own THEN None ELSE H.port[r]]]

LEMMA BoundFacts ==
  ASSUME NEW H, NEW h \in [Files -> Nat], NEW k \in [Sessions -> Nat], NEW g \in Ttys,
         Agrees(H, h, k, g), NEW f \in Files, h[f] > 0, NEW q \in Ports, NEW own,
         own = H.file[f].port, NEW G, G = BoundTo(H, f, q, own)
  PROVE  /\ Agrees(G, h, k, g)
         /\ Linked(H) /\ H.port[q] \in {None, f} => Linked(G)
<1>1. H \in HeapType /\ H.file \in [Files -> FileType] /\ H.port \in [Ports -> Files \union {None}]
  BY DEF Agrees, HeapType
<1> DEFINE ports == [r \in Ports |-> IF r = q THEN f ELSE IF r = own THEN None ELSE H.port[r]]
<1>2. /\ G.file = [H.file EXCEPT ![f].port = q] /\ G.port = ports
      /\ G.tty = H.tty /\ G.session = H.session
      /\ G \in [file : {G.file}, tty : {H.tty}, session : {H.session}, port : {ports}]
  BY <1>1 DEF HeapType, BoundTo
<1>3. ports \in [Ports -> Files \union {None}]
  BY <1>1
<1>4. \A x \in Files : /\ G.file[x] \in FileType /\ G.file[x].refs = H.file[x].refs
                       /\ G.file[x].kind = H.file[x].kind
                       /\ G.file[x].port = IF x = f THEN q ELSE H.file[x].port
                       /\ x # f => G.file[x] = H.file[x]
  BY <1>1, <1>2 DEF FileType
<1>5. G \in HeapType
  <2>1. G.file \in [Files -> FileType]
    BY <1>1, <1>2, <1>4, Zenon
  <2> QED BY <1>1, <1>2, <1>3, <2>1 DEF HeapType
<1>6. \A z \in Ttys : TtyUses(G, g, z) = TtyUses(H, g, z)
  <2> TAKE z \in Ttys
  <2>1. OfTty(G, z) = OfTty(H, z)
    BY <1>2 DEF OfTty
  <2>2. OfKind(G, z) = OfKind(H, z)
    BY <1>4 DEF OfKind
  <2> QED BY <2>1, <2>2 DEF TtyUses
<1>7. \A x \in Files : G.file[x].refs = h[x] /\ (h[x] = 0 => G.file[x] = NoFile)
  BY <1>4 DEF Agrees
<1>8. Agrees(G, h, k, g)
  BY <1>2, <1>5, <1>6, <1>7 DEF Agrees
<1>9. ASSUME Linked(H), H.port[q] \in {None, f}  PROVE Linked(G)
  <2>1. ASSUME NEW p \in Ports, NEW x \in Files
        PROVE  G.port[p] = x <=> G.file[x].port = p
    <3>1. \A y \in Files : /\ H.port[p] = y <=> H.file[y].port = p
                           /\ H.port[q] = y <=> H.file[y].port = q
      BY <1>9 DEF Linked
    <3>2. G.port[p] = IF p = q THEN f ELSE IF p = own THEN None ELSE H.port[p]
      BY <1>2
    <3>3. CASE x = f
      BY <1>4, <3>1, <3>2, <3>3, Names, SMTT(30)
    <3>4. CASE x # f
      BY <1>4, <1>9, <3>1, <3>2, <3>4, Names
    <3> QED BY <3>3, <3>4
  <2>2. \A x \in Files : G.file[x].refs > 0 => G.file[x].kind # "none"
    <3> TAKE x \in Files
    <3>1. G.file[x].refs = H.file[x].refs /\ G.file[x].kind = H.file[x].kind
      BY <1>4
    <3> QED BY <3>1, <1>9 DEF Linked
  <2>3. G.tty = H.tty /\ G.session = H.session
    BY <1>2
  <2>4. \A y \in Ttys, s \in Sessions : G.tty[y].session = s <=> G.session[s].tty = y
    BY <1>9, <2>3 DEF Linked
  <2> QED BY <2>1, <2>2, <2>4, Zenon DEF Linked
<1> QED BY <1>8, <1>9

\* tty_switch_foreground, from g to y
SwitchedTo(H, y, g) ==
  [H EXCEPT !.tty = PutTty([H.tty EXCEPT ![y].refs = H.tty[y].refs + 1], g, 1)]

LEMMA SwitchedFacts ==
  ASSUME NEW H, NEW h \in [Files -> Nat], NEW k \in [Sessions -> Nat], NEW g \in Ttys,
         Agrees(H, h, k, g), NEW y \in Ttys, y # g, NEW G, G = SwitchedTo(H, y, g)
  PROVE  /\ Agrees(G, h, k, y)
         /\ Linked(H) => Linked(G)
<1> DEFINE tty == [H.tty EXCEPT ![y].refs = H.tty[y].refs + 1]
<1>1. H \in HeapType /\ H.tty \in [Ttys -> TtyType]
  BY DEF Agrees, HeapType
<1>2. /\ tty \in [Ttys -> TtyType]
      /\ \A z \in Ttys : /\ tty[z].refs = H.tty[z].refs + (IF z = y THEN 1 ELSE 0)
                         /\ tty[z].session = H.tty[z].session
  BY <1>1 DEF TtyType
<1>3. /\ G.tty = PutTty(tty, g, 1) /\ G.file = H.file /\ G.session = H.session /\ G.port = H.port
      /\ G \in [file : {H.file}, tty : {G.tty}, session : {H.session}, port : {H.port}]
  BY <1>1 DEF HeapType, SwitchedTo
<1> HIDE DEF tty
<1>4. \A z \in Ttys :
        /\ Cardinality(OfKind(H, z)) \in Nat /\ Cardinality(OfTty(H, z)) \in Nat
        /\ OfTty(H, z) # {} => Cardinality(OfTty(H, z)) > 0
        /\ H.tty[z].refs = Cardinality(OfKind(H, z)) + Cardinality(OfTty(H, z))
                           + (IF g = z THEN 1 ELSE 0)
        /\ TtyUses(G, y, z) = Cardinality(OfKind(H, z)) + Cardinality(OfTty(H, z))
                              + (IF y = z THEN 1 ELSE 0)
  <2> TAKE z \in Ttys
  <2>1. OfKind(G, z) = OfKind(H, z) /\ OfTty(G, z) = OfTty(H, z)
    BY <1>3 DEF OfKind, OfTty
  <2> QED BY <2>1, UsesType DEF Agrees, TtyUses
<1>5. tty[g].refs = H.tty[g].refs /\ H.tty[g].refs >= 1
      /\ (H.tty[g].refs = 1 => OfTty(H, g) = {})
  BY <1>2, <1>4
<1>6. /\ G.tty \in [Ttys -> TtyType]
      /\ \A z \in Ttys \ {g} : G.tty[z] = tty[z]
      /\ G.tty[g].refs = tty[g].refs - 1
      /\ \/ G.tty[g].session = tty[g].session
         \/ tty[g].refs = 1 /\ G.tty[g].session = None
  BY <1>2, <1>3, <1>5, PutTtyFacts
<1>7. \A z \in Ttys : G.tty[z].refs = TtyUses(G, y, z)
  <2> TAKE z \in Ttys
  <2>1. CASE z = g
    <3>1. /\ Cardinality(OfKind(H, z)) \in Nat /\ Cardinality(OfTty(H, z)) \in Nat
          /\ H.tty[z].refs = Cardinality(OfKind(H, z)) + Cardinality(OfTty(H, z)) + 1
          /\ TtyUses(G, y, z) = Cardinality(OfKind(H, z)) + Cardinality(OfTty(H, z))
      BY <1>4, <2>1
    <3> QED BY <1>5, <1>6, <2>1, <3>1
  <2>2. CASE z # g
    <3>1. G.tty[z].refs = H.tty[z].refs + (IF z = y THEN 1 ELSE 0)
      BY <1>2, <1>6, <2>2
    <3>2. /\ Cardinality(OfKind(H, z)) \in Nat /\ Cardinality(OfTty(H, z)) \in Nat
          /\ H.tty[z].refs = Cardinality(OfKind(H, z)) + Cardinality(OfTty(H, z))
          /\ TtyUses(G, y, z) = Cardinality(OfKind(H, z)) + Cardinality(OfTty(H, z))
                                + (IF y = z THEN 1 ELSE 0)
      BY <1>4, <2>2
    <3> QED BY <3>1, <3>2
  <2> QED BY <2>1, <2>2
<1>8. G \in HeapType
  BY <1>1, <1>3, <1>6 DEF HeapType
<1>9. Agrees(G, h, k, y)
  BY <1>3, <1>7, <1>8 DEF Agrees
<1>10. ASSUME Linked(H)  PROVE Linked(G)
  <2>1. ASSUME NEW z \in Ttys, NEW s \in Sessions
        PROVE  G.tty[z].session = s <=> G.session[s].tty = z
    <3>1. H.tty[z].session = s <=> H.session[s].tty = z
      BY <1>10 DEF Linked
    <3>2. OfTty(H, z) = {} => H.session[s].tty # z
      BY DEF OfTty
    <3>3. tty[z].session = H.tty[z].session /\ G.session = H.session
      BY <1>2, <1>3
    <3>4. z # g => G.tty[z] = tty[z]
      BY <1>6
    <3>5. \/ G.tty[g].session = tty[g].session
          \/ OfTty(H, g) = {} /\ G.tty[g].session = None
      BY <1>5, <1>6
    <3> QED BY <3>1, <3>2, <3>3, <3>4, <3>5, Names
  <2> QED BY <1>3, <1>10, <2>1 DEF Linked
<1> QED BY <1>9, <1>10

-----------------------------------------------------------------------------
(* The inductive invariant. *)

Held(tk, tb) == [f \in Files |-> TasksHold(tk, f) + TablesHold(tb, f)]
Belong(tk, lo) == [s \in Sessions |-> Members(tk, s) + lo[s]]

VarsType ==
  /\ task \in [Tasks -> TaskType] /\ table \in [Tables -> TableType]
  /\ fg \in Ttys /\ lost \in [Sessions -> Nat] /\ calls \in 0 .. MaxCalls

\* A task has a table when it has a memory of its own, and until then neither a
\* directory nor a program; only a living one sleeps.
WellFormed(r) ==
  /\ r.status = "alive" => (r.mm <=> r.files # None)
  /\ r.status = "alive" /\ ~r.mm => r.cwd = None /\ r.exe = None
  /\ r.execing => r.mm
  /\ r.status # "alive" => r.reading = None /\ r.polled = [d \in Fds |-> None]
  /\ r.status = "free" => r = NoTask

Shape == \A t \in Tasks : WellFormed(task[t])

TablesCounted == \A b \in Tables : table[b].refs = Users(task, b)

HeapCounted == Agrees(heap, Held(task, table), Belong(task, lost), fg)

CountInv == VarsType /\ Shape /\ TablesCounted /\ HeapCounted

\* A reader's file is in its table.
ReaderHolds ==
  \A t \in Tasks : task[t].reading # None =>
    task[t].files # None /\ \E d \in Fds : table[task[t].files].fd[d] = task[t].reading

LinkInv == Linked(heap) /\ ReaderHolds

LEMMA AgreesSame ==
  ASSUME NEW H, NEW h, NEW k, NEW g, Agrees(H, h, k, g), NEW i, NEW l,
         \A f \in Files : i[f] = h[f], \A s \in Sessions : l[s] = k[s]
  PROVE  Agrees(H, i, l, g)
BY DEF Agrees

\* What is held after one task and one table have changed.
LEMMA HeldMoved ==
  ASSUME VarsType, NEW tk \in [Tasks -> TaskType], NEW tb \in [Tables -> TableType],
         NEW t \in Tasks, \A u \in Tasks \ {t} : tk[u] = task[u],
         NEW b \in Tables, \A a \in Tables \ {b} : tb[a] = table[a]
  PROVE  /\ Held(task, table) \in [Files -> Nat] /\ Held(tk, tb) \in [Files -> Nat]
         /\ \A f \in Files :
              /\ TaskHolds(task[t], f) \in Nat /\ TableHolds(table[b], f) \in Nat
              /\ TaskHolds(tk[t], f) \in Nat /\ TableHolds(tb[b], f) \in Nat
              /\ Held(tk, tb)[f] + TaskHolds(task[t], f) + TableHolds(table[b], f)
                   = Held(task, table)[f] + TaskHolds(tk[t], f) + TableHolds(tb[b], f)
              /\ TaskHolds(task[t], f) + TableHolds(table[b], f) <= Held(task, table)[f]
<1>1. \A f \in Files :
        /\ TasksHold(task, f) \in Nat /\ TasksHold(tk, f) \in Nat
        /\ TasksHold(tk, f) + TaskHolds(task[t], f) = TasksHold(task, f) + TaskHolds(tk[t], f)
        /\ TaskHolds(task[t], f) <= TasksHold(task, f)
  BY TaskMoved DEF VarsType
<1>2. \A f \in Files :
        /\ TablesHold(table, f) \in Nat /\ TablesHold(tb, f) \in Nat
        /\ TablesHold(tb, f) + TableHolds(table[b], f) = TablesHold(table, f) + TableHolds(tb[b], f)
        /\ TableHolds(table[b], f) <= TablesHold(table, f)
  BY TableMoved DEF VarsType
<1>3. \A f \in Files : /\ TaskHolds(task[t], f) \in Nat /\ TableHolds(table[b], f) \in Nat
                       /\ TaskHolds(tk[t], f) \in Nat /\ TableHolds(tb[b], f) \in Nat
  BY HoldsType DEF VarsType
<1>4. \A f \in Files : /\ Held(task, table)[f] = TasksHold(task, f) + TablesHold(table, f)
                       /\ Held(tk, tb)[f] = TasksHold(tk, f) + TablesHold(tb, f)
  BY DEF Held
<1>5. Held(task, table) \in [Files -> Nat] /\ Held(tk, tb) \in [Files -> Nat]
  BY <1>1, <1>2 DEF Held
<1>6. ASSUME NEW f \in Files
      PROVE  /\ Held(tk, tb)[f] + TaskHolds(task[t], f) + TableHolds(table[b], f)
                  = Held(task, table)[f] + TaskHolds(tk[t], f) + TableHolds(tb[b], f)
             /\ TaskHolds(task[t], f) + TableHolds(table[b], f) <= Held(task, table)[f]
  BY <1>1, <1>2, <1>3, <1>4
<1> QED BY <1>3, <1>5, <1>6

LEMMA HeldByTable ==
  ASSUME VarsType, NEW tb \in [Tables -> TableType],
         NEW b \in Tables, \A a \in Tables \ {b} : tb[a] = table[a]
  PROVE  /\ Held(task, table) \in [Files -> Nat] /\ Held(task, tb) \in [Files -> Nat]
         /\ \A f \in Files :
              /\ TableHolds(table[b], f) \in Nat /\ TableHolds(tb[b], f) \in Nat
              /\ Held(task, tb)[f] + TableHolds(table[b], f)
                   = Held(task, table)[f] + TableHolds(tb[b], f)
              /\ TableHolds(table[b], f) <= Held(task, table)[f]
<1>1. task \in [Tasks -> TaskType] /\ 1 \in Tasks /\ \A u \in Tasks \ {1} : task[u] = task[u]
  BY FilesAssumption DEF VarsType, Tasks
<1>2. /\ Held(task, table) \in [Files -> Nat] /\ Held(task, tb) \in [Files -> Nat]
      /\ \A f \in Files :
           /\ TaskHolds(task[1], f) \in Nat /\ TableHolds(table[b], f) \in Nat
           /\ TableHolds(tb[b], f) \in Nat
           /\ Held(task, tb)[f] + TaskHolds(task[1], f) + TableHolds(table[b], f)
                = Held(task, table)[f] + TaskHolds(task[1], f) + TableHolds(tb[b], f)
           /\ TaskHolds(task[1], f) + TableHolds(table[b], f) <= Held(task, table)[f]
  BY <1>1, HeldMoved
<1>3. ASSUME NEW f \in Files
      PROVE  /\ Held(task, tb)[f] + TableHolds(table[b], f)
                  = Held(task, table)[f] + TableHolds(tb[b], f)
             /\ TableHolds(table[b], f) <= Held(task, table)[f]
  <2>1. Held(task, tb)[f] \in Nat /\ Held(task, table)[f] \in Nat
    BY <1>2
  <2>2. /\ TaskHolds(task[1], f) \in Nat /\ TableHolds(table[b], f) \in Nat
        /\ TableHolds(tb[b], f) \in Nat
        /\ Held(task, tb)[f] + TaskHolds(task[1], f) + TableHolds(table[b], f)
             = Held(task, table)[f] + TaskHolds(task[1], f) + TableHolds(tb[b], f)
        /\ TaskHolds(task[1], f) + TableHolds(table[b], f) <= Held(task, table)[f]
    BY <1>2
  <2> QED BY <2>1, <2>2
<1> QED BY <1>2, <1>3

LEMMA HeldByTask ==
  ASSUME VarsType, NEW tk \in [Tasks -> TaskType],
         NEW t \in Tasks, \A u \in Tasks \ {t} : tk[u] = task[u]
  PROVE  /\ Held(task, table) \in [Files -> Nat] /\ Held(tk, table) \in [Files -> Nat]
         /\ \A f \in Files :
              /\ TaskHolds(task[t], f) \in Nat /\ TaskHolds(tk[t], f) \in Nat
              /\ Held(tk, table)[f] + TaskHolds(task[t], f)
                   = Held(task, table)[f] + TaskHolds(tk[t], f)
              /\ TaskHolds(task[t], f) <= Held(task, table)[f]
<1>1. table \in [Tables -> TableType] /\ 1 \in Tables /\ \A a \in Tables \ {1} : table[a] = table[a]
  BY FilesAssumption DEF VarsType, Tables
<1>2. /\ Held(task, table) \in [Files -> Nat] /\ Held(tk, table) \in [Files -> Nat]
      /\ \A f \in Files :
           /\ TaskHolds(task[t], f) \in Nat /\ TableHolds(table[1], f) \in Nat
           /\ TaskHolds(tk[t], f) \in Nat
           /\ Held(tk, table)[f] + TaskHolds(task[t], f) + TableHolds(table[1], f)
                = Held(task, table)[f] + TaskHolds(tk[t], f) + TableHolds(table[1], f)
           /\ TaskHolds(task[t], f) + TableHolds(table[1], f) <= Held(task, table)[f]
  BY <1>1, HeldMoved, SMTT(30)
<1>3. ASSUME NEW f \in Files
      PROVE  /\ Held(tk, table)[f] + TaskHolds(task[t], f)
                  = Held(task, table)[f] + TaskHolds(tk[t], f)
             /\ TaskHolds(task[t], f) <= Held(task, table)[f]
  BY <1>2
<1> QED BY <1>2, <1>3

\* The number of members of each session, after one task has changed.
LEMMA BelongMoved ==
  ASSUME VarsType, NEW tk, NEW t \in Tasks, \A u \in Tasks \ {t} : tk[u] = task[u]
  PROVE  /\ Belong(task, lost) \in [Sessions -> Nat] /\ Belong(tk, lost) \in [Sessions -> Nat]
         /\ \A s \in Sessions :
              /\ Belong(tk, lost)[s] + IsIn(task[t], s) = Belong(task, lost)[s] + IsIn(tk[t], s)
              /\ IsIn(task[t], s) <= Belong(task, lost)[s]
<1>1. \A s \in Sessions :
        /\ Members(task, s) \in Nat /\ Members(tk, s) \in Nat
        /\ Members(tk, s) + IsIn(task[t], s) = Members(task, s) + IsIn(tk[t], s)
        /\ IsIn(task[t], s) <= Members(task, s)
  BY MembersMoved
<1>2. \A s \in Sessions : lost[s] \in Nat /\ IsIn(task[t], s) \in Nat /\ IsIn(tk[t], s) \in Nat
  BY DEF VarsType, IsIn
<1>3. Belong(task, lost) \in [Sessions -> Nat] /\ Belong(tk, lost) \in [Sessions -> Nat]
      /\ \A s \in Sessions : /\ Belong(task, lost)[s] = Members(task, s) + lost[s]
                             /\ Belong(tk, lost)[s] = Members(tk, s) + lost[s]
  BY <1>1, <1>2 DEF Belong
<1>4. ASSUME NEW s \in Sessions
      PROVE  /\ Belong(tk, lost)[s] + IsIn(task[t], s) = Belong(task, lost)[s] + IsIn(tk[t], s)
             /\ IsIn(task[t], s) <= Belong(task, lost)[s]
  BY <1>1, <1>2, <1>3
<1> QED BY <1>3, <1>4

LEMMA SomeOfEach == 1 \in Tasks /\ 1 \in Tables
BY FilesAssumption DEF Tasks, Tables

LEMMA CountsType ==
  ASSUME VarsType
  PROVE  Held(task, table) \in [Files -> Nat] /\ Belong(task, lost) \in [Sessions -> Nat]
<1>1. Held(task, table) \in [Files -> Nat]
  <2>1. task \in [Tasks -> TaskType] /\ \A u \in Tasks \ {1} : task[u] = task[u]
    BY DEF VarsType
  <2> QED BY <2>1, SomeOfEach, HeldByTask
<1>2. Belong(task, lost) \in [Sessions -> Nat]
  <2>1. \A u \in Tasks \ {1} : task[u] = task[u]
    OBVIOUS
  <2> QED BY <2>1, SomeOfEach, BelongMoved
<1> QED BY <1>1, <1>2

\* A task that has a table.
LEMMA TableOf ==
  ASSUME CountInv, NEW t \in Tasks, task[t].status = "alive", task[t].files # None
  PROVE  /\ task[t].files \in Tables /\ table[task[t].files] \in TableType
         /\ table[task[t].files].refs > 0
         /\ Descriptors(t) = table[task[t].files].fd
         /\ Descriptors(t) \in [Fds -> Files \union {None}]
         /\ \A f \in Files : In(Descriptors(t), Fds)[f] <= Held(task, table)[f]
         /\ \A d \in Fds : Descriptors(t)[d] # None =>
              /\ Descriptors(t)[d] \in Files
              /\ In(Descriptors(t), Fds)[Descriptors(t)[d]] > 0
              /\ Held(task, table)[Descriptors(t)[d]] > 0
<1> DEFINE b == task[t].files
<1>1. b \in Tables /\ table[b] \in TableType /\ Descriptors(t) = table[b].fd
  BY DEF CountInv, VarsType, TaskType, Descriptors
<1>2. table[b].refs > 0
  <2>1. table[b].refs = Users(task, b)
    BY <1>1 DEF CountInv, TablesCounted
  <2>2. \A u \in Tasks \ {t} : task[u] = task[u]
    OBVIOUS
  <2>3. Uses(task[t], b) = 1
    BY DEF Uses
  <2> HIDE DEF b
  <2>4. Users(task, b) > 0
    <3>1. Uses(task[t], b) <= Users(task, b) /\ Users(task, b) \in 0 .. NumTasks
      BY <2>2, UsersMoved
    <3> QED BY <2>3, <3>1, FilesAssumption
  <2> QED BY <2>1, <2>4
<1>3. Descriptors(t) \in [Fds -> Files \union {None}]
  BY <1>1 DEF TableType
<1>4. \A f \in Files : /\ Held(task, table)[f] \in Nat
                       /\ TaskHolds(task[t], f) \in Nat
                       /\ TaskHolds(task[t], f) + TableHolds(table[b], f) <= Held(task, table)[f]
  <2>1. /\ VarsType /\ task \in [Tasks -> TaskType] /\ table \in [Tables -> TableType]
        /\ \A u \in Tasks \ {t} : task[u] = task[u]
        /\ \A a \in Tables \ {b} : table[a] = table[a]
    BY DEF CountInv, VarsType
  <2> HIDE DEF b
  <2> QED BY <1>1, <2>1, HeldMoved
<1>5. \A f \in Files : TableHolds(table[b], f) = In(Descriptors(t), Fds)[f]
                       /\ In(Descriptors(t), Fds)[f] \in Nat
                       /\ (In(Descriptors(t), Fds)[f] = 0 <=> \A d \in Fds : Descriptors(t)[d] # f)
  BY <1>1, <1>2, InType DEF TableHolds
<1> HIDE DEF b
<1>6. \A f \in Files : In(Descriptors(t), Fds)[f] <= Held(task, table)[f]
  BY <1>4, <1>5
<1>7. ASSUME NEW d \in Fds, Descriptors(t)[d] # None
      PROVE  /\ Descriptors(t)[d] \in Files
             /\ In(Descriptors(t), Fds)[Descriptors(t)[d]] > 0
             /\ Held(task, table)[Descriptors(t)[d]] > 0
  <2>1. Descriptors(t)[d] \in Files
    BY <1>3, <1>7
  <2>2. In(Descriptors(t), Fds)[Descriptors(t)[d]] > 0
    BY <1>5, <2>1
  <2> QED BY <1>4, <1>5, <1>6, <2>1, <2>2
<1> QED BY <1>1, <1>2, <1>3, <1>6, <1>7 DEF b

\* A file that filp_open would take.
LEMMA FreeFile ==
  ASSUME CountInv
  PROVE  /\ FreeFiles(heap) \in SUBSET Files
         /\ \A f \in FreeFiles(heap) : Held(task, table)[f] = 0
         /\ FreeFiles(heap) # {} => Min(FreeFiles(heap)) \in FreeFiles(heap)
<1>1. FreeFiles(heap) \in SUBSET Nat
  BY DEF FreeFiles, Files
<1>2. FreeFiles(heap) # {} => Min(FreeFiles(heap)) \in FreeFiles(heap)
  BY <1>1, MinFacts
<1>3. \A f \in FreeFiles(heap) : f \in Files /\ heap.file[f].refs = 0
  BY DEF FreeFiles
<1> QED BY <1>2, <1>3 DEF CountInv, HeapCounted, Agrees

-----------------------------------------------------------------------------
(* System calls on descriptors. *)

LEMMA CallsBound ==
  ASSUME CountInv, Counted
  PROVE  calls' \in 0 .. MaxCalls
BY FilesAssumption DEF CountInv, VarsType, Counted

LEMMA CallerHasTable ==
  ASSUME CountInv, NEW t \in Tasks, Calls(t)
  PROVE  /\ task[t].status = "alive" /\ task[t].files # None /\ task[t].mm
         /\ task[t].reading = None /\ \A d \in Fds : task[t].polled[d] = None
BY DEF CountInv, Shape, WellFormed, Calls, Idle

\* The tables, when d of the table b becomes v.
SlotSet(b, d, v, C) == [table EXCEPT ![b].fd[d] = v, ![b].cloexec = C]

\* When old makes place for v in a descriptor, no reader loses its file.
ReadersKeep(old, v) ==
  \A u \in Tasks : task[u].reading = None \/ task[u].reading # old \/ v = old

\* One descriptor of the caller's table changes, and the heap with it.
LEMMA SlotStep ==
  ASSUME CountInv, NEW t \in Tasks, task[t].status = "alive", task[t].files # None,
         NEW d \in Fds, NEW v \in Files \union {None}, NEW C \in SUBSET Fds,
         table' = SlotSet(task[t].files, d, v, C),
         UNCHANGED <<task, fg, lost>>, calls' \in 0 .. MaxCalls,
         NEW h \in [Files -> Nat], Agrees(heap', h, Belong(task, lost), fg),
         \A x \in Files : h[x] + One(Descriptors(t)[d])[x] = Held(task, table)[x] + One(v)[x]
  PROVE  /\ CountInv'
         /\ ReaderHolds /\ ReadersKeep(Descriptors(t)[d], v) => ReaderHolds'
<1> DEFINE b == task[t].files
           r == [table[b] EXCEPT !.fd[d] = v, !.cloexec = C]
<1>1. /\ b \in Tables /\ table[b] \in TableType /\ table[b].refs > 0
      /\ Descriptors(t) = table[b].fd
  BY TableOf
<1>2. table \in [Tables -> TableType] /\ VarsType
  BY DEF CountInv, VarsType
<1>3. /\ r \in TableType /\ r.refs = table[b].refs /\ r.fd = [table[b].fd EXCEPT ![d] = v]
      /\ table' = [table EXCEPT ![b] = r]
  BY <1>1, <1>2 DEF TableType, SlotSet
<1> HIDE DEF b, r
<1>4. /\ table' \in [Tables -> TableType] /\ table'[b] = r
      /\ \A a \in Tables \ {b} : table'[a] = table[a]
  BY <1>1, <1>2, <1>3
<1>5. ASSUME NEW x \in Files
      PROVE  Held(task', table')[x] = h[x]
  <2>1. /\ Held(task, table') \in [Files -> Nat] /\ Held(task, table) \in [Files -> Nat]
        /\ TableHolds(table[b], x) \in Nat /\ TableHolds(r, x) \in Nat
        /\ Held(task, table')[x] + TableHolds(table[b], x) = Held(task, table)[x] + TableHolds(r, x)
    BY <1>1, <1>2, <1>4, HeldByTable
  <2>2. TableHolds(r, x) + One(Descriptors(t)[d])[x] = TableHolds(table[b], x) + One(v)[x]
    <3>1. table[b].fd \in [Fds -> Files \union {None}]
      BY <1>1 DEF TableType
    <3>2. TableHolds(r, x) = In(r.fd, Fds)[x] /\ TableHolds(table[b], x) = In(table[b].fd, Fds)[x]
      BY <1>1, <1>3 DEF TableHolds
    <3>3. r.fd = SetTo(table[b].fd, d, v) /\ Descriptors(t)[d] = table[b].fd[d]
      BY <1>1, <1>3 DEF SetTo
    <3>4. In(SetTo(table[b].fd, d, v), Fds)[x] + One(table[b].fd[d])[x]
            = In(table[b].fd, Fds)[x] + One(v)[x]
      BY <1>1, <3>1, SlotChanged
    <3> QED BY <3>2, <3>3, <3>4
  <2>3. One(Descriptors(t)[d])[x] \in Nat /\ One(v)[x] \in Nat
    BY OneType
  <2>4. Held(task, table')[x] \in Nat /\ Held(task, table)[x] \in Nat /\ h[x] \in Nat
    BY <2>1
  <2>5. h[x] + One(Descriptors(t)[d])[x] = Held(task, table)[x] + One(v)[x]
    OBVIOUS
  <2>6. Held(task, table')[x] = h[x]
    BY <2>1, <2>2, <2>3, <2>4, <2>5
  <2> QED BY <2>6
<1>6. VarsType' /\ Shape'
  BY <1>2, <1>4 DEF CountInv, VarsType, Shape
<1>7. TablesCounted'
  <2>1. \A a \in Tables : table'[a].refs = table[a].refs
    BY <1>3, <1>4
  <2> QED BY <2>1 DEF CountInv, TablesCounted
<1>8. HeapCounted'
  <2>1. \A x \in Sessions : Belong(task', lost')[x] = Belong(task, lost)[x]
    OBVIOUS
  <2>2. Agrees(heap', Held(task', table'), Belong(task', lost'), fg)
    BY <1>5, <2>1, AgreesSame
  <2> QED BY <2>2 DEF HeapCounted
<1>9. ASSUME ReaderHolds, NEW u \in Tasks, task[u].reading # None,
             task[u].reading # Descriptors(t)[d] \/ v = Descriptors(t)[d]
      PROVE  task[u].files # None /\ \E e \in Fds : table'[task[u].files].fd[e] = task[u].reading
  <2>1. task[u].files # None
    BY <1>9 DEF ReaderHolds
  <2>2. PICK e \in Fds : table[task[u].files].fd[e] = task[u].reading
    BY <1>9 DEF ReaderHolds
  <2>3. task[u].files \in Tables
    BY <1>2, <2>1 DEF VarsType, TaskType
  <2>4. CASE task[u].files = b
    <3>1. e # d \/ v = table[b].fd[d]
      BY <1>1, <1>9, <2>2, <2>4
    <3>2. table'[b].fd[e] = table[b].fd[e]
      BY <1>1, <1>3, <1>4, <3>1 DEF TableType
    <3> QED BY <2>1, <2>2, <2>4, <3>2
  <2>5. CASE task[u].files # b
    BY <1>4, <2>1, <2>2, <2>3, <2>5
  <2> QED BY <2>4, <2>5
<1>10. ReaderHolds /\ ReadersKeep(Descriptors(t)[d], v) => ReaderHolds'
  BY <1>9 DEF ReaderHolds, ReadersKeep
<1> QED BY <1>6, <1>7, <1>8, <1>10 DEF CountInv

\* The least free descriptor.
LEMMA FreeSlot ==
  ASSUME NEW t \in Tasks, NEW from, Free(t, from) # {}
  PROVE  Min(Free(t, from)) \in Fds /\ Descriptors(t)[Min(Free(t, from))] = None
<1>1. Free(t, from) \in SUBSET Nat
  BY DEF Free, Fds
<1>2. Min(Free(t, from)) \in Free(t, from)
  BY <1>1, MinFacts
<1> QED BY <1>2 DEF Free

LEMMA OpenedNow ==
  ASSUME CountInv, NEW t \in Tasks, NEW f \in FreeFiles(heap), NEW c \in Nat \ {0},
         NEW kind \in FileKinds \ {"none"}, NEW noctty \in BOOLEAN
  PROVE  /\ f \in Files /\ Held(task, table)[f] = 0
         /\ SetTo(Held(task, table), f, c) \in [Files -> Nat]
         /\ \A x \in Files : SetTo(Held(task, table), f, c)[x]
                               = Held(task, table)[x] + (IF x = f THEN c ELSE 0)
         /\ Agrees(Opened(heap, t, f, kind, c, noctty), SetTo(Held(task, table), f, c),
                   Belong(task, lost), fg)
         /\ Linked(heap) => Linked(Opened(heap, t, f, kind, c, noctty))
<1> DEFINE h == Held(task, table)
           k == Belong(task, lost)
<1>1. f \in Files /\ h[f] = 0
  BY FreeFile
<1>2. h \in [Files -> Nat] /\ k \in [Sessions -> Nat]
  BY CountsType DEF CountInv
<1>3. task \in [Tasks -> TaskType] /\ fg \in Ttys /\ Agrees(heap, h, k, fg)
  BY DEF CountInv, VarsType, HeapCounted
<1> HIDE DEF h, k
<1>4. Agrees(Opened(heap, t, f, kind, c, noctty), SetTo(h, f, c), k, fg)
      /\ (Linked(heap) => Linked(Opened(heap, t, f, kind, c, noctty)))
  BY <1>1, <1>2, <1>3, OpenedFacts
<1>5. SetTo(h, f, c) \in [Files -> Nat]
      /\ \A x \in Files : SetTo(h, f, c)[x] = h[x] + (IF x = f THEN c ELSE 0)
  BY <1>1, <1>2 DEF SetTo
<1> QED BY <1>1, <1>4, <1>5 DEF h, k

\* A new file in the caller's table.
LEMMA NewSlotStep ==
  ASSUME CountInv, NEW t \in Tasks, Calls(t), FreeFiles(heap) # {}, Free(t, 0) # {},
         NEW kind \in FileKinds \ {"none"}, NEW noctty \in BOOLEAN, NEW C \in SUBSET Fds,
         heap' = Opened(heap, t, Min(FreeFiles(heap)), kind, 1, noctty),
         table' = SlotSet(task[t].files, Min(Free(t, 0)), Min(FreeFiles(heap)), C),
         UNCHANGED <<task, fg, lost>>, calls' \in 0 .. MaxCalls
  PROVE  CountInv' /\ (LinkInv => LinkInv')
<1> DEFINE f == Min(FreeFiles(heap))
           d == Min(Free(t, 0))
           h == Held(task, table)
           i == SetTo(h, f, 1)
<1>1. f \in FreeFiles(heap) /\ d \in Fds /\ Descriptors(t)[d] = None
  BY FreeFile, FreeSlot
<1> HIDE DEF f, d
<1>2. /\ f \in Files /\ i \in [Files -> Nat]
      /\ \A x \in Files : i[x] = h[x] + (IF x = f THEN 1 ELSE 0)
      /\ Agrees(Opened(heap, t, f, kind, 1, noctty), i, Belong(task, lost), fg)
      /\ Linked(heap) => Linked(Opened(heap, t, f, kind, 1, noctty))
  <2>1. 1 \in Nat \ {0}
    OBVIOUS
  <2> QED BY <1>1, <2>1, OpenedNow
<1>3. h \in [Files -> Nat]
  BY CountsType DEF CountInv
<1> HIDE DEF h, i
<1>5. Agrees(heap', i, Belong(task, lost), fg) /\ (Linked(heap) => Linked(heap'))
  BY <1>2 DEF f
<1>6. \A x \in Files : i[x] + One(Descriptors(t)[d])[x] = h[x] + One(f)[x]
  BY <1>1, <1>2, <1>3, Names, OneType
<1>7. i \in [Files -> Nat] /\ f \in Files \union {None}
  BY <1>2
<1>8. table' = SlotSet(task[t].files, d, f, C)
  BY DEF d, f
<1>9. task[t].status = "alive" /\ task[t].files # None
  BY CallerHasTable
<1>10. CountInv' /\ (ReaderHolds /\ ReadersKeep(Descriptors(t)[d], f) => ReaderHolds')
  BY <1>1, <1>5, <1>6, <1>7, <1>8, <1>9, SlotStep DEF h
<1>11. ReadersKeep(Descriptors(t)[d], f)
  BY <1>1 DEF ReadersKeep
<1> QED BY <1>5, <1>10, <1>11 DEF LinkInv

LEMMA OpenFileStep ==
  ASSUME CountInv, NEW t \in Tasks, OpenFile(t)
  PROVE  CountInv' /\ (LinkInv => LinkInv')
<1>1. /\ Calls(t) /\ FreeFiles(heap) # {} /\ Free(t, 0) # {} /\ Counted
      /\ UNCHANGED <<task, fg, lost>>
  BY DEF OpenFile
<1> DEFINE f == Min(FreeFiles(heap))
           d == Min(Free(t, 0))
           G(kind, noctty) == Opened(heap, t, f, kind, 1, noctty)
<1>2. PICK kind \in FileKinds \ {"socket", "none"}, noctty \in BOOLEAN, cloexec \in BOOLEAN :
        IF task[t].ece391 /\ d >= EceFds
          THEN heap' = Closed(G(kind, noctty), One(f)) /\ UNCHANGED table
          ELSE /\ heap' = G(kind, noctty)
               /\ table' = [table EXCEPT
                    ![task[t].files].fd[d] = f,
                    ![task[t].files].cloexec = IF cloexec THEN @ \union {d} ELSE @ \ {d}]
  BY Zenon DEF OpenFile
<1>3. calls' \in 0 .. MaxCalls
  BY <1>1, CallsBound
<1>4. CASE task[t].ece391 /\ d >= EceFds
  <2> DEFINE h == Held(task, table)
             k == Belong(task, lost)
             i == SetTo(h, f, 1)
  <2>1. f \in FreeFiles(heap) /\ 1 \in Nat \ {0}
    BY <1>1, FreeFile
  <2>2. h \in [Files -> Nat] /\ k \in [Sessions -> Nat] /\ fg \in Ttys
    BY CountsType DEF CountInv, VarsType
  <2>4. heap' = Closed(G(kind, noctty), One(f)) /\ UNCHANGED table
    BY <1>2, <1>4
  <2> HIDE DEF f
  <2>5. /\ f \in Files /\ h[f] = 0 /\ i \in [Files -> Nat]
        /\ \A x \in Files : i[x] = h[x] + (IF x = f THEN 1 ELSE 0)
        /\ Agrees(G(kind, noctty), i, k, fg) /\ (Linked(heap) => Linked(G(kind, noctty)))
    BY <2>1, OpenedNow
  <2> HIDE DEF h, k, i
  <2>6. One(f) \in [Files -> Nat] /\ \A x \in Files : One(f)[x] <= i[x]
    BY <2>2, <2>5, OneType
  <2> HIDE DEF G
  <2>7. Agrees(heap', Minus(i, One(f)), k, fg) /\ (Linked(heap) => Linked(heap'))
    BY <2>2, <2>4, <2>5, <2>6, ClosedFacts
  <2>8. \A x \in Files : h[x] = Minus(i, One(f))[x]
    BY <2>2, <2>5, OneType DEF Minus
  <2>9. \A x \in Sessions : k[x] = k[x]
    OBVIOUS
  <2>10. Agrees(heap', h, k, fg)
    BY <2>7, <2>8, <2>9, AgreesSame
  <2>11. HeapCounted' /\ VarsType' /\ Shape' /\ TablesCounted' /\ (ReaderHolds => ReaderHolds')
    BY <1>1, <1>3, <2>4, <2>10
       DEF CountInv, HeapCounted, VarsType, Shape, TablesCounted, ReaderHolds, h, k
  <2> QED BY <2>7, <2>11 DEF CountInv, LinkInv
<1>5. CASE ~(task[t].ece391 /\ d >= EceFds)
  <2> DEFINE C == IF cloexec THEN table[task[t].files].cloexec \union {d}
                  ELSE table[task[t].files].cloexec \ {d}
  <2>1. /\ heap' = G(kind, noctty)
        /\ table' = [table EXCEPT
             ![task[t].files].fd[d] = f,
             ![task[t].files].cloexec = IF cloexec THEN @ \union {d} ELSE @ \ {d}]
    BY <1>2, <1>5
  <2>2. d \in Fds
    BY <1>1, FreeSlot
  <2>3. /\ task[t].files \in Tables /\ table \in [Tables -> TableType]
        /\ table[task[t].files].cloexec \in SUBSET Fds
    BY <1>1, CallerHasTable, TableOf DEF CountInv, VarsType, TableType
  <2>4. C \in SUBSET Fds
    BY <2>2, <2>3
  <2>5. table' = SlotSet(task[t].files, d, f, C)
    BY <2>1, <2>3 DEF TableType, SlotSet
  <2> HIDE DEF C
  <2> QED BY <1>1, <1>3, <2>1, <2>4, <2>5, NewSlotStep
<1> QED BY <1>4, <1>5

LEMMA SocketStep ==
  ASSUME CountInv, NEW t \in Tasks, NEW cloexec \in BOOLEAN, Socket(t, cloexec)
  PROVE  CountInv' /\ (LinkInv => LinkInv')
<1> DEFINE f == Min(FreeFiles(heap))
           d == Min(Free(t, 0))
           C == IF cloexec THEN table[task[t].files].cloexec \union {d}
                ELSE table[task[t].files].cloexec \ {d}
<1>1. /\ Calls(t) /\ FreeFiles(heap) # {} /\ Free(t, 0) # {} /\ Counted
      /\ UNCHANGED <<task, fg, lost>>
      /\ heap' = Opened(heap, t, f, "socket", 1, TRUE)
      /\ table' = [table EXCEPT
           ![task[t].files].fd[d] = f,
           ![task[t].files].cloexec = IF cloexec THEN @ \union {d} ELSE @ \ {d}]
  BY DEF Socket, Linux
<1>2. calls' \in 0 .. MaxCalls
  BY <1>1, CallsBound
<1>3. d \in Fds
  BY <1>1, FreeSlot
<1>4. /\ task[t].files \in Tables /\ table \in [Tables -> TableType]
      /\ table[task[t].files].cloexec \in SUBSET Fds
  BY <1>1, CallerHasTable, TableOf DEF CountInv, VarsType, TableType
<1>5. C \in SUBSET Fds
  BY <1>3, <1>4
<1>6. table' = SlotSet(task[t].files, d, f, C)
  BY <1>1, <1>4 DEF TableType, SlotSet
<1>7. "socket" \in FileKinds \ {"none"} /\ TRUE \in BOOLEAN
  BY DEF FileKinds
<1> HIDE DEF C
<1> QED BY <1>1, <1>2, <1>5, <1>6, <1>7, NewSlotStep

LEMMA ClosedNow ==
  ASSUME CountInv, NEW c \in [Files -> Nat], \A x \in Files : c[x] <= Held(task, table)[x]
  PROVE  /\ Minus(Held(task, table), c) \in [Files -> Nat]
         /\ \A x \in Files : Minus(Held(task, table), c)[x] = Held(task, table)[x] - c[x]
         /\ Agrees(Closed(heap, c), Minus(Held(task, table), c), Belong(task, lost), fg)
         /\ Linked(heap) => Linked(Closed(heap, c))
<1> DEFINE h == Held(task, table)
           k == Belong(task, lost)
<1>1. h \in [Files -> Nat] /\ k \in [Sessions -> Nat] /\ fg \in Ttys /\ Agrees(heap, h, k, fg)
  BY CountsType DEF CountInv, VarsType, HeapCounted
<1> HIDE DEF h, k
<1>2. Agrees(Closed(heap, c), Minus(h, c), k, fg) /\ (Linked(heap) => Linked(Closed(heap, c)))
  BY <1>1, ClosedFacts DEF h
<1>3. Minus(h, c) \in [Files -> Nat] /\ \A x \in Files : Minus(h, c)[x] = h[x] - c[x]
  BY <1>1 DEF Minus, h
<1> QED BY <1>2, <1>3 DEF h, k

LEMMA CloseFileStep ==
  ASSUME CountInv, NEW t \in Tasks, NEW d \in Fds, CloseFile(t, d)
  PROVE  CountInv' /\ (Misuse = {} /\ LinkInv => LinkInv')
<1> DEFINE f == Descriptors(t)[d]
           C == table[task[t].files].cloexec \ {d}
           h == Held(task, table)
           i == Minus(h, One(f))
<1>1. /\ Calls(t) /\ f # None /\ Counted /\ UNCHANGED <<task, fg, lost>>
      /\ heap' = Closed(heap, One(f))
      /\ table' = [table EXCEPT ![task[t].files].fd[d] = None, ![task[t].files].cloexec = @ \ {d}]
      /\ "close_under_reader" \in Misuse \/ \A u \in Tasks : task[u].reading # f
  BY DEF CloseFile
<1>2. calls' \in 0 .. MaxCalls /\ task[t].status = "alive" /\ task[t].files # None
  BY <1>1, CallsBound, CallerHasTable
<1>3. /\ task[t].files \in Tables /\ table \in [Tables -> TableType]
      /\ C \in SUBSET Fds /\ f \in Files /\ h[f] > 0
  BY <1>1, <1>2, TableOf DEF CountInv, VarsType, TableType
<1>4. table' = SlotSet(task[t].files, d, None, C)
  BY <1>1, <1>3 DEF TableType, SlotSet
<1>5. h \in [Files -> Nat]
  BY CountsType DEF CountInv
<1> HIDE DEF f, C
<1>6. One(f) \in [Files -> Nat] /\ \A x \in Files : One(f)[x] <= h[x]
  BY <1>3, <1>5, OneType
<1>7. /\ i \in [Files -> Nat] /\ \A x \in Files : i[x] = h[x] - One(f)[x]
      /\ Agrees(heap', i, Belong(task, lost), fg) /\ (Linked(heap) => Linked(heap'))
  BY <1>1, <1>6, ClosedNow
<1> HIDE DEF h, i
<1>8. \A x \in Files : i[x] + One(f)[x] = h[x] + One(None)[x]
  BY <1>5, <1>6, <1>7, OneType, Names
<1>9. CountInv' /\ (ReaderHolds /\ ReadersKeep(f, None) => ReaderHolds')
  <2>1. None \in Files \union {None} /\ UNCHANGED <<task, fg, lost>>
    BY <1>1
  <2> QED BY <1>2, <1>3, <1>4, <1>7, <1>8, <2>1, SlotStep DEF f, h
<1> QED BY <1>1, <1>7, <1>9 DEF LinkInv, ReadersKeep

\* Two descriptors of one file.
LEMMA TwoSlots ==
  ASSUME NEW fd \in [Fds -> Files \union {None}], NEW d \in Fds, NEW e \in Fds, d # e,
         fd[d] = fd[e], fd[d] \in Files
  PROVE  In(fd, Fds)[fd[d]] >= 2
<1> DEFINE f == fd[d]
           one == SetTo(fd, d, None)
<1>1. one \in [Fds -> Files \union {None}] /\ one[e] = f /\ f \in Files /\ fd[d] = f
  BY DEF SetTo
<1>2. /\ In(one, Fds)[f] \in Nat /\ In(fd, Fds)[f] \in Nat
      /\ In(one, Fds)[f] + One(fd[d])[f] = In(fd, Fds)[f] + One(None)[f]
  <2> HIDE DEF f
  <2> QED BY <1>1, SlotChanged
<1> HIDE DEF one, f
<1>3. In(one, Fds)[f] # 0
  BY <1>1, InType
<1>4. One(fd[d])[f] = 1 /\ One(None)[f] = 0
  BY <1>1, OneType, Names
<1>5. In(fd, Fds)[f] >= 2
  BY <1>2, <1>3, <1>4
<1> QED BY <1>5 DEF f

LEMMA Dup2Step ==
  ASSUME CountInv, NEW t \in Tasks, NEW old \in Fds, NEW new \in Fds, Dup2(t, old, new)
  PROVE  CountInv' /\ (Misuse = {} /\ LinkInv => LinkInv')
<1> DEFINE f == Descriptors(t)[old]
           g == Descriptors(t)[new]
           C == IF old \in table[task[t].files].cloexec
                  THEN table[task[t].files].cloexec \union {new}
                  ELSE table[task[t].files].cloexec \ {new}
           h == Held(task, table)
           k == Belong(task, lost)
           G == Closed(heap, One(g))
           i == Minus(h, One(g))
           j == Plus(i, One(f))
<1>1. /\ Calls(t) /\ f # None /\ Counted /\ UNCHANGED <<task, fg, lost>>
      /\ heap' = Copied(IF g = None THEN heap ELSE G, f)
      /\ table' = [table EXCEPT
           ![task[t].files].fd[new] = f,
           ![task[t].files].cloexec = IF old \in @ THEN @ \union {new} ELSE @ \ {new}]
      /\ "close_under_reader" \in Misuse \/ \A u \in Tasks : g = None \/ task[u].reading # g
      /\ "dup_self" \in Misuse \/ old # new
  BY DEF Dup2, Linux
<1>2. calls' \in 0 .. MaxCalls /\ task[t].status = "alive" /\ task[t].files # None
  BY <1>1, CallsBound, CallerHasTable
<1>3. /\ task[t].files \in Tables /\ table \in [Tables -> TableType]
      /\ C \in SUBSET Fds /\ f \in Files /\ h[f] > 0
      /\ g \in Files \union {None} /\ (g # None => h[g] > 0)
      /\ Descriptors(t) \in [Fds -> Files \union {None}]
      /\ \A x \in Files : In(Descriptors(t), Fds)[x] <= h[x]
  BY <1>1, <1>2, TableOf DEF CountInv, VarsType, TableType
<1>4. table' = SlotSet(task[t].files, new, f, C)
  BY <1>1, <1>3 DEF TableType, SlotSet
<1>5. h \in [Files -> Nat] /\ k \in [Sessions -> Nat] /\ fg \in Ttys /\ Agrees(heap, h, k, fg)
  BY CountsType DEF CountInv, VarsType, HeapCounted
<1>6. Misuse = {} /\ f = g => h[f] >= 2
  <2> SUFFICES ASSUME Misuse = {}, f = g  PROVE h[f] >= 2
    OBVIOUS
  <2>1. old # new
    BY <1>1
  <2>2. In(Descriptors(t), Fds)[f] >= 2
    BY <1>3, <2>1, TwoSlots
  <2>3. In(Descriptors(t), Fds)[f] <= h[f] /\ h[f] \in Nat /\ In(Descriptors(t), Fds)[f] \in Nat
    BY <1>3, <1>5, InType
  <2> HIDE DEF h, f
  <2> QED BY <2>2, <2>3
<1>7. One(f) \in [Files -> Nat] /\ One(g) \in [Files -> Nat] /\ \A x \in Files : One(g)[x] <= h[x]
  <2> HIDE DEF h, g, f
  <2>1. One(f) \in [Files -> Nat] /\ One(g) \in [Files -> Nat]
    BY OneType
  <2>2. \A x \in Files : One(g)[x] = IF x = g THEN 1 ELSE 0
    BY OneType
  <2>3. ASSUME NEW x \in Files  PROVE One(g)[x] <= h[x]
    <3>1. h[x] \in Nat /\ (x = g => h[x] > 0)
      BY <1>3, <1>5, Names
    <3> QED BY <2>2, <3>1
  <2> QED BY <2>1, <2>3
<1>8. heap' = IF g = None THEN Taken(heap, One(f)) ELSE Taken(G, One(f))
  BY <1>1 DEF Copied
<1> HIDE DEF C
<1>9. /\ i \in [Files -> Nat] /\ \A x \in Files : i[x] = h[x] - One(g)[x]
      /\ Agrees(G, i, k, fg) /\ (Linked(heap) => Linked(G))
  BY <1>7, ClosedNow
<1> HIDE DEF f, g, G, h, i
<1>10. j \in [Files -> Nat] /\ \A x \in Files : j[x] = i[x] + One(f)[x]
  BY <1>7, <1>9, PlusType
<1>11. CASE g = None
  <2>1. Agrees(heap', Plus(h, One(f)), k, fg)
        /\ (Linked(heap) /\ (\A x \in Files : One(f)[x] > 0 => h[x] > 0) => Linked(heap'))
    BY <1>5, <1>7, <1>8, <1>11, TakenFacts
  <2>2. \A x \in Files : j[x] = Plus(h, One(f))[x]
    BY <1>5, <1>7, <1>9, <1>10, <1>11, PlusType, OneType, Names
  <2>3. \A x \in Files : One(f)[x] > 0 => h[x] > 0
    BY <1>3, OneType
  <2>4. \A x \in Sessions : k[x] = k[x]
    OBVIOUS
  <2>5. Agrees(heap', j, k, fg)
    BY <2>1, <2>2, <2>4, AgreesSame
  <2>6. \A x \in Files : j[x] + One(g)[x] = h[x] + One(f)[x]
    BY <1>5, <1>7, <1>9, <1>10
  <2>7. CountInv' /\ (ReaderHolds /\ ReadersKeep(g, f) => ReaderHolds')
    BY <1>1, <1>2, <1>3, <1>4, <1>10, <2>5, <2>6, SlotStep, ZenonT(30) DEF g, h
  <2>8. ReaderHolds => ReadersKeep(g, f)
    BY <1>11 DEF ReadersKeep
  <2> QED BY <2>1, <2>3, <2>7, <2>8 DEF LinkInv
<1>12. CASE g # None
  <2>1. Agrees(heap', j, k, fg)
        /\ (Linked(G) /\ (\A x \in Files : One(f)[x] > 0 => i[x] > 0) => Linked(heap'))
    BY <1>5, <1>7, <1>8, <1>9, <1>12, TakenFacts
  <2>2. Misuse = {} => \A x \in Files : One(f)[x] > 0 => i[x] > 0
    BY <1>3, <1>5, <1>6, <1>9, OneType
  <2>3. \A x \in Files : j[x] + One(g)[x] = h[x] + One(f)[x]
    BY <1>5, <1>7, <1>9, <1>10
  <2>4. CountInv' /\ (ReaderHolds /\ ReadersKeep(g, f) => ReaderHolds')
    BY <1>1, <1>2, <1>3, <1>4, <1>10, <2>1, <2>3, SlotStep, ZenonT(30) DEF g, h
  <2>5. Misuse = {} => ReadersKeep(g, f)
    BY <1>1, <1>12 DEF ReadersKeep
  <2> QED BY <1>9, <2>1, <2>2, <2>4, <2>5 DEF LinkInv
<1> QED BY <1>11, <1>12

LEMMA DupFdStep ==
  ASSUME CountInv, NEW t \in Tasks, NEW fd \in Fds, NEW from, NEW cloexec \in BOOLEAN,
         DupFd(t, fd, from, cloexec)
  PROVE  CountInv' /\ (LinkInv => LinkInv')
<1> DEFINE f == Descriptors(t)[fd]
           d == Min(Free(t, from))
           old == table[task[t].files].cloexec
           C == IF cloexec \/ fd \in old THEN old \union {d} ELSE old \ {d}
           h == Held(task, table)
           k == Belong(task, lost)
           j == Plus(h, One(f))
<1>1. /\ Calls(t) /\ f # None /\ Counted /\ UNCHANGED <<task, fg, lost>>
      /\ heap' = Taken(heap, One(f)) /\ Free(t, from) # {}
      /\ table' = [table EXCEPT
           ![task[t].files].fd[d] = f,
           ![task[t].files].cloexec = IF cloexec \/ fd \in @ THEN @ \union {d} ELSE @ \ {d}]
  BY DEF DupFd, Linux, Copied
<1>2. calls' \in 0 .. MaxCalls /\ task[t].status = "alive" /\ task[t].files # None
  BY <1>1, CallsBound, CallerHasTable
<1>3. d \in Fds /\ Descriptors(t)[d] = None
  BY <1>1, FreeSlot
<1>4. /\ task[t].files \in Tables /\ table \in [Tables -> TableType]
      /\ C \in SUBSET Fds /\ f \in Files /\ h[f] > 0
  BY <1>1, <1>2, <1>3, TableOf DEF CountInv, VarsType, TableType
<1>5. table' = SlotSet(task[t].files, d, f, C)
  BY <1>1, <1>4 DEF TableType, SlotSet
<1>6. h \in [Files -> Nat] /\ k \in [Sessions -> Nat] /\ fg \in Ttys /\ Agrees(heap, h, k, fg)
  BY CountsType DEF CountInv, VarsType, HeapCounted
<1> HIDE DEF f, d, C, h
<1>7. One(f) \in [Files -> Nat]
  BY OneType
<1>8. j \in [Files -> Nat] /\ \A x \in Files : j[x] = h[x] + One(f)[x]
  BY <1>6, <1>7, PlusType
<1>9. Agrees(heap', j, k, fg)
      /\ (Linked(heap) /\ (\A x \in Files : One(f)[x] > 0 => h[x] > 0) => Linked(heap'))
  BY <1>1, <1>6, <1>7, TakenFacts
<1>10. \A x \in Files : One(f)[x] > 0 => h[x] > 0
  BY <1>4, OneType
<1>11. \A x \in Files : j[x] + One(Descriptors(t)[d])[x] = h[x] + One(f)[x]
  BY <1>3, <1>6, <1>7, <1>8, OneType, Names
<1>12. CountInv' /\ (ReaderHolds /\ ReadersKeep(Descriptors(t)[d], f) => ReaderHolds')
  BY <1>1, <1>2, <1>3, <1>4, <1>5, <1>8, <1>9, <1>11, SlotStep DEF h
<1>13. ReadersKeep(Descriptors(t)[d], f)
  BY <1>3 DEF ReadersKeep
<1> QED BY <1>9, <1>10, <1>12, <1>13 DEF LinkInv

LEMMA SetFdStep ==
  ASSUME CountInv, NEW t \in Tasks, NEW d \in Fds, NEW cloexec \in BOOLEAN, SetFd(t, d, cloexec)
  PROVE  CountInv' /\ (LinkInv => LinkInv')
<1> DEFINE f == Descriptors(t)[d]
           old == table[task[t].files].cloexec
           C == IF cloexec THEN old \union {d} ELSE old \ {d}
           h == Held(task, table)
<1>1. /\ Calls(t) /\ Counted /\ UNCHANGED <<task, heap, fg, lost>>
      /\ table' = [table EXCEPT
           ![task[t].files].cloexec = IF cloexec THEN @ \union {d} ELSE @ \ {d}]
  BY DEF SetFd, Linux
<1>2. calls' \in 0 .. MaxCalls /\ task[t].status = "alive" /\ task[t].files # None
  BY <1>1, CallsBound, CallerHasTable
<1>3. /\ task[t].files \in Tables /\ table \in [Tables -> TableType]
      /\ C \in SUBSET Fds /\ Descriptors(t) = table[task[t].files].fd /\ f \in Files \union {None}
  BY <1>1, <1>2, TableOf DEF CountInv, VarsType, TableType
<1>4. table' = SlotSet(task[t].files, d, f, C)
  BY <1>1, <1>3, ZenonT(30) DEF TableType, SlotSet
<1>5. h \in [Files -> Nat] /\ Agrees(heap', h, Belong(task, lost), fg)
  BY <1>1, CountsType DEF CountInv, HeapCounted
<1> HIDE DEF f, C
<1>6. \A x \in Files : h[x] + One(f)[x] = h[x] + One(f)[x]
  OBVIOUS
<1>7. CountInv' /\ (ReaderHolds /\ ReadersKeep(f, f) => ReaderHolds')
  BY <1>1, <1>2, <1>3, <1>4, <1>5, <1>6, SlotStep DEF f
<1> QED BY <1>1, <1>7 DEF LinkInv, ReadersKeep

-----------------------------------------------------------------------------
(* Steps that change a task, and with it a table. *)

\* When the task t and the table b change, h is what is held of each file, k are
\* the members of each session, and each table's users are counted.
FilesMove(t, b, h) ==
  \A x \in Files : h[x] + TaskHolds(task[t], x) + TableHolds(table[b], x)
                     = Held(task, table)[x] + TaskHolds(task'[t], x) + TableHolds(table'[b], x)

SessionsMove(t, k) ==
  \A s \in Sessions : k[s] + IsIn(task[t], s) + lost[s]
                        = Belong(task, lost)[s] + IsIn(task'[t], s) + lost'[s]

UsersMove(t) ==
  \A a \in Tables : table'[a].refs + Uses(task[t], a) = table[a].refs + Uses(task'[t], a)

\* What has to be shown of a step that changes the task t and the table b.
LEMMA MovedCounts ==
  ASSUME NEW t \in Tasks, \A u \in Tasks \ {t} : task'[u] = task[u]
  PROVE  /\ \A a : /\ Users(task, a) \in 0 .. NumTasks /\ Users(task', a) \in 0 .. NumTasks
                  /\ Users(task', a) + Uses(task[t], a) = Users(task, a) + Uses(task'[t], a)
         /\ \A s : /\ Members(task, s) \in Nat /\ Members(task', s) \in Nat
                  /\ Members(task', s) + IsIn(task[t], s) = Members(task, s) + IsIn(task'[t], s)
<1> DEFINE new == task'
<1>a. \A u \in Tasks \ {t} : new[u] = task[u]
  OBVIOUS
<1> HIDE DEF new
<1>1. \A a : /\ Users(task, a) \in 0 .. NumTasks /\ Users(new, a) \in 0 .. NumTasks
             /\ Users(new, a) + Uses(task[t], a) = Users(task, a) + Uses(new[t], a)
  <2> TAKE a
  <2> QED BY <1>a, UsersMoved
<1>2. \A s : /\ Members(task, s) \in Nat /\ Members(new, s) \in Nat
             /\ Members(new, s) + IsIn(task[t], s) = Members(task, s) + IsIn(new[t], s)
  <2> TAKE s
  <2> QED BY <1>a, MembersMoved
<1> QED BY <1>1, <1>2 DEF new

LEMMA MovedStep ==
  ASSUME CountInv, NEW t \in Tasks, NEW b \in Tables,
         task' \in [Tasks -> TaskType], \A u \in Tasks \ {t} : task'[u] = task[u],
         table' \in [Tables -> TableType], \A a \in Tables \ {b} : table'[a] = table[a],
         WellFormed(task'[t]),
         fg' \in Ttys, lost' \in [Sessions -> Nat], calls' \in 0 .. MaxCalls,
         NEW h \in [Files -> Nat], NEW k \in [Sessions -> Nat], Agrees(heap', h, k, fg'),
         FilesMove(t, b, h), SessionsMove(t, k), UsersMove(t)
  PROVE  CountInv'
<1>1. VarsType /\ VarsType'
  BY DEF CountInv, VarsType
<1>2. Shape'
  BY DEF CountInv, Shape
<1>3. ASSUME NEW x \in Files
      PROVE  Held(task', table')[x] = h[x]
  <2>1. /\ Held(task, table)[x] \in Nat /\ Held(task', table')[x] \in Nat
        /\ TaskHolds(task[t], x) \in Nat /\ TableHolds(table[b], x) \in Nat
        /\ TaskHolds(task'[t], x) \in Nat /\ TableHolds(table'[b], x) \in Nat
        /\ Held(task', table')[x] + TaskHolds(task[t], x) + TableHolds(table[b], x)
             = Held(task, table)[x] + TaskHolds(task'[t], x) + TableHolds(table'[b], x)
    BY <1>1, HeldMoved
  <2>2. h[x] \in Nat
        /\ h[x] + TaskHolds(task[t], x) + TableHolds(table[b], x)
             = Held(task, table)[x] + TaskHolds(task'[t], x) + TableHolds(table'[b], x)
    BY DEF FilesMove
  <2> QED BY <2>1, <2>2
<1>4. ASSUME NEW s \in Sessions
      PROVE  Belong(task', lost')[s] = k[s]
  <2>1. /\ Members(task, s) \in Nat /\ Members(task', s) \in Nat
        /\ Members(task', s) + IsIn(task[t], s) = Members(task, s) + IsIn(task'[t], s)
    BY MovedCounts
  <2>2. IsIn(task[t], s) \in Nat /\ IsIn(task'[t], s) \in Nat
    BY DEF IsIn
  <2>3. lost[s] \in Nat /\ lost'[s] \in Nat /\ k[s] \in Nat
    BY <1>1 DEF VarsType
  <2>4. Belong(task, lost)[s] = Members(task, s) + lost[s]
        /\ Belong(task', lost')[s] = Members(task', s) + lost'[s]
    BY DEF Belong
  <2>5. k[s] + IsIn(task[t], s) + lost[s] = Belong(task, lost)[s] + IsIn(task'[t], s) + lost'[s]
    BY DEF SessionsMove
  <2> QED BY <2>1, <2>2, <2>3, <2>4, <2>5
<1>5. HeapCounted'
  <2>1. Agrees(heap', Held(task', table'), Belong(task', lost'), fg')
    BY <1>3, <1>4, AgreesSame
  <2> QED BY <2>1 DEF HeapCounted
<1>6. TablesCounted'
  <2>1. ASSUME NEW a \in Tables
        PROVE  table'[a].refs = Users(task', a)
    <3>1. /\ Users(task, a) \in 0 .. NumTasks /\ Users(task', a) \in 0 .. NumTasks
          /\ Users(task', a) + Uses(task[t], a) = Users(task, a) + Uses(task'[t], a)
      BY MovedCounts
    <3>2. Uses(task[t], a) \in Nat /\ Uses(task'[t], a) \in Nat
      BY DEF Uses
    <3>3. table[a].refs = Users(task, a)
      BY DEF CountInv, TablesCounted
    <3>4. table'[a].refs \in Nat
      BY DEF TableType
    <3>5. table'[a].refs + Uses(task[t], a) = table[a].refs + Uses(task'[t], a)
      BY DEF UsersMove
    <3> QED BY <3>1, <3>2, <3>3, <3>4, <3>5, FilesAssumption
  <2> QED BY <2>1 DEF TablesCounted
<1> QED BY <1>1, <1>2, <1>5, <1>6 DEF CountInv

\* The same, of a step that changes nothing but the task t, which becomes r, and
\* the files it holds.
TaskMove(t, r, h) ==
  \A x \in Files : h[x] + TaskHolds(task[t], x) = Held(task, table)[x] + TaskHolds(r, x)

\* Two states of a task in the same session and with the same table.
SameSides(r, q) == \A x : Uses(r, x) = Uses(q, x) /\ IsIn(r, x) = IsIn(q, x)

LEMMA TaskStep ==
  ASSUME CountInv, NEW t \in Tasks, NEW r \in TaskType, WellFormed(r),
         task' = SetTo(task, t, r), UNCHANGED <<table, fg, lost>>, calls' \in 0 .. MaxCalls,
         SameSides(r, task[t]),
         NEW h \in [Files -> Nat], Agrees(heap', h, Belong(task, lost), fg),
         TaskMove(t, r, h)
  PROVE  CountInv'
<1>1. VarsType /\ 1 \in Tables
  BY SomeOfEach DEF CountInv
<1>2. /\ task' \in [Tasks -> TaskType] /\ task'[t] = r
      /\ \A u \in Tasks \ {t} : task'[u] = task[u]
  BY <1>1 DEF VarsType, SetTo
<1>3. /\ table' \in [Tables -> TableType] /\ \A a \in Tables \ {1} : table'[a] = table[a]
      /\ fg' \in Ttys /\ lost' \in [Sessions -> Nat]
  BY <1>1 DEF VarsType
<1>4. Belong(task, lost) \in [Sessions -> Nat] /\ Agrees(heap', h, Belong(task, lost), fg')
  BY <1>1, CountsType
<1>5. FilesMove(t, 1, h)
  <2>1. table'[1] = table[1]
    OBVIOUS
  <2> QED BY <1>2, <2>1 DEF FilesMove, TaskMove
<1>6. SessionsMove(t, Belong(task, lost))
  <2>1. \A s \in Sessions : IsIn(task'[t], s) = IsIn(task[t], s)
    BY <1>2 DEF SameSides
  <2> QED BY <2>1 DEF SessionsMove
<1>7. UsersMove(t)
  <2>1. \A a \in Tables : Uses(task'[t], a) = Uses(task[t], a)
    BY <1>2 DEF SameSides
  <2> QED BY <2>1 DEF UsersMove
<1>8. WellFormed(task'[t])
  BY <1>2
<1> QED BY <1>1, <1>2, <1>3, <1>4, <1>5, <1>6, <1>7, <1>8, MovedStep

\* A task that reads, reads a file of its table.
LEMMA ReaderStep ==
  ASSUME ReaderHolds, task \in [Tasks -> TaskType], NEW t \in Tasks, NEW r \in TaskType,
         task' = SetTo(task, t, r), UNCHANGED table,
         \/ r.reading = None
         \/ r.files = task[t].files /\ r.reading = task[t].reading
         \/ r.files # None /\ \E d \in Fds : table[r.files].fd[d] = r.reading
  PROVE  ReaderHolds'
<1>1. task'[t] = r /\ \A u \in Tasks \ {t} : task'[u] = task[u]
  BY DEF SetTo
<1>2. ASSUME NEW u \in Tasks, task'[u].reading # None
      PROVE  task'[u].files # None /\ \E d \in Fds : table[task'[u].files].fd[d] = task'[u].reading
  <2>1. CASE u = t
    BY <1>1, <1>2, <2>1 DEF ReaderHolds
  <2>2. CASE u # t
    BY <1>1, <1>2, <2>2 DEF ReaderHolds
  <2> QED BY <2>1, <2>2
<1> QED BY <1>2 DEF ReaderHolds

\* What a living task holds.
LEMMA HoldsOfTask ==
  ASSUME CountInv, NEW t \in Tasks, task[t].status = "alive"
  PROVE  /\ task[t] \in TaskType
         /\ \A x \in Files :
              /\ One(task[t].cwd)[x] \in Nat /\ One(task[t].exe)[x] \in Nat
              /\ In(task[t].polled, Fds)[x] \in Nat /\ Held(task, table)[x] \in Nat
              /\ TaskHolds(task[t], x)
                   = One(task[t].cwd)[x] + One(task[t].exe)[x] + In(task[t].polled, Fds)[x]
              /\ TaskHolds(task[t], x) <= Held(task, table)[x]
<1>1. /\ VarsType /\ task \in [Tasks -> TaskType] /\ \A u \in Tasks \ {t} : task[u] = task[u]
  BY DEF CountInv, VarsType
<1>2. \A x \in Files : Held(task, table)[x] \in Nat /\ TaskHolds(task[t], x) <= Held(task, table)[x]
  BY <1>1, HeldByTask
<1>3. \A x \in Files : One(task[t].cwd)[x] \in Nat /\ One(task[t].exe)[x] \in Nat
                       /\ In(task[t].polled, Fds)[x] \in Nat
  BY OneType, InType
<1> QED BY <1>1, <1>2, <1>3 DEF TaskHolds

\* A file is opened, and files are closed.
Balanced(i, c, h, d) == \A x \in Files : i[x] + c[x] = h[x] + d[x]

Within(c, d) == \A x \in Files : c[x] <= d[x]

LEMMA OpenedClosed ==
  ASSUME CountInv, NEW t \in Tasks, FreeFiles(heap) # {}, NEW f, f = Min(FreeFiles(heap)),
         NEW kind \in FileKinds \ {"none"}, NEW noctty \in BOOLEAN, NEW c \in [Files -> Nat],
         Within(c, Plus(Held(task, table), One(f))),
         NEW G, G = Closed(Opened(heap, t, f, kind, 1, noctty), c), NEW i,
         i = Minus(Plus(Held(task, table), One(f)), c)
  PROVE  /\ f \in Files
         /\ i \in [Files -> Nat]
         /\ Balanced(i, c, Held(task, table), One(f))
         /\ Agrees(G, i, Belong(task, lost), fg)
         /\ Linked(heap) => Linked(G)
<1> DEFINE h == Held(task, table)
           k == Belong(task, lost)
           j == SetTo(h, f, 1)
           H == Opened(heap, t, f, kind, 1, noctty)
<1>1. f \in FreeFiles(heap) /\ 1 \in Nat \ {0}
  BY FreeFile
<1>2. h \in [Files -> Nat] /\ k \in [Sessions -> Nat] /\ fg \in Ttys /\ One(f) \in [Files -> Nat]
  BY CountsType, OneType DEF CountInv, VarsType
<1>3. /\ f \in Files /\ j \in [Files -> Nat]
      /\ \A x \in Files : j[x] = h[x] + (IF x = f THEN 1 ELSE 0)
      /\ Agrees(H, j, k, fg) /\ (Linked(heap) => Linked(H))
  BY <1>1, OpenedNow
<1>4. G = Closed(H, c) /\ i = Minus(Plus(h, One(f)), c) /\ Within(c, Plus(h, One(f)))
  OBVIOUS
<1> HIDE DEF H, j
<1>5. \A x \in Files : j[x] = h[x] + One(f)[x]
  BY <1>3, OneType
<1> HIDE DEF h, k
<1>6. Plus(h, One(f)) = j
  BY <1>2, <1>3, <1>5, PlusType
<1>7. \A x \in Files : c[x] <= j[x]
  BY <1>4, <1>6 DEF Within
<1>8. Agrees(G, i, k, fg) /\ (Linked(H) => Linked(G))
  BY <1>2, <1>3, <1>4, <1>6, <1>7, ClosedFacts
<1>9. i \in [Files -> Nat] /\ \A x \in Files : i[x] = j[x] - c[x]
  BY <1>3, <1>4, <1>6, <1>7 DEF Minus
<1>10. ASSUME NEW x \in Files  PROVE i[x] + c[x] = h[x] + One(f)[x]
  <2>1. i[x] = j[x] - c[x]
    BY <1>9
  <2>2. j[x] = h[x] + One(f)[x]
    BY <1>5
  <2>3. h[x] \in Nat /\ One(f)[x] \in Nat /\ c[x] \in Nat
    BY <1>2
  <2> QED BY <2>1, <2>2, <2>3
<1> QED BY <1>3, <1>8, <1>9, <1>10 DEF h, k, Balanced

LEMMA ChdirStep ==
  ASSUME CountInv, NEW t \in Tasks, Chdir(t)
  PROVE  CountInv' /\ (LinkInv => LinkInv')
<1> DEFINE f == Min(FreeFiles(heap))
           c == One(task[t].cwd)
           i == Minus(Plus(Held(task, table), One(f)), c)
           r == [task[t] EXCEPT !.cwd = f]
<1>1. /\ Calls(t) /\ FreeFiles(heap) # {} /\ Counted /\ UNCHANGED <<table, fg, lost>>
      /\ heap' = Closed(Opened(heap, t, f, "other", 1, TRUE), c)
      /\ task' = [task EXCEPT ![t].cwd = f]
  BY DEF Chdir, Linux
<1>2. calls' \in 0 .. MaxCalls /\ task[t].status = "alive" /\ task[t].files # None /\ task[t].mm
  BY <1>1, CallsBound, CallerHasTable
<1>3. task \in [Tasks -> TaskType] /\ WellFormed(task[t])
  BY DEF CountInv, VarsType, Shape
<1>4. "other" \in FileKinds \ {"none"} /\ TRUE \in BOOLEAN /\ c \in [Files -> Nat]
  BY OneType DEF FileKinds
<1> HIDE DEF f
<1>5. Within(c, Plus(Held(task, table), One(f)))
  <2>1. One(f) \in [Files -> Nat] /\ Held(task, table) \in [Files -> Nat]
    BY OneType, CountsType DEF CountInv
  <2>2. ASSUME NEW x \in Files  PROVE c[x] <= Plus(Held(task, table), One(f))[x]
    <3>1. c[x] <= Held(task, table)[x] /\ c[x] \in Nat /\ One(f)[x] \in Nat
      BY <1>2, <2>1, HoldsOfTask
    <3> QED BY <2>1, <3>1, PlusType
  <2> QED BY <2>2 DEF Within
<1> HIDE DEF c, i, r
<1>6. /\ f \in Files /\ i \in [Files -> Nat]
      /\ Balanced(i, c, Held(task, table), One(f))
      /\ Agrees(heap', i, Belong(task, lost), fg) /\ (Linked(heap) => Linked(heap'))
  <2>1. FreeFiles(heap) # {} /\ f = Min(FreeFiles(heap))
    BY <1>1 DEF f
  <2>2. heap' = Closed(Opened(heap, t, f, "other", 1, TRUE), c)
    BY <1>1
  <2>3. i = Minus(Plus(Held(task, table), One(f)), c)
    BY DEF i
  <2> QED BY <1>4, <1>5, <2>1, <2>2, <2>3, OpenedClosed
<1>7. /\ r \in TaskType /\ r.status = task[t].status /\ r.files = task[t].files
      /\ r.session = task[t].session /\ r.reading = task[t].reading /\ WellFormed(r)
      /\ r.cwd = f /\ r.exe = task[t].exe /\ r.polled = task[t].polled
      /\ task' = SetTo(task, t, r)
  BY <1>1, <1>2, <1>3, <1>6 DEF TaskType, WellFormed, SetTo, r
<1>11. SameSides(r, task[t])
  BY <1>7 DEF SameSides, Uses, IsIn
<1>8. TaskMove(t, r, i)
  <2> SUFFICES ASSUME NEW x \in Files
               PROVE  i[x] + TaskHolds(task[t], x) = Held(task, table)[x] + TaskHolds(r, x)
    BY DEF TaskMove
  <2>1. TaskHolds(r, x) = One(f)[x] + One(task[t].exe)[x] + In(task[t].polled, Fds)[x]
    BY <1>2, <1>7 DEF TaskHolds
  <2>2. /\ c[x] \in Nat /\ One(task[t].exe)[x] \in Nat /\ In(task[t].polled, Fds)[x] \in Nat
        /\ Held(task, table)[x] \in Nat
        /\ TaskHolds(task[t], x) = c[x] + One(task[t].exe)[x] + In(task[t].polled, Fds)[x]
    BY <1>2, HoldsOfTask DEF c
  <2>3. One(f)[x] \in Nat /\ i[x] \in Nat
    BY <1>6, OneType
  <2>4. i[x] + c[x] = Held(task, table)[x] + One(f)[x]
    BY <1>6 DEF Balanced
  <2> QED BY <2>1, <2>2, <2>3, <2>4
<1>9. CountInv'
  BY <1>1, <1>2, <1>6, <1>7, <1>8, <1>11, TaskStep
<1>10. ReaderHolds => ReaderHolds'
  BY <1>1, <1>3, <1>7, ReaderStep
<1> QED BY <1>6, <1>9, <1>10 DEF LinkInv

\* A step of one task that changes no count.
LEMMA QuietStep ==
  ASSUME CountInv, NEW t \in Tasks, NEW r \in TaskType, WellFormed(r),
         task' = SetTo(task, t, r), UNCHANGED <<table, heap, fg, lost>>,
         calls' \in 0 .. MaxCalls, SameSides(r, task[t]),
         \A x \in Files : TaskHolds(r, x) = TaskHolds(task[t], x)
  PROVE  CountInv'
<1>1. Held(task, table) \in [Files -> Nat] /\ Agrees(heap', Held(task, table), Belong(task, lost), fg)
  BY CountsType DEF CountInv, HeapCounted
<1>2. TaskMove(t, r, Held(task, table))
  BY DEF TaskMove
<1> QED BY <1>1, <1>2, TaskStep

LEMMA ReadSleepsStep ==
  ASSUME CountInv, NEW t \in Tasks, NEW d \in Fds, ReadSleeps(t, d)
  PROVE  CountInv' /\ (LinkInv => LinkInv')
<1> DEFINE f == Descriptors(t)[d]
           r == [task[t] EXCEPT !.reading = f]
<1>1. /\ Calls(t) /\ f # None /\ Counted /\ UNCHANGED <<table, heap, fg, lost>>
      /\ task' = [task EXCEPT ![t].reading = f]
  BY DEF ReadSleeps
<1>2. calls' \in 0 .. MaxCalls /\ task[t].status = "alive" /\ task[t].files # None
  BY <1>1, CallsBound, CallerHasTable
<1>3. task \in [Tasks -> TaskType] /\ WellFormed(task[t])
  BY DEF CountInv, VarsType, Shape
<1>4. f \in Files /\ table[task[t].files].fd[d] = f
  BY <1>1, <1>2, TableOf
<1> HIDE DEF f
<1>5. r \in TaskType /\ WellFormed(r) /\ task' = SetTo(task, t, r)
      /\ r.files = task[t].files /\ r.reading = f
  <2>1. r \in TaskType
    BY <1>3, <1>4 DEF TaskType
  <2>2. /\ r.status = task[t].status /\ r.mm = task[t].mm /\ r.execing = task[t].execing
        /\ r.ece391 = task[t].ece391 /\ r.files = task[t].files /\ r.cwd = task[t].cwd
        /\ r.exe = task[t].exe /\ r.session = task[t].session /\ r.pgid = task[t].pgid
        /\ r.reading = f /\ r.polled = task[t].polled
    BY <1>3 DEF TaskType
  <2>3. task' = SetTo(task, t, r)
    BY <1>1, <1>3 DEF SetTo
  <2> HIDE DEF r
  <2>4. WellFormed(r)
    BY <1>2, <1>3, <2>2 DEF WellFormed
  <2> QED BY <2>1, <2>2, <2>3, <2>4
<1>6. SameSides(r, task[t]) /\ \A x \in Files : TaskHolds(r, x) = TaskHolds(task[t], x)
  BY <1>3 DEF SameSides, Uses, IsIn, TaskHolds, TaskType
<1> HIDE DEF r
<1>7. CountInv'
  BY <1>1, <1>2, <1>5, <1>6, QuietStep
<1>8. ReaderHolds => ReaderHolds'
  BY <1>1, <1>2, <1>3, <1>4, <1>5, ReaderStep
<1> QED BY <1>1, <1>7, <1>8 DEF LinkInv

LEMMA ReadReturnsStep ==
  ASSUME CountInv, NEW t \in Tasks, ReadReturns(t)
  PROVE  CountInv' /\ (LinkInv => LinkInv')
<1> DEFINE r == [task[t] EXCEPT !.reading = None]
<1>1. /\ UNCHANGED <<calls, table, heap, fg, lost>>
      /\ task' = [task EXCEPT ![t].reading = None]
      /\ task[t].reading # None
  BY DEF ReadReturns
<1>2. calls' \in 0 .. MaxCalls
  BY <1>1 DEF CountInv, VarsType
<1>3. task \in [Tasks -> TaskType] /\ WellFormed(task[t]) /\ task[t].status = "alive"
  BY <1>1 DEF CountInv, VarsType, Shape, WellFormed
<1>4. r \in TaskType /\ WellFormed(r) /\ task' = SetTo(task, t, r) /\ r.reading = None
  BY <1>1, <1>3 DEF TaskType, WellFormed, SetTo
<1>5. SameSides(r, task[t]) /\ \A x \in Files : TaskHolds(r, x) = TaskHolds(task[t], x)
  BY <1>3 DEF SameSides, Uses, IsIn, TaskHolds, TaskType
<1> HIDE DEF r
<1>6. CountInv'
  BY <1>1, <1>2, <1>4, <1>5, QuietStep
<1>7. ReaderHolds => ReaderHolds'
  BY <1>1, <1>3, <1>4, ReaderStep
<1> QED BY <1>1, <1>6, <1>7 DEF LinkInv

LEMMA SetpgidStep ==
  ASSUME CountInv, NEW t \in Tasks, NEW u \in Tasks, NEW g \in Tasks, Setpgid(t, u, g)
  PROVE  CountInv' /\ (LinkInv => LinkInv')
<1> DEFINE r == [task[u] EXCEPT !.pgid = g]
<1>1. /\ UNCHANGED <<table, heap, fg, lost>> /\ Counted
      /\ task' = [task EXCEPT ![u].pgid = g]
      /\ task[u].status = "alive"
  BY DEF Setpgid
<1>2. calls' \in 0 .. MaxCalls
  BY <1>1, CallsBound
<1>3. task \in [Tasks -> TaskType] /\ WellFormed(task[u]) /\ g \in 0 .. NumTasks
  BY FilesAssumption DEF CountInv, VarsType, Shape, Tasks
<1>4. r \in TaskType /\ WellFormed(r) /\ task' = SetTo(task, u, r)
      /\ r.reading = task[u].reading /\ r.files = task[u].files
  BY <1>1, <1>3 DEF TaskType, WellFormed, SetTo
<1>5. SameSides(r, task[u]) /\ \A x \in Files : TaskHolds(r, x) = TaskHolds(task[u], x)
  BY <1>3 DEF SameSides, Uses, IsIn, TaskHolds, TaskType
<1> HIDE DEF r
<1>6. CountInv'
  BY <1>1, <1>2, <1>4, <1>5, QuietStep
<1>7. ReaderHolds => ReaderHolds'
  BY <1>1, <1>3, <1>4, ReaderStep
<1> QED BY <1>1, <1>6, <1>7 DEF LinkInv

LEMMA ReapStep ==
  ASSUME CountInv, NEW t \in Tasks, Reap(t)
  PROVE  CountInv' /\ (LinkInv => LinkInv')
<1> DEFINE r == [NoTask EXCEPT !.status = "gone"]
<1>1. /\ UNCHANGED <<table, heap, fg, lost, calls>>
      /\ task' = [task EXCEPT ![t] = r]
      /\ task[t].status = "zombie"
  BY DEF Reap
<1>2. calls' \in 0 .. MaxCalls /\ task \in [Tasks -> TaskType]
  BY <1>1 DEF CountInv, VarsType
<1>3. 0 \in 0 .. NumTasks
  BY FilesAssumption
<1>4. r \in TaskType /\ WellFormed(r) /\ task' = SetTo(task, t, r) /\ r.reading = None
      /\ r.status = "gone"
  BY <1>1, <1>3 DEF TaskType, WellFormed, SetTo, NoTask
<1> HIDE DEF r
<1>5. SameSides(r, task[t]) /\ \A x \in Files : TaskHolds(r, x) = TaskHolds(task[t], x)
  BY <1>1, <1>4 DEF SameSides, Uses, IsIn, TaskHolds
<1>6. CountInv'
  BY <1>1, <1>2, <1>4, <1>5, QuietStep
<1>7. ReaderHolds => ReaderHolds'
  BY <1>1, <1>2, <1>4, ReaderStep
<1> QED BY <1>1, <1>6, <1>7 DEF LinkInv

LEMMA PollSleepsStep ==
  ASSUME CountInv, NEW t \in Tasks, PollSleeps(t)
  PROVE  CountInv' /\ (LinkInv => LinkInv')
<1> DEFINE D == Descriptors(t)
           c == In(D, Fds)
           h == Held(task, table)
           i == Plus(h, c)
           r == [task[t] EXCEPT !.polled = D]
<1>1. /\ Calls(t) /\ Counted /\ UNCHANGED <<table, fg, lost>>
      /\ heap' = Taken(heap, c)
      /\ task' = [task EXCEPT ![t].polled = D]
  BY DEF PollSleeps, Linux
<1>2. /\ calls' \in 0 .. MaxCalls /\ task[t].status = "alive" /\ task[t].files # None
      /\ \A d \in Fds : task[t].polled[d] = None
  BY <1>1, CallsBound, CallerHasTable
<1>3. task \in [Tasks -> TaskType] /\ WellFormed(task[t])
  BY DEF CountInv, VarsType, Shape
<1>4. D \in [Fds -> Files \union {None}] /\ \A x \in Files : c[x] <= h[x]
  BY <1>2, TableOf
<1> HIDE DEF D, h
<1>5. /\ h \in [Files -> Nat] /\ Belong(task, lost) \in [Sessions -> Nat] /\ fg \in Ttys
      /\ Agrees(heap, h, Belong(task, lost), fg)
  BY CountsType DEF CountInv, VarsType, HeapCounted, h
<1>6. c \in [Files -> Nat]
  BY InType
<1> HIDE DEF c, i
<1>7. /\ Agrees(heap', i, Belong(task, lost), fg)
      /\ Linked(heap) /\ (\A x \in Files : c[x] > 0 => h[x] > 0) => Linked(heap')
  BY <1>1, <1>5, <1>6, TakenFacts DEF i
<1>8. \A x \in Files : c[x] > 0 => h[x] > 0
  BY <1>4, <1>5, <1>6
<1>9. i \in [Files -> Nat] /\ \A x \in Files : i[x] = h[x] + c[x]
  BY <1>5, <1>6, PlusType DEF i
<1>10. /\ r \in TaskType /\ WellFormed(r) /\ task' = SetTo(task, t, r)
       /\ r.status = task[t].status /\ r.files = task[t].files /\ r.session = task[t].session
       /\ r.reading = task[t].reading /\ r.polled = D
       /\ r.cwd = task[t].cwd /\ r.exe = task[t].exe
  BY <1>1, <1>2, <1>3, <1>4, ZenonT(30) DEF TaskType, WellFormed, SetTo
<1> HIDE DEF r
<1>11. SameSides(r, task[t])
  BY <1>10 DEF SameSides, Uses, IsIn
<1>12. TaskMove(t, r, i)
  <2> SUFFICES ASSUME NEW x \in Files  PROVE i[x] + TaskHolds(task[t], x) = h[x] + TaskHolds(r, x)
    BY DEF TaskMove, h
  <2>1. TaskHolds(r, x) = One(task[t].cwd)[x] + One(task[t].exe)[x] + c[x]
    BY <1>2, <1>10 DEF TaskHolds, c
  <2>2. /\ One(task[t].cwd)[x] \in Nat /\ One(task[t].exe)[x] \in Nat
        /\ TaskHolds(task[t], x) = One(task[t].cwd)[x] + One(task[t].exe)[x] + In(task[t].polled, Fds)[x]
    BY <1>2, HoldsOfTask
  <2>3. In(task[t].polled, Fds)[x] = 0
    BY <1>2, InType, Names
  <2>4. i[x] = h[x] + c[x] /\ h[x] \in Nat /\ c[x] \in Nat
    BY <1>5, <1>6, <1>9
  <2> QED BY <2>1, <2>2, <2>3, <2>4
<1>13. CountInv'
  BY <1>1, <1>2, <1>7, <1>9, <1>10, <1>11, <1>12, TaskStep
<1>14. ReaderHolds => ReaderHolds'
  BY <1>1, <1>3, <1>10, ReaderStep
<1> QED BY <1>7, <1>8, <1>13, <1>14 DEF LinkInv

LEMMA PollReturnsStep ==
  ASSUME CountInv, NEW t \in Tasks, PollReturns(t)
  PROVE  CountInv' /\ (LinkInv => LinkInv')
<1> DEFINE c == In(task[t].polled, Fds)
           h == Held(task, table)
           i == Minus(h, c)
           none == [d \in Fds |-> None]
           r == [task[t] EXCEPT !.polled = none]
<1>1. /\ UNCHANGED <<calls, table, fg, lost>>
      /\ heap' = Closed(heap, c)
      /\ task' = [task EXCEPT ![t].polled = none]
      /\ task[t].polled # none
  BY DEF PollReturns
<1>2. /\ calls' \in 0 .. MaxCalls /\ task[t].status = "alive"
      /\ task \in [Tasks -> TaskType] /\ WellFormed(task[t])
  BY <1>1 DEF CountInv, VarsType, Shape, WellFormed
<1>3. c \in [Files -> Nat] /\ h \in [Files -> Nat] /\ \A x \in Files : In(none, Fds)[x] = 0
  BY InType, CountsType, Names DEF CountInv
<1>4. none \in [Fds -> Files \union {None}]
  OBVIOUS
<1> HIDE DEF h, none
<1>5. \A x \in Files : c[x] <= h[x]
  <2> TAKE x \in Files
  <2>1. /\ One(task[t].cwd)[x] \in Nat /\ One(task[t].exe)[x] \in Nat /\ c[x] \in Nat
        /\ TaskHolds(task[t], x) = One(task[t].cwd)[x] + One(task[t].exe)[x] + c[x]
        /\ TaskHolds(task[t], x) <= h[x] /\ h[x] \in Nat
    BY <1>2, HoldsOfTask DEF h
  <2> QED BY <2>1
<1> HIDE DEF c, i
<1>6. /\ i \in [Files -> Nat] /\ \A x \in Files : i[x] = h[x] - c[x]
      /\ Agrees(heap', i, Belong(task, lost), fg)
      /\ Linked(heap) => Linked(heap')
  BY <1>1, <1>3, <1>5, ClosedNow DEF h, i
<1>7. /\ r \in TaskType /\ WellFormed(r) /\ task' = SetTo(task, t, r)
      /\ r.status = task[t].status /\ r.files = task[t].files /\ r.session = task[t].session
      /\ r.reading = task[t].reading /\ r.polled = none
      /\ r.cwd = task[t].cwd /\ r.exe = task[t].exe
  BY <1>1, <1>2, <1>4 DEF TaskType, WellFormed, SetTo
<1> HIDE DEF r
<1>8. SameSides(r, task[t])
  BY <1>7 DEF SameSides, Uses, IsIn
<1>9. TaskMove(t, r, i)
  <2> SUFFICES ASSUME NEW x \in Files  PROVE i[x] + TaskHolds(task[t], x) = h[x] + TaskHolds(r, x)
    BY DEF TaskMove, h
  <2>1. TaskHolds(r, x) = One(task[t].cwd)[x] + One(task[t].exe)[x] + In(none, Fds)[x]
    BY <1>2, <1>7 DEF TaskHolds
  <2>2. /\ One(task[t].cwd)[x] \in Nat /\ One(task[t].exe)[x] \in Nat
        /\ TaskHolds(task[t], x) = One(task[t].cwd)[x] + One(task[t].exe)[x] + c[x]
    BY <1>2, HoldsOfTask DEF c
  <2>3. In(none, Fds)[x] = 0
    BY <1>3
  <2>4. i[x] = h[x] - c[x] /\ h[x] \in Nat /\ c[x] \in Nat
    BY <1>3, <1>6
  <2> QED BY <2>1, <2>2, <2>3, <2>4
<1>10. CountInv'
  BY <1>1, <1>2, <1>6, <1>7, <1>8, <1>9, TaskStep
<1>11. ReaderHolds => ReaderHolds'
  BY <1>1, <1>2, <1>7, ReaderStep
<1> QED BY <1>6, <1>10, <1>11 DEF LinkInv

\* A step of the heap alone.
LEMMA HeapStep ==
  ASSUME CountInv, UNCHANGED <<task, table, lost>>, fg' \in Ttys, calls' \in 0 .. MaxCalls,
         Agrees(heap', Held(task, table), Belong(task, lost), fg')
  PROVE  CountInv' /\ (ReaderHolds => ReaderHolds')
<1>1. VarsType' /\ Shape' /\ TablesCounted' /\ (ReaderHolds => ReaderHolds')
  BY DEF CountInv, VarsType, Shape, TablesCounted, ReaderHolds
<1>2. HeapCounted'
  BY DEF HeapCounted
<1> QED BY <1>1, <1>2 DEF CountInv

LEMMA BindStep ==
  ASSUME CountInv, NEW t \in Tasks, NEW d \in Fds, NEW p \in Ports \union {0}, Bind(t, d, p)
  PROVE  CountInv' /\ (Misuse = {} /\ LinkInv => LinkInv')
<1> DEFINE f == Descriptors(t)[d]
           own == heap.file[f].port
           h == Held(task, table)
           k == Belong(task, lost)
<1>1. /\ Calls(t) /\ f # None /\ Counted /\ UNCHANGED <<task, table, fg, lost>>
      /\ p # 0 => "bind_taken" \in Misuse \/ heap.port[p] \in {None, f}
  <2>1. Linux(t) /\ f # None /\ Counted
    BY Zenon DEF Bind
  <2>3. UNCHANGED <<task, table, fg, lost>>
    BY Zenon DEF Bind
  <2>2. p # 0 => "bind_taken" \in Misuse \/ heap.port[p] \in {None, f}
    BY Zenon DEF Bind
  <2> HIDE DEF f
  <2> QED BY <2>1, <2>2, <2>3 DEF Linux
<1>2. PICK q \in IF p # 0 THEN {p} ELSE IF own # 0 THEN {own} ELSE FreePorts(heap) :
        heap' = [heap EXCEPT
          !.file[f].port = q,
          !.port = [r \in Ports |-> IF r = q THEN f ELSE IF r = own THEN None ELSE heap.port[r]]]
  BY Zenon DEF Bind
<1>3. calls' \in 0 .. MaxCalls /\ task[t].status = "alive" /\ task[t].files # None
  BY <1>1, CallsBound, CallerHasTable
<1>4. f \in Files /\ h[f] > 0
  BY <1>1, <1>3, TableOf
<1>5. h \in [Files -> Nat] /\ k \in [Sessions -> Nat] /\ fg \in Ttys /\ Agrees(heap, h, k, fg)
  BY CountsType DEF CountInv, VarsType, HeapCounted
<1>6. q \in Ports
  BY <1>2, <1>4, <1>5 DEF FreePorts, Agrees, HeapType, FileType
<1>7. Misuse = {} /\ Linked(heap) => heap.port[q] \in {None, f}
  BY <1>1, <1>2, <1>4, <1>6 DEF FreePorts, Linked
<1> HIDE DEF f, h, k
<1>8. /\ Agrees(heap', h, k, fg)
      /\ Linked(heap) /\ heap.port[q] \in {None, f} => Linked(heap')
  <2>1. heap' = BoundTo(heap, f, q, own)
    BY <1>2 DEF BoundTo
  <2>2. own = heap.file[f].port
    OBVIOUS
  <2> HIDE DEF own
  <2> QED BY <1>4, <1>5, <1>6, <2>1, <2>2, BoundFacts
<1>9. CountInv' /\ (ReaderHolds => ReaderHolds')
  BY <1>1, <1>3, <1>5, <1>8, HeapStep DEF h, k
<1> QED BY <1>7, <1>8, <1>9 DEF LinkInv

LEMMA TtyOpensOnceStep ==
  ASSUME CountInv, NEW t \in Tasks, NEW y \in Ttys, TtyOpensOnce(t, y)
  PROVE  CountInv' /\ (LinkInv => LinkInv')
<1> DEFINE f == Min(FreeFiles(heap))
           h == Held(task, table)
           k == Belong(task, lost)
           i == Minus(Plus(h, One(f)), One(f))
<1>1. /\ FreeFiles(heap) # {} /\ UNCHANGED <<task, table, fg, lost, calls>>
      /\ heap' = Closed(Opened(heap, t, f, y, 1, FALSE), One(f))
  BY DEF TtyOpensOnce
<1>2. calls' \in 0 .. MaxCalls /\ fg \in Ttys
  BY <1>1 DEF CountInv, VarsType
<1>3. h \in [Files -> Nat] /\ One(f) \in [Files -> Nat]
  BY CountsType, OneType DEF CountInv
<1>4. y \in FileKinds \ {"none"} /\ FALSE \in BOOLEAN
  BY Names DEF FileKinds
<1> HIDE DEF f, h
<1>5. Within(One(f), Plus(h, One(f)))
  BY <1>3, PlusType DEF Within
<1> HIDE DEF i
<1>6. /\ f \in Files /\ i \in [Files -> Nat] /\ Balanced(i, One(f), h, One(f))
      /\ Agrees(heap', i, k, fg) /\ (Linked(heap) => Linked(heap'))
  <2>1. FreeFiles(heap) # {} /\ f = Min(FreeFiles(heap))
    BY <1>1 DEF f
  <2>2. heap' = Closed(Opened(heap, t, f, y, 1, FALSE), One(f))
    BY <1>1
  <2>3. i = Minus(Plus(h, One(f)), One(f))
    BY DEF i
  <2> QED BY <1>3, <1>4, <1>5, <2>1, <2>2, <2>3, OpenedClosed DEF h
<1>7. \A x \in Files : h[x] = i[x]
  <2> TAKE x \in Files
  <2>1. i[x] + One(f)[x] = h[x] + One(f)[x] /\ i[x] \in Nat /\ h[x] \in Nat /\ One(f)[x] \in Nat
    BY <1>3, <1>6 DEF Balanced
  <2> QED BY <2>1
<1>8. Agrees(heap', h, k, fg)
  <2>1. \A s \in Sessions : k[s] = k[s]
    OBVIOUS
  <2> QED BY <1>6, <1>7, <2>1, AgreesSame
<1>9. CountInv' /\ (ReaderHolds => ReaderHolds')
  BY <1>1, <1>2, <1>8, HeapStep DEF h
<1> QED BY <1>6, <1>9 DEF LinkInv

LEMMA SwitchForegroundStep ==
  ASSUME CountInv, NEW y \in Ttys, SwitchForeground(y)
  PROVE  CountInv' /\ (LinkInv => LinkInv')
<1> DEFINE h == Held(task, table)
           k == Belong(task, lost)
<1>1. /\ y # fg /\ fg' = y /\ heap' = SwitchedTo(heap, y, fg)
      /\ Counted /\ UNCHANGED <<task, table, lost>>
  BY DEF SwitchForeground, SwitchedTo
<1>2. calls' \in 0 .. MaxCalls
  BY <1>1, CallsBound
<1>3. h \in [Files -> Nat] /\ k \in [Sessions -> Nat] /\ fg \in Ttys /\ Agrees(heap, h, k, fg)
  BY CountsType DEF CountInv, VarsType, HeapCounted
<1> HIDE DEF h, k
<1>4. Agrees(heap', h, k, y) /\ (Linked(heap) => Linked(heap'))
  BY <1>1, <1>3, SwitchedFacts
<1>5. CountInv' /\ (ReaderHolds => ReaderHolds')
  BY <1>1, <1>2, <1>4, HeapStep DEF h, k
<1> QED BY <1>4, <1>5 DEF LinkInv

-----------------------------------------------------------------------------
(* Tasks that come and go. *)

\* Of readers, when tables change that no reader uses.
LEMMA ReadersElsewhere ==
  ASSUME ReaderHolds, NEW t \in Tasks, \A u \in Tasks \ {t} : task'[u] = task[u],
         task'[t].reading = None,
         \A u \in Tasks, d \in Fds : task[u].reading # None =>
           \/ table'[task[u].files].fd[d] = table[task[u].files].fd[d]
           \/ table[task[u].files].fd[d] # task[u].reading
  PROVE  ReaderHolds'
<1>1. ASSUME NEW u \in Tasks, task'[u].reading # None
      PROVE  task'[u].files # None /\ \E d \in Fds : table'[task'[u].files].fd[d] = task'[u].reading
  <2>1. u # t /\ task'[u] = task[u] /\ task[u].reading # None
    BY <1>1
  <2>2. PICK d \in Fds : task[u].files # None /\ table[task[u].files].fd[d] = task[u].reading
    BY <2>1 DEF ReaderHolds
  <2>3. table'[task[u].files].fd[d] = table[task[u].files].fd[d]
    BY <2>1, <2>2
  <2> QED BY <2>1, <2>2, <2>3
<1> QED BY <1>1 DEF ReaderHolds

\* The files that a task and its table hold are held.
LEMMA ParentHolds ==
  ASSUME CountInv, NEW t \in Tasks, task[t].status = "alive", NEW slots \in [Files -> Nat],
         \A x \in Files : slots[x] > 0 => Held(task, table)[x] > 0,
         NEW c, c = Plus(slots, Plus(One(task[t].cwd), One(task[t].exe)))
  PROVE  /\ c \in [Files -> Nat]
         /\ \A x \in Files : c[x] = slots[x] + One(task[t].cwd)[x] + One(task[t].exe)[x]
         /\ \A x \in Files : c[x] > 0 => Held(task, table)[x] > 0
<1> DEFINE d == Plus(One(task[t].cwd), One(task[t].exe))
<1>1. One(task[t].cwd) \in [Files -> Nat] /\ One(task[t].exe) \in [Files -> Nat]
  BY OneType
<1>2. d \in [Files -> Nat] /\ \A x \in Files : d[x] = One(task[t].cwd)[x] + One(task[t].exe)[x]
  BY <1>1, PlusType
<1> HIDE DEF d
<1>3. c \in [Files -> Nat] /\ \A x \in Files : c[x] = slots[x] + d[x]
  <2>1. c = Plus(slots, d)
    BY DEF d
  <2> QED BY <1>2, <2>1, PlusType
<1>4. ASSUME NEW x \in Files
      PROVE  /\ c[x] = slots[x] + One(task[t].cwd)[x] + One(task[t].exe)[x]
             /\ c[x] > 0 => Held(task, table)[x] > 0
  <2>1. /\ One(task[t].cwd)[x] \in Nat /\ One(task[t].exe)[x] \in Nat
        /\ In(task[t].polled, Fds)[x] \in Nat /\ Held(task, table)[x] \in Nat
        /\ TaskHolds(task[t], x)
             = One(task[t].cwd)[x] + One(task[t].exe)[x] + In(task[t].polled, Fds)[x]
        /\ TaskHolds(task[t], x) <= Held(task, table)[x]
    BY HoldsOfTask
  <2>2. c[x] = slots[x] + d[x] /\ d[x] = One(task[t].cwd)[x] + One(task[t].exe)[x]
    BY <1>2, <1>3
  <2>3. slots[x] \in Nat /\ (slots[x] > 0 => Held(task, table)[x] > 0)
    OBVIOUS
  <2> QED BY <2>1, <2>2, <2>3
<1> QED BY <1>3, <1>4

LEMMA CloneStep ==
  ASSUME CountInv, NEW t \in Tasks, NEW share \in BOOLEAN, Clone(t, share)
  PROVE  CountInv' /\ (LinkInv => LinkInv')
<1> DEFINE new   == {u \in Tasks : task[u].status = "free"}
           c     == Min(new)
           mine  == task[t].files
           room  == {a \in Tables : table[a].refs = 0}
           b     == IF mine = None \/ share THEN mine ELSE Min(room)
           slots == IF b = mine THEN One(None) ELSE In(Descriptors(t), Fds)
           s     == task[t].session
           taken == Plus(slots, Plus(One(task[t].cwd), One(task[t].exe)))
           H     == Taken(heap, taken)
           h     == Held(task, table)
           k     == Belong(task, lost)
           i     == Plus(h, taken)
           l     == IF s = None THEN k ELSE SetTo(k, s, k[s] + 1)
           B     == IF b = None THEN 1 ELSE b
           r     == [task[t] EXCEPT !.files = b, !.execing = task[t].ece391,
                                    !.pgid = IF task[t].ece391 THEN c ELSE task[t].pgid]
<1>1. /\ Idle(t) /\ new # {}
      /\ (mine = None => share) /\ (task[t].ece391 => ~share) /\ (share \/ room # {})
      /\ task' = SetTo(task, c, r)
      /\ table' = IF b = None THEN table
                  ELSE IF b = mine THEN [table EXCEPT ![b].refs = @ + 1]
                  ELSE [table EXCEPT ![b] = [table[mine] EXCEPT !.refs = 1]]
      /\ heap' = IF s = None THEN H ELSE Joined(H, s)
      /\ UNCHANGED <<fg, lost, calls>>
  BY Zenon DEF Clone, SetTo, Joined
<1>2. /\ task[t].status = "alive" /\ task[t].reading = None
      /\ \A d \in Fds : task[t].polled[d] = None
      /\ task \in [Tasks -> TaskType] /\ table \in [Tables -> TableType]
      /\ task[t] \in TaskType /\ WellFormed(task[t])
      /\ fg' \in Ttys /\ lost' \in [Sessions -> Nat] /\ calls' \in 0 .. MaxCalls
  BY <1>1 DEF Idle, CountInv, VarsType, Shape
<1>3. c \in Tasks /\ task[c] = NoTask /\ c # t
  <2>1. new \in SUBSET Nat
    BY DEF Tasks
  <2>2. c \in new
    BY <1>1, <2>1, MinFacts, Zenon
  <2> QED BY <1>2, <2>2 DEF CountInv, Shape, WellFormed
<1>4. /\ mine = None => b = None
      /\ mine # None => /\ mine \in Tables /\ table[mine].refs > 0 /\ b \in Tables
                        /\ b = mine \/ table[b].refs = 0
                        /\ b # mine => ~share
  <2>1. room \in SUBSET Nat
    BY DEF Tables
  <2>2. room # {} => Min(room) \in room
    BY <2>1, MinFacts
  <2>3. mine # None => mine \in Tables /\ table[mine].refs > 0
    BY <1>2, TableOf
  <2> QED BY <1>1, <2>2, <2>3, Zenon
<1>5. slots \in [Files -> Nat] /\ \A x \in Files : slots[x] > 0 => h[x] > 0
  <2>1. \A x \in Files : One(None)[x] = 0
    BY OneType, Names
  <2>2. b # mine => \A x \in Files : In(Descriptors(t), Fds)[x] <= h[x]
    BY <1>2, <1>4, TableOf
  <2>3. In(Descriptors(t), Fds) \in [Files -> Nat] /\ One(None) \in [Files -> Nat] /\ h \in [Files -> Nat]
    BY InType, OneType, CountsType DEF CountInv
  <2> HIDE DEF h
  <2>4. CASE b = mine
    BY <2>1, <2>3, <2>4
  <2>5. CASE b # mine
    BY <2>2, <2>3, <2>5
  <2> QED BY <2>4, <2>5
<1>6. r \in TaskType /\ WellFormed(r) /\ r.reading = None /\ r.session = s /\ r.files = b
      /\ r.status = "alive" /\ r.cwd = task[t].cwd /\ r.exe = task[t].exe
      /\ r.polled = task[t].polled
  <2>1. c \in 0 .. NumTasks /\ b \in Tables \union {None}
    BY <1>3, <1>4, FilesAssumption DEF Tasks
  <2>2. (task[t].ece391 => b # None) /\ (b = None <=> mine = None)
    BY <1>1, <1>4, Names, Zenon
  <2>a. task[t].ece391 \in BOOLEAN /\ task[t].pgid \in 0 .. NumTasks
    BY <1>2 DEF TaskType
  <2> DEFINE g == IF task[t].ece391 THEN c ELSE task[t].pgid
  <2>b. g \in 0 .. NumTasks /\ r = Cloned(task[t], b, task[t].ece391, g)
    BY <2>1, <2>a DEF Cloned
  <2>c. /\ r \in TaskType /\ r.files = b /\ r.execing = task[t].ece391 /\ r.mm = task[t].mm
        /\ r.reading = task[t].reading /\ r.session = task[t].session
        /\ r.status = task[t].status /\ r.cwd = task[t].cwd /\ r.exe = task[t].exe
        /\ r.polled = task[t].polled
    <3> DEFINE p == task[t]
               x == task[t].ece391
    <3>1. /\ p \in TaskType /\ x \in BOOLEAN /\ g \in 0 .. NumTasks
          /\ b \in Tables \union {None} /\ r = Cloned(p, b, x, g)
      BY <1>2, <2>1, <2>a, <2>b
    <3> HIDE DEF c, b, g, r, p, x
    <3>2. r \in TaskType /\ ClonedAs(r, p, b, x)
      BY <3>1, ClonedFields
    <3> QED BY <3>2 DEF p, x, ClonedAs
  <2> HIDE DEF c, b, g, r
  <2>3. r \in TaskType /\ r.files = b /\ r.execing = task[t].ece391 /\ r.mm = task[t].mm
        /\ r.reading = None /\ r.session = s
        /\ r.status = "alive" /\ r.cwd = task[t].cwd /\ r.exe = task[t].exe
        /\ r.polled = task[t].polled
    BY <1>2, <2>c
  <2> HIDE DEF s
  <2> QED BY <1>2, <2>2, <2>3 DEF WellFormed
<1>7. B \in Tables
  BY <1>4, SomeOfEach
<1>8. /\ table' \in [Tables -> TableType] /\ \A a \in Tables \ {B} : table'[a] = table[a]
      /\ \A x \in Files : TableHolds(table'[B], x) = TableHolds(table[B], x) + slots[x]
      /\ \A a \in Tables : table'[a].refs = table[a].refs + (IF a = b THEN 1 ELSE 0)
      /\ \A a \in Tables : table[a].refs > 0 => table'[a].fd = table[a].fd
  <2>1. \A x \in Files : One(None)[x] = 0
    BY OneType, Names
  <2>2. \A x \in Files : TableHolds(table[B], x) \in Nat
    BY <1>2, <1>7, HoldsType
  <2>3. CASE b = None
    <3>1. table' = table /\ mine = None /\ slots = One(None) /\ b \notin Tables
      BY <1>1, <1>4, <2>3, Names, Zenon
    <3>2. \A a \in Tables : table[a].refs \in Nat
      BY <1>2 DEF TableType
    <3> HIDE DEF slots, b, B
    <3> QED BY <1>2, <2>1, <2>2, <3>1, <3>2
  <2>4. CASE b # None /\ b = mine
    <3>1. /\ table' = [table EXCEPT ![b].refs = @ + 1] /\ slots = One(None) /\ b \in Tables
          /\ table[b].refs > 0 /\ B = b
      BY <1>1, <1>4, <2>4, Zenon
    <3> HIDE DEF slots, b, B
    <3>2. /\ table' \in [Tables -> TableType] /\ \A a \in Tables \ {B} : table'[a] = table[a]
          /\ table'[b].refs = table[b].refs + 1 /\ table'[b].fd = table[b].fd
      BY <1>2, <3>1 DEF TableType
    <3>3. \A x \in Files : TableHolds(table'[b], x) = TableHolds(table[b], x)
      BY <1>2, <3>1, <3>2 DEF TableHolds, TableType
    <3>4. \A a \in Tables : table[a].refs \in Nat
      BY <1>2 DEF TableType
    <3> QED BY <2>1, <2>2, <3>1, <3>2, <3>3, <3>4
  <2>5. CASE b # None /\ b # mine
    <3>1. /\ table' = [table EXCEPT ![b] = [table[mine] EXCEPT !.refs = 1]]
          /\ slots = In(table[mine].fd, Fds) /\ b \in Tables /\ mine \in Tables
          /\ table[b].refs = 0 /\ B = b
      BY <1>1, <1>4, <2>5 DEF Descriptors
    <3> HIDE DEF slots, b, B, mine
    <3>2. /\ table' \in [Tables -> TableType] /\ \A a \in Tables \ {B} : table'[a] = table[a]
          /\ table'[b].refs = 1 /\ table'[b].fd = table[mine].fd
      <4> DEFINE q == [table[mine] EXCEPT !.refs = 1]
      <4>1. table[mine] \in TableType /\ 1 \in Nat
        BY <1>2, <3>1
      <4>2. q \in TableType /\ q.refs = 1 /\ q.fd = table[mine].fd
        BY <4>1, TableUsed
      <4>3. table' = [table EXCEPT ![b] = q]
        BY <3>1
      <4> HIDE DEF q
      <4>4. table' \in [Tables -> TableType] /\ table'[b] = q
        BY <1>2, <3>1, <4>2, <4>3
      <4>5. \A a \in Tables \ {B} : table'[a] = table[a]
        BY <1>2, <3>1, <4>3
      <4> QED BY <4>2, <4>4, <4>5
    <3>3. \A x \in Files : TableHolds(table'[b], x) = slots[x] /\ TableHolds(table[b], x) = 0
      BY <3>1, <3>2 DEF TableHolds
    <3>4. \A a \in Tables : table[a].refs \in Nat
      BY <1>2 DEF TableType
    <3> QED BY <1>5, <3>1, <3>2, <3>3, <3>4
  <2> QED BY <2>3, <2>4, <2>5
<1> HIDE DEF c, b, slots, r, B
<1>9. /\ taken \in [Files -> Nat]
      /\ \A x \in Files : taken[x] = slots[x] + One(task[t].cwd)[x] + One(task[t].exe)[x]
      /\ \A x \in Files : taken[x] > 0 => h[x] > 0
  BY <1>2, <1>5, ParentHolds
<1>10. /\ h \in [Files -> Nat] /\ k \in [Sessions -> Nat] /\ fg \in Ttys /\ Agrees(heap, h, k, fg)
  BY CountsType DEF CountInv, VarsType, HeapCounted
<1> HIDE DEF taken, h, k
<1>11. /\ i \in [Files -> Nat] /\ \A x \in Files : i[x] = h[x] + taken[x]
  BY <1>9, <1>10, PlusType
<1>12. Agrees(H, i, k, fg) /\ (Linked(heap) => Linked(H))
  BY <1>9, <1>10, TakenFacts
<1> HIDE DEF H, i
<1>13. s \in Sessions \union {None}
  BY <1>2 DEF TaskType
<1>14. /\ l \in [Sessions -> Nat] /\ Agrees(heap', i, l, fg) /\ (Linked(heap) => Linked(heap'))
       /\ \A x \in Sessions : l[x] = k[x] + (IF x = s THEN 1 ELSE 0)
  <2>1. CASE s = None
    BY <1>1, <1>10, <1>12, <2>1, Names
  <2>2. CASE s # None
    <3>1. s \in Sessions /\ l = SetTo(k, s, k[s] + 1) /\ heap' = Joined(H, s)
      BY <1>1, <1>13, <2>2
    <3> HIDE DEF s, l
    <3>2. Agrees(heap', i, l, fg) /\ (Linked(H) => Linked(heap'))
      BY <1>10, <1>11, <1>12, <3>1, JoinedFacts
    <3>3. l \in [Sessions -> Nat] /\ \A x \in Sessions : l[x] = k[x] + (IF x = s THEN 1 ELSE 0)
      BY <1>10, <3>1 DEF SetTo
    <3> QED BY <1>12, <3>2, <3>3
  <2> QED BY <2>1, <2>2
<1> HIDE DEF l
<1>15. /\ task' \in [Tasks -> TaskType] /\ task'[c] = r /\ \A u \in Tasks \ {c} : task'[u] = task[u]
  BY <1>1, <1>2, <1>3, <1>6 DEF SetTo
<1>16. /\ task[c].status = "free"
       /\ \A x \in Files : TaskHolds(task[c], x) = 0
       /\ \A a \in Tables : Uses(task[c], a) = 0
       /\ \A x \in Sessions : IsIn(task[c], x) = 0
  BY <1>3 DEF NoTask, TaskHolds, Uses, IsIn
<1>17. FilesMove(c, B, i)
  <2> SUFFICES ASSUME NEW x \in Files
               PROVE  i[x] + TaskHolds(task[c], x) + TableHolds(table[B], x)
                        = h[x] + TaskHolds(task'[c], x) + TableHolds(table'[B], x)
    BY DEF FilesMove, h
  <2>1. TaskHolds(task'[c], x)
          = One(task[t].cwd)[x] + One(task[t].exe)[x] + In(task[t].polled, Fds)[x]
    BY <1>6, <1>15 DEF TaskHolds
  <2>2. One(task[t].cwd)[x] \in Nat /\ One(task[t].exe)[x] \in Nat
    BY <1>2, HoldsOfTask
  <2>3. In(task[t].polled, Fds)[x] = 0
    BY <1>2, InType, Names
  <2>4. TableHolds(table[B], x) \in Nat
    BY <1>2, <1>7, HoldsType
  <2>5. taken[x] = slots[x] + One(task[t].cwd)[x] + One(task[t].exe)[x] /\ slots[x] \in Nat
    BY <1>5, <1>9
  <2>6. i[x] = h[x] + taken[x] /\ h[x] \in Nat
    BY <1>10, <1>11
  <2>7. TableHolds(table'[B], x) = TableHolds(table[B], x) + slots[x] /\ TaskHolds(task[c], x) = 0
    BY <1>8, <1>16
  <2> QED BY <2>1, <2>2, <2>3, <2>4, <2>5, <2>6, <2>7
<1>18. SessionsMove(c, l)
  <2> SUFFICES ASSUME NEW x \in Sessions
               PROVE  l[x] + IsIn(task[c], x) + lost[x] = k[x] + IsIn(task'[c], x) + lost'[x]
    BY DEF SessionsMove, k
  <2>1. IsIn(task'[c], x) = (IF x = s THEN 1 ELSE 0) /\ IsIn(task[c], x) = 0
    BY <1>6, <1>15, <1>16 DEF IsIn
  <2>2. l[x] = k[x] + (IF x = s THEN 1 ELSE 0) /\ k[x] \in Nat /\ lost[x] \in Nat /\ lost'[x] = lost[x]
    BY <1>1, <1>2, <1>10, <1>14
  <2> QED BY <2>1, <2>2
<1>19. UsersMove(c)
  <2> SUFFICES ASSUME NEW a \in Tables
               PROVE  table'[a].refs + Uses(task[c], a) = table[a].refs + Uses(task'[c], a)
    BY DEF UsersMove
  <2>1. Uses(task'[c], a) = (IF a = b THEN 1 ELSE 0) /\ Uses(task[c], a) = 0
    BY <1>6, <1>15, <1>16 DEF Uses
  <2>2. table'[a].refs = table[a].refs + (IF a = b THEN 1 ELSE 0) /\ table[a].refs \in Nat
    BY <1>2, <1>8 DEF TableType
  <2> QED BY <2>1, <2>2
<1>20. CountInv'
  <2>1. Agrees(heap', i, l, fg') /\ WellFormed(task'[c])
    BY <1>1, <1>6, <1>14, <1>15
  <2>2. table' \in [Tables -> TableType] /\ \A a \in Tables \ {B} : table'[a] = table[a]
    BY <1>8
  <2> QED BY <1>2, <1>3, <1>7, <1>11, <1>14, <1>15, <1>17, <1>18, <1>19, <2>1, <2>2, MovedStep
<1>21. ReaderHolds => ReaderHolds'
  <2> SUFFICES ASSUME ReaderHolds PROVE ReaderHolds'
    OBVIOUS
  <2>1. ASSUME NEW u \in Tasks, NEW d \in Fds, task[u].reading # None
        PROVE  table'[task[u].files].fd[d] = table[task[u].files].fd[d]
    <3>1. task[u].status = "alive"
      BY <2>1 DEF CountInv, Shape, WellFormed
    <3>2. task[u].files # None
      BY <2>1 DEF ReaderHolds
    <3>3. task[u].files \in Tables /\ table[task[u].files].refs > 0
      BY <3>1, <3>2, TableOf
    <3> QED BY <1>8, <3>3
  <2>2. task'[c].reading = None
    BY <1>6, <1>15
  <2>3. c \in Tasks /\ \A u \in Tasks \ {c} : task'[u] = task[u]
    BY <1>3, <1>15
  <2>4. \A u \in Tasks, d \in Fds : task[u].reading # None =>
          \/ table'[task[u].files].fd[d] = table[task[u].files].fd[d]
          \/ table[task[u].files].fd[d] # task[u].reading
    BY <2>1
  <2> HIDE DEF c
  <2> QED BY <2>2, <2>3, <2>4, ReadersElsewhere
<1>22. LinkInv => LinkInv'
  BY <1>14, <1>21, Zenon DEF LinkInv
<1> QED BY <1>20, <1>22

\* What a task and its table hold together.
LEMMA BothHold ==
  ASSUME CountInv, NEW t \in Tasks, task[t].status = "alive", NEW b \in Tables, table[b].refs > 0
  PROVE  \A x \in Files : /\ In(table[b].fd, Fds)[x] \in Nat /\ TaskHolds(task[t], x) \in Nat
                          /\ TaskHolds(task[t], x) + In(table[b].fd, Fds)[x] <= Held(task, table)[x]
<1>1. /\ VarsType /\ task \in [Tasks -> TaskType] /\ table \in [Tables -> TableType]
      /\ \A u \in Tasks \ {t} : task[u] = task[u]
      /\ \A a \in Tables \ {b} : table[a] = table[a]
  BY DEF CountInv, VarsType
<1>2. \A x \in Files : /\ TaskHolds(task[t], x) \in Nat /\ TableHolds(table[b], x) \in Nat
                       /\ TaskHolds(task[t], x) + TableHolds(table[b], x) <= Held(task, table)[x]
  BY <1>1, HeldMoved
<1>3. \A x \in Files : TableHolds(table[b], x) = In(table[b].fd, Fds)[x]
  BY DEF TableHolds
<1> QED BY <1>2, <1>3

LEMMA ExecStep ==
  ASSUME CountInv, NEW t \in Tasks, NEW ece391 \in BOOLEAN, Exec(t, ece391)
  PROVE  CountInv' /\ (Misuse = {} /\ LinkInv => LinkInv')
<1> DEFINE f == Min(FreeFiles(heap))
           B == task[t].files
           fd == table[B].fd
           D == Cloexec(t)
           new == [d \in Fds |-> IF d \in D THEN None ELSE fd[d]]
           c == Plus(One(task[t].exe), In(fd, D))
           h == Held(task, table)
           k == Belong(task, lost)
           i == Minus(Plus(h, One(f)), c)
           r == [task[t] EXCEPT !.exe = f, !.ece391 = ece391, !.execing = FALSE]
<1>1. /\ Linux(t) \/ (Idle(t) /\ task[t].execing)
      /\ FreeFiles(heap) # {}
      /\ "close_under_reader" \in Misuse \/ \A u \in Tasks, d \in D : task[u].reading # fd[d]
      /\ heap' = Closed(Opened(heap, t, f, "other", 1, TRUE), c)
      /\ task' = [task EXCEPT ![t].exe = f, ![t].ece391 = ece391, ![t].execing = FALSE]
      /\ table' = [table EXCEPT ![B].fd = [d \in Fds |-> IF d \in D THEN None ELSE @[d]],
                                ![B].cloexec = @ \ D]
      /\ Counted /\ UNCHANGED <<fg, lost>>
  BY Zenon DEF Exec, Descriptors
<1>2. /\ task[t].status = "alive" /\ task[t].reading = None /\ task[t].mm
      /\ task \in [Tasks -> TaskType] /\ table \in [Tables -> TableType]
      /\ task[t] \in TaskType /\ WellFormed(task[t]) /\ calls' \in 0 .. MaxCalls
      /\ fg' \in Ttys /\ lost' \in [Sessions -> Nat]
  BY <1>1, CallsBound, Zenon DEF Linux, Calls, Idle, CountInv, VarsType, Shape, WellFormed
<1>3. B \in Tables /\ table[B].refs > 0 /\ B # None /\ fd \in [Fds -> Files \union {None}]
      /\ D \in SUBSET Fds
  <2>1. B # None
    BY <1>2 DEF WellFormed
  <2>2. D \in SUBSET Fds
    BY <1>2, <2>1, TableOf DEF Cloexec, TableType
  <2> QED BY <1>2, <2>1, <2>2, TableOf
<1>4. /\ table' \in [Tables -> TableType] /\ \A a \in Tables \ {B} : table'[a] = table[a]
      /\ table'[B].fd = new /\ table'[B].refs = table[B].refs
  <2>1. new \in [Fds -> Files \union {None}]
    BY <1>3
  <2>2. table'[B] = [table[B] EXCEPT !.fd = new, !.cloexec = @ \ D]
    BY <1>1, <1>2, <1>3 DEF TableType
  <2>3. \A a \in Tables \ {B} : table'[a] = table[a]
    BY <1>1, <1>2, <1>3, Zenon
  <2> HIDE DEF new, D
  <2>4. table'[B] \in TableType /\ table'[B].fd = new /\ table'[B].refs = table[B].refs
    <3>1. table[B] \in TableType
      BY <1>2, <1>3
    <3> HIDE DEF B
    <3> QED BY <2>1, <2>2, <3>1 DEF TableType
  <2>5. table' = [a \in Tables |-> table'[a]]
    BY <1>1, <1>2, <1>3
  <2> HIDE DEF B
  <2>6. table' \in [Tables -> TableType]
    BY <1>2, <2>3, <2>4, <2>5
  <2> QED BY <2>3, <2>4, <2>6
<1>5. /\ "other" \in FileKinds \ {"none"} /\ TRUE \in BOOLEAN
      /\ One(task[t].exe) \in [Files -> Nat] /\ One(f) \in [Files -> Nat]
      /\ In(fd, D) \in [Files -> Nat]
      /\ h \in [Files -> Nat] /\ k \in [Sessions -> Nat]
  BY <1>3, OneType, InType, CountsType DEF FileKinds, CountInv
<1>6. ASSUME NEW x \in Files
      PROVE  /\ In(fd, Fds)[x] \in Nat /\ In(fd, D)[x] \in Nat /\ In(new, Fds)[x] \in Nat
             /\ In(new, Fds)[x] + In(fd, D)[x] = In(fd, Fds)[x]
             /\ TaskHolds(task[t], x) + In(fd, Fds)[x] <= h[x]
             /\ One(task[t].cwd)[x] \in Nat /\ In(task[t].polled, Fds)[x] \in Nat
             /\ TaskHolds(task[t], x)
                  = One(task[t].cwd)[x] + One(task[t].exe)[x] + In(task[t].polled, Fds)[x]
  <2>1. In(new, Fds)[x] \in Nat
    BY InType
  <2> HIDE DEF D, B
  <2>2. TaskHolds(task[t], x) + In(fd, Fds)[x] <= h[x]
    BY <1>2, <1>3, BothHold
  <2> QED BY <1>2, <1>3, <2>1, <2>2, SlotsCleared, HoldsOfTask
<1> HIDE DEF f, D, B, fd, new, h, k
<1>7. /\ c \in [Files -> Nat] /\ Within(c, Plus(h, One(f)))
      /\ \A x \in Files : c[x] = One(task[t].exe)[x] + In(fd, D)[x]
  <2>1. c \in [Files -> Nat] /\ \A x \in Files : c[x] = One(task[t].exe)[x] + In(fd, D)[x]
    BY <1>5, PlusType
  <2>2. \A x \in Files : Plus(h, One(f))[x] = h[x] + One(f)[x]
    BY <1>5, PlusType
  <2>3. ASSUME NEW x \in Files  PROVE c[x] <= Plus(h, One(f))[x]
    <3>1. /\ In(fd, Fds)[x] \in Nat /\ In(fd, D)[x] \in Nat /\ In(new, Fds)[x] \in Nat
          /\ In(new, Fds)[x] + In(fd, D)[x] = In(fd, Fds)[x]
          /\ TaskHolds(task[t], x) + In(fd, Fds)[x] <= h[x]
          /\ One(task[t].cwd)[x] \in Nat /\ In(task[t].polled, Fds)[x] \in Nat
          /\ TaskHolds(task[t], x)
               = One(task[t].cwd)[x] + One(task[t].exe)[x] + In(task[t].polled, Fds)[x]
      BY <1>6
    <3>2. h[x] \in Nat /\ One(f)[x] \in Nat /\ One(task[t].exe)[x] \in Nat
      BY <1>5
    <3>3. Plus(h, One(f))[x] = h[x] + One(f)[x] /\ c[x] = One(task[t].exe)[x] + In(fd, D)[x]
      BY <2>1, <2>2
    <3> QED BY <3>1, <3>2, <3>3
  <2> QED BY <2>1, <2>3 DEF Within
<1> HIDE DEF c, i, r
<1>8. /\ f \in Files /\ i \in [Files -> Nat] /\ Balanced(i, c, h, One(f))
      /\ Agrees(heap', i, k, fg) /\ (Linked(heap) => Linked(heap'))
  <2>1. FreeFiles(heap) # {} /\ f = Min(FreeFiles(heap))
    BY <1>1 DEF f
  <2>2. heap' = Closed(Opened(heap, t, f, "other", 1, TRUE), c)
    BY <1>1
  <2>3. i = Minus(Plus(h, One(f)), c)
    BY DEF i
  <2> QED BY <1>5, <1>7, <2>1, <2>2, <2>3, OpenedClosed DEF h, k
<1>9. /\ r \in TaskType /\ r.status = "alive" /\ r.files = B /\ r.session = task[t].session
      /\ r.reading = None /\ WellFormed(r)
      /\ r.cwd = task[t].cwd /\ r.exe = f /\ r.polled = task[t].polled
      /\ task' = SetTo(task, t, r)
  <2>1. task' = SetTo(task, t, r)
    BY <1>1, <1>2 DEF TaskType, SetTo, r
  <2>2. /\ r \in TaskType /\ r.status = "alive" /\ r.files = B /\ r.session = task[t].session
        /\ r.reading = None /\ r.mm /\ r.execing = FALSE
        /\ r.cwd = task[t].cwd /\ r.exe = f /\ r.polled = task[t].polled
    <3>1. /\ r \in TaskType /\ r.files = task[t].files /\ r.execing = FALSE /\ r.mm = task[t].mm
          /\ r.reading = task[t].reading /\ r.session = task[t].session /\ r.status = task[t].status
          /\ r.cwd = task[t].cwd /\ r.exe = f /\ r.polled = task[t].polled
      <4> DEFINE p == task[t]
      <4>1. p \in TaskType /\ f \in Files \union {None} /\ r = Execed(p, f, ece391)
        BY <1>2, <1>8 DEF r, Execed
      <4> HIDE DEF p, f
      <4>2. r \in TaskType /\ ExecedAs(r, p, f)
        BY <4>1, ExecedFields
      <4> QED BY <4>2 DEF p, ExecedAs
    <3> QED BY <1>2, <3>1 DEF B
  <2> QED BY <1>3, <2>1, <2>2 DEF WellFormed
<1>10. /\ task' \in [Tasks -> TaskType] /\ task'[t] = r /\ \A u \in Tasks \ {t} : task'[u] = task[u]
  BY <1>2, <1>9 DEF SetTo
<1>11. FilesMove(t, B, i)
  <2> SUFFICES ASSUME NEW x \in Files
               PROVE  i[x] + TaskHolds(task[t], x) + TableHolds(table[B], x)
                        = h[x] + TaskHolds(task'[t], x) + TableHolds(table'[B], x)
    BY DEF FilesMove, h
  <2>1. /\ In(fd, Fds)[x] \in Nat /\ In(fd, D)[x] \in Nat /\ In(new, Fds)[x] \in Nat
        /\ In(new, Fds)[x] + In(fd, D)[x] = In(fd, Fds)[x]
        /\ One(task[t].cwd)[x] \in Nat /\ In(task[t].polled, Fds)[x] \in Nat
        /\ TaskHolds(task[t], x)
             = One(task[t].cwd)[x] + One(task[t].exe)[x] + In(task[t].polled, Fds)[x]
    BY <1>6
  <2>2. TaskHolds(task'[t], x) = One(task[t].cwd)[x] + One(f)[x] + In(task[t].polled, Fds)[x]
    BY <1>9, <1>10 DEF TaskHolds
  <2>3. TableHolds(table[B], x) = In(fd, Fds)[x] /\ TableHolds(table'[B], x) = In(new, Fds)[x]
    BY <1>3, <1>4 DEF TableHolds, fd
  <2>4. h[x] \in Nat /\ One(f)[x] \in Nat /\ One(task[t].exe)[x] \in Nat /\ i[x] \in Nat
    BY <1>5, <1>8
  <2>5. i[x] + c[x] = h[x] + One(f)[x] /\ c[x] = One(task[t].exe)[x] + In(fd, D)[x]
    BY <1>7, <1>8 DEF Balanced
  <2> QED BY <2>1, <2>2, <2>3, <2>4, <2>5
<1>12. SessionsMove(t, k)
  <2>1. \A x \in Sessions : IsIn(task'[t], x) = IsIn(task[t], x)
    BY <1>2, <1>9, <1>10 DEF IsIn
  <2> QED BY <1>1, <2>1 DEF SessionsMove, k
<1>13. UsersMove(t)
  <2>1. \A a \in Tables : Uses(task'[t], a) = Uses(task[t], a) /\ table'[a].refs = table[a].refs
    BY <1>2, <1>4, <1>9, <1>10 DEF Uses, B
  <2> QED BY <2>1 DEF UsersMove
<1>14. CountInv'
  <2>1. Agrees(heap', i, k, fg') /\ WellFormed(task'[t])
    BY <1>1, <1>8, <1>9, <1>10
  <2> QED BY <1>2, <1>3, <1>4, <1>5, <1>8, <1>10, <1>11, <1>12, <1>13, <2>1, MovedStep
<1>15. Misuse = {} /\ ReaderHolds => ReaderHolds'
  <2>1. ASSUME NEW u \in Tasks, NEW d \in Fds, Misuse = {}, ReaderHolds, task[u].reading # None
        PROVE  \/ table'[task[u].files].fd[d] = table[task[u].files].fd[d]
               \/ table[task[u].files].fd[d] # task[u].reading
    <3>1. task[u].files \in Tables
      BY <1>2, <2>1 DEF ReaderHolds, TaskType
    <3>2. CASE task[u].files # B
      BY <1>4, <3>1, <3>2
    <3>3. CASE task[u].files = B /\ d \in D
      BY <1>1, <2>1, <3>3 DEF fd
    <3>4. CASE task[u].files = B /\ d \notin D
      BY <1>4, <2>1, <3>4 DEF new, fd
    <3> QED BY <3>2, <3>3, <3>4
  <2>2. task'[t].reading = None
    BY <1>9, <1>10
  <2> QED BY <1>10, <2>1, <2>2, ReadersElsewhere
<1> QED BY <1>8, <1>14, <1>15 DEF LinkInv

\* A member of a session counts in it.
LEMMA MemberCounts ==
  ASSUME CountInv, NEW t \in Tasks, task[t].status = "alive", task[t].session # None
  PROVE  task[t].session \in Sessions /\ Belong(task, lost)[task[t].session] > 0
<1> DEFINE s == task[t].session
<1>1. s \in Sessions /\ VarsType
  BY DEF CountInv, VarsType, TaskType
<1>2. IsIn(task[t], s) = 1 /\ \A u \in Tasks \ {t} : task[u] = task[u]
  BY DEF IsIn
<1> HIDE DEF s
<1>3. IsIn(task[t], s) <= Belong(task, lost)[s] /\ Belong(task, lost)[s] \in Nat
  BY <1>1, <1>2, BelongMoved
<1> QED BY <1>1, <1>2, <1>3 DEF s

\* The files closed, when no more is given up than is held.
LEMMA ClosedWithin ==
  ASSUME NEW H, NEW h \in [Files -> Nat], NEW k \in [Sessions -> Nat], NEW g \in Ttys,
         Agrees(H, h, k, g), NEW c \in [Files -> Nat], Within(c, h)
  PROVE  Agrees(Closed(H, c), Minus(h, c), k, g) /\ (Linked(H) => Linked(Closed(H, c)))
BY ClosedFacts DEF Within

\* The heap, when the task t gives up what it holds, and what c says.
LEMMA GivenUp ==
  ASSUME CountInv, NEW t \in Tasks, task[t].status = "alive", NEW s, s = task[t].session,
         NEW c \in [Files -> Nat], NEW d \in [Files -> Nat], Within(Plus(c, d), Held(task, table)),
         NEW H, H = PutSession(Closed(heap, c), s), NEW last \in BOOLEAN,
         NEW G, G = IF last THEN Closed(H, d) ELSE H,
         NEW i, i = IF last THEN Minus(Minus(Held(task, table), c), d)
                    ELSE Minus(Held(task, table), c),
         NEW l, l = IF s = None THEN Belong(task, lost)
                    ELSE SetTo(Belong(task, lost), s, Belong(task, lost)[s] - 1)
  PROVE  /\ i \in [Files -> Nat] /\ l \in [Sessions -> Nat] /\ Agrees(G, i, l, fg)
         /\ Linked(heap) => Linked(G)
<1> DEFINE h == Held(task, table)
           k == Belong(task, lost)
           j == Minus(h, c)
           F == Closed(heap, c)
<1>1. /\ h \in [Files -> Nat] /\ k \in [Sessions -> Nat] /\ fg \in Ttys /\ Agrees(heap, h, k, fg)
      /\ s # None => s \in Sessions /\ k[s] > 0
  BY CountsType, MemberCounts DEF CountInv, VarsType, HeapCounted
<1>2. /\ H = PutSession(F, s) /\ G = (IF last THEN Closed(H, d) ELSE H)
      /\ i = (IF last THEN Minus(j, d) ELSE j)
      /\ l = (IF s = None THEN k ELSE SetTo(k, s, k[s] - 1)) /\ Within(Plus(c, d), h)
  OBVIOUS
<1> HIDE DEF h, k
<1>3. \A x \in Files : h[x] \in Nat /\ c[x] \in Nat /\ d[x] \in Nat /\ c[x] + d[x] <= h[x]
  BY <1>1, <1>2, PlusType DEF Within
<1>4. j \in [Files -> Nat] /\ \A x \in Files : j[x] = h[x] - c[x]
  BY <1>3 DEF Minus
<1>5. (\A x \in Files : c[x] <= h[x]) /\ (\A x \in Files : d[x] <= j[x])
  BY <1>3, <1>4
<1> HIDE DEF j, F
<1>6. Agrees(F, j, k, fg) /\ (Linked(heap) => Linked(F))
  BY <1>1, <1>5, ClosedFacts DEF j, F
<1>7. l \in [Sessions -> Nat] /\ Agrees(H, j, l, fg) /\ (Linked(F) => Linked(H))
  <2>1. CASE s = None
    BY <1>1, <1>2, <1>6, <2>1 DEF PutSession
  <2>2. CASE s # None
    <3>1. l = SetTo(k, s, k[s] - 1) /\ s \in Sessions /\ k[s] > 0
      BY <1>1, <1>2, <2>2
    <3>2. l \in [Sessions -> Nat]
      <4>1. k[s] - 1 \in Nat
        BY <1>1, <3>1
      <4> QED BY <1>1, <3>1, <4>1 DEF SetTo
    <3>3. Agrees(PutSession(F, s), j, SetTo(k, s, k[s] - 1), fg)
          /\ (Linked(F) => Linked(PutSession(F, s)))
      BY <1>1, <1>4, <1>6, <3>1, PutSessionFacts
    <3>4. H = PutSession(F, s)
      BY <1>2
    <3> QED BY <3>1, <3>2, <3>3, <3>4
  <2> QED BY <2>1, <2>2
<1>8. i \in [Files -> Nat] /\ Agrees(G, i, l, fg) /\ (Linked(H) => Linked(G))
  <2>1. CASE last
    <3>1. i = Minus(j, d) /\ G = Closed(H, d)
      BY <1>2, <2>1
    <3>2. i \in [Files -> Nat]
      BY <1>4, <1>5, <3>1 DEF Minus
    <3>3. Agrees(Closed(H, d), Minus(j, d), l, fg) /\ (Linked(H) => Linked(Closed(H, d)))
      <4>1. d \in [Files -> Nat] /\ j \in [Files -> Nat] /\ l \in [Sessions -> Nat] /\ fg \in Ttys
        BY <1>1, <1>4, <1>7
      <4>2. Agrees(H, j, l, fg) /\ Within(d, j)
        BY <1>5, <1>7 DEF Within
      <4> QED BY <4>1, <4>2, ClosedWithin
    <3> QED BY <3>1, <3>2, <3>3
  <2>2. CASE ~last
    BY <1>2, <1>4, <1>7, <2>2
  <2> QED BY <2>1, <2>2
<1> QED BY <1>6, <1>7, <1>8

LEMMA ExitStep ==
  ASSUME CountInv, NEW t \in Tasks, Exit(t)
  PROVE  CountInv' /\ (LinkInv => LinkInv')
<1> DEFINE b == task[t].files
           last == b # None /\ table[b].refs = 1
           c == Plus(One(task[t].cwd), One(task[t].exe))
           d == In(Descriptors(t), Fds)
           s == task[t].session
           H == PutSession(Closed(heap, c), s)
           h == Held(task, table)
           k == Belong(task, lost)
           i == IF last THEN Minus(Minus(h, c), d) ELSE Minus(h, c)
           l == IF s = None THEN k ELSE SetTo(k, s, k[s] - 1)
           e == IF b = None THEN One(None) ELSE d
           B == IF b = None THEN 1 ELSE b
           r == [NoTask EXCEPT !.status = "zombie", !.mm = task[t].mm, !.ece391 = task[t].ece391]
<1>1. /\ Idle(t)
      /\ heap' = IF last THEN Closed(H, d) ELSE H
      /\ table' = IF b = None THEN table
                  ELSE IF last THEN [table EXCEPT ![b] = NoTable]
                  ELSE [table EXCEPT ![b].refs = @ - 1]
      /\ task' = SetTo(task, t, r)
      /\ UNCHANGED <<fg, lost, calls>>
  BY DEF Exit, SetTo
<1>2. /\ task[t].status = "alive" /\ \A x \in Fds : task[t].polled[x] = None
      /\ task \in [Tasks -> TaskType] /\ table \in [Tables -> TableType] /\ task[t] \in TaskType
      /\ fg' \in Ttys /\ lost' \in [Sessions -> Nat] /\ calls' \in 0 .. MaxCalls
  BY <1>1 DEF Idle, CountInv, VarsType
<1>3. b # None => /\ b \in Tables /\ table[b].refs > 0 /\ Descriptors(t) = table[b].fd
  BY <1>2, TableOf
<1>4. B \in Tables /\ last \in BOOLEAN
  BY <1>3, SomeOfEach
<1>5. /\ c \in [Files -> Nat] /\ d \in [Files -> Nat] /\ e \in [Files -> Nat]
      /\ h \in [Files -> Nat] /\ k \in [Sessions -> Nat]
      /\ \A x \in Files : c[x] = One(task[t].cwd)[x] + One(task[t].exe)[x]
      /\ \A x \in Files : One(None)[x] = 0
  <2>1. One(task[t].cwd) \in [Files -> Nat] /\ One(task[t].exe) \in [Files -> Nat]
        /\ One(None) \in [Files -> Nat]
    BY OneType
  <2> QED BY <2>1, PlusType, OneType, Names, InType, CountsType DEF CountInv
<1>6. ASSUME NEW x \in Files
      PROVE  TaskHolds(task[t], x) = c[x] /\ c[x] + e[x] <= h[x]
  <2>1. /\ One(task[t].cwd)[x] \in Nat /\ One(task[t].exe)[x] \in Nat
        /\ TaskHolds(task[t], x)
             = One(task[t].cwd)[x] + One(task[t].exe)[x] + In(task[t].polled, Fds)[x]
        /\ TaskHolds(task[t], x) <= h[x]
    BY <1>2, HoldsOfTask
  <2>2. In(task[t].polled, Fds)[x] = 0
    BY <1>2, InType, Names
  <2>3. c[x] = One(task[t].cwd)[x] + One(task[t].exe)[x] /\ One(None)[x] = 0
    BY <1>5
  <2>4. TaskHolds(task[t], x) = c[x] /\ c[x] \in Nat
    BY <2>1, <2>2, <2>3
  <2>5. b # None => TaskHolds(task[t], x) + d[x] <= h[x]
    BY <1>2, <1>3, BothHold
  <2> HIDE DEF c, h, d
  <2>6. CASE b = None
    BY <2>1, <2>3, <2>4, <2>6
  <2>7. CASE b # None
    BY <2>4, <2>5, <2>7
  <2> QED BY <2>4, <2>6, <2>7
<1>7. /\ r \in TaskType /\ WellFormed(r) /\ r.status = "zombie" /\ r.reading = None
  <2>1. 0 \in 0 .. NumTasks
    BY FilesAssumption
  <2> QED BY <1>2, <2>1, ZenonT(30) DEF TaskType, WellFormed, NoTask
<1>8. /\ table' \in [Tables -> TableType] /\ \A a \in Tables \ {B} : table'[a] = table[a]
      /\ \A x \in Files : TableHolds(table[B], x)
                            = TableHolds(table'[B], x) + (IF last THEN d[x] ELSE 0)
      /\ \A a \in Tables : table'[a].refs + (IF a = b THEN 1 ELSE 0) = table[a].refs
      /\ \A a \in Tables : ~(last /\ a = b) => table'[a].fd = table[a].fd
  <2>1. \A x \in Files : TableHolds(table[B], x) \in Nat
    BY <1>2, <1>4, HoldsType
  <2>2. \A a \in Tables : table[a].refs \in Nat
    BY <1>2 DEF TableType
  <2>3. CASE b = None
    <3>1. table' = table /\ b \notin Tables /\ ~last
      BY <1>1, <2>3, Names
    <3> HIDE DEF last, b, B, d
    <3> QED BY <1>2, <2>1, <2>2, <3>1
  <2>4. CASE b # None /\ last
    <3>1. table' = [table EXCEPT ![b] = NoTable] /\ table[b].refs = 1 /\ b \in Tables /\ B = b
          /\ d = In(table[b].fd, Fds)
      BY <1>1, <1>3, <2>4
    <3> HIDE DEF last, b, B, d
    <3>2. NoTable \in TableType /\ NoTable.refs = 0
      BY DEF NoTable, TableType
    <3>3. /\ table' \in [Tables -> TableType] /\ \A a \in Tables \ {B} : table'[a] = table[a]
          /\ table'[b] = NoTable
      BY <1>2, <3>1, <3>2
    <3>4. \A x \in Files : TableHolds(table'[b], x) = 0 /\ TableHolds(table[b], x) = d[x]
      BY <3>1, <3>2, <3>3 DEF TableHolds
    <3> QED BY <1>5, <2>2, <2>4, <3>1, <3>2, <3>3, <3>4
  <2>5. CASE b # None /\ ~last
    <3>1. table' = [table EXCEPT ![b].refs = @ - 1] /\ b \in Tables /\ B = b /\ table[b].refs \in Nat
          /\ table[b].refs > 1
      BY <1>1, <1>3, <2>2, <2>5
    <3> HIDE DEF last, b, B, d
    <3>2. /\ table' \in [Tables -> TableType] /\ \A a \in Tables \ {B} : table'[a] = table[a]
          /\ table'[b].refs = table[b].refs - 1 /\ table'[b].fd = table[b].fd
      <4> DEFINE q == [table[b] EXCEPT !.refs = table[b].refs - 1]
      <4>1. table[b] \in TableType /\ table[b].refs - 1 \in Nat
        BY <1>2, <3>1
      <4>2. q \in TableType /\ q.refs = table[b].refs - 1 /\ q.fd = table[b].fd
        BY <4>1, TableUsed
      <4>3. table' = [table EXCEPT ![b] = q]
        BY <1>2, <3>1
      <4> HIDE DEF q
      <4>4. table' \in [Tables -> TableType] /\ table'[b] = q
        BY <1>2, <3>1, <4>2, <4>3
      <4>5. \A a \in Tables \ {B} : table'[a] = table[a]
        BY <1>2, <3>1, <4>3
      <4> QED BY <4>2, <4>4, <4>5
    <3>3. \A x \in Files : TableHolds(table'[b], x) = TableHolds(table[b], x)
      BY <3>1, <3>2 DEF TableHolds
    <3> QED BY <2>1, <2>2, <2>5, <3>1, <3>2, <3>3
  <2> QED BY <2>3, <2>4, <2>5
<1> HIDE DEF b, last, c, d, s, h, k, e, B, r
<1>9. /\ i \in [Files -> Nat] /\ l \in [Sessions -> Nat] /\ Agrees(heap', i, l, fg)
      /\ Linked(heap) => Linked(heap')
  <2>1. \A x \in Files : Plus(c, e)[x] = c[x] + e[x]
    BY <1>5, PlusType
  <2>2. Within(Plus(c, e), h)
    BY <1>6, <2>1 DEF Within
  <2>3. last => e = d
    BY DEF last, e
  <2>4. heap' = (IF last THEN Closed(H, e) ELSE H)
        /\ i = (IF last THEN Minus(Minus(h, c), e) ELSE Minus(h, c))
    BY <1>1, <2>3
  <2> HIDE DEF i, l
  <2>5. l = IF s = None THEN k ELSE SetTo(k, s, k[s] - 1)
    BY DEF l
  <2> HIDE DEF H
  <2>6. H = PutSession(Closed(heap, c), s) /\ s = task[t].session
    BY DEF H, s
  <2> QED BY <1>2, <1>4, <1>5, <2>2, <2>4, <2>5, <2>6, GivenUp DEF h, k
<1>10. /\ \A x \in Files : i[x] = h[x] - c[x] - (IF last THEN d[x] ELSE 0)
  <2> SUFFICES ASSUME NEW x \in Files  PROVE i[x] = h[x] - c[x] - (IF last THEN d[x] ELSE 0)
    OBVIOUS
  <2>1. h[x] \in Nat /\ c[x] \in Nat /\ d[x] \in Nat
    BY <1>5
  <2>2. i[x] = IF last THEN (h[x] - c[x]) - d[x] ELSE h[x] - c[x]
    BY DEF Minus
  <2> QED BY <2>1, <2>2
<1>11. \A x \in Sessions : l[x] + (IF x = s THEN 1 ELSE 0) = k[x]
  <2>1. CASE s = None
    BY <1>5, <2>1, Names
  <2>2. CASE s # None
    <3>1. s \in Sessions /\ k[s] > 0
      BY <1>2, <2>2, MemberCounts DEF s, k
    <3> QED BY <1>5, <2>2, <3>1 DEF SetTo
  <2> QED BY <2>1, <2>2
<1> HIDE DEF i, l, H
<1>12. /\ task' \in [Tasks -> TaskType] /\ task'[t] = r /\ \A u \in Tasks \ {t} : task'[u] = task[u]
  BY <1>1, <1>2, <1>7 DEF SetTo
<1>13. FilesMove(t, B, i)
  <2> SUFFICES ASSUME NEW x \in Files
               PROVE  i[x] + TaskHolds(task[t], x) + TableHolds(table[B], x)
                        = h[x] + TaskHolds(task'[t], x) + TableHolds(table'[B], x)
    BY DEF FilesMove, h
  <2>1. TaskHolds(task'[t], x) = 0 /\ TaskHolds(task[t], x) = c[x]
    BY <1>6, <1>7, <1>12 DEF TaskHolds
  <2>2. h[x] \in Nat /\ c[x] \in Nat /\ d[x] \in Nat /\ i[x] \in Nat
    BY <1>5, <1>9
  <2>3. TableHolds(table[B], x) = TableHolds(table'[B], x) + (IF last THEN d[x] ELSE 0)
    BY <1>8
  <2>4. TableHolds(table[B], x) \in Nat /\ TableHolds(table'[B], x) \in Nat
    BY <1>2, <1>4, <1>8, HoldsType
  <2>5. i[x] = h[x] - c[x] - (IF last THEN d[x] ELSE 0)
    BY <1>10
  <2> QED BY <2>1, <2>2, <2>3, <2>4, <2>5
<1>14. SessionsMove(t, l)
  <2> SUFFICES ASSUME NEW x \in Sessions
               PROVE  l[x] + IsIn(task[t], x) + lost[x] = k[x] + IsIn(task'[t], x) + lost'[x]
    BY DEF SessionsMove, k
  <2>1. IsIn(task'[t], x) = 0 /\ IsIn(task[t], x) = (IF x = s THEN 1 ELSE 0)
    BY <1>2, <1>7, <1>12 DEF IsIn, s
  <2>2. l[x] + (IF x = s THEN 1 ELSE 0) = k[x] /\ k[x] \in Nat /\ l[x] \in Nat
    BY <1>5, <1>9, <1>11
  <2>3. lost'[x] = lost[x] /\ lost'[x] \in Nat
    BY <1>1, <1>2
  <2> QED BY <2>1, <2>2, <2>3
<1>15. UsersMove(t)
  <2> SUFFICES ASSUME NEW a \in Tables
               PROVE  table'[a].refs + Uses(task[t], a) = table[a].refs + Uses(task'[t], a)
    BY DEF UsersMove
  <2>1. Uses(task'[t], a) = 0 /\ Uses(task[t], a) = (IF a = b THEN 1 ELSE 0)
    BY <1>2, <1>7, <1>12 DEF Uses, b
  <2>2. table'[a].refs + (IF a = b THEN 1 ELSE 0) = table[a].refs /\ table[a].refs \in Nat
    BY <1>2, <1>8 DEF TableType
  <2> QED BY <2>1, <2>2
<1>16. CountInv'
  <2>1. Agrees(heap', i, l, fg') /\ WellFormed(task'[t])
    BY <1>1, <1>7, <1>9, <1>12
  <2> QED BY <1>2, <1>4, <1>8, <1>9, <1>12, <1>13, <1>14, <1>15, <2>1, MovedStep
<1>17. ReaderHolds => ReaderHolds'
  <2>1. ASSUME NEW u \in Tasks, NEW x \in Fds, ReaderHolds, task[u].reading # None
        PROVE  table'[task[u].files].fd[x] = table[task[u].files].fd[x]
    <3>1. task[u].status = "alive" /\ u # t
      BY <1>1, <2>1 DEF CountInv, Shape, WellFormed, Idle
    <3>2. task[u].files \in Tables /\ task'[u] = task[u]
      BY <1>2, <1>12, <2>1, <3>1 DEF ReaderHolds, TaskType
    <3>3. ASSUME last, task[u].files = b  PROVE FALSE
      <4>1. table'[b].refs = 0 /\ b \in Tables
        BY <1>1, <1>2, <1>3, <3>3 DEF last, NoTable
      <4>2. Users(task', b) = 0
        BY <1>16, <4>1 DEF CountInv, TablesCounted
      <4>3. Uses(task'[u], b) = 1 /\ \A v \in Tasks \ {u} : task'[v] = task'[v]
        BY <3>1, <3>2, <3>3 DEF Uses
      <4>4. Uses(task'[u], b) <= Users(task', b)
        BY <4>3, UsersMoved
      <4> QED BY <4>2, <4>3, <4>4
    <3> QED BY <1>8, <3>2, <3>3
  <2>2. task'[t].reading = None
    BY <1>7, <1>12
  <2> QED BY <1>12, <2>1, <2>2, ReadersElsewhere
<1> QED BY <1>9, <1>16, <1>17 DEF LinkInv

LEMMA SetsidStep ==
  ASSUME CountInv, NEW t \in Tasks, Setsid(t)
  PROVE  CountInv' /\ (LinkInv => LinkInv')
<1> DEFINE S == {x \in Sessions : heap.session[x].refs = 0}
           s == Min(S)
           old == task[t].session
           h == Held(task, table)
           k == Belong(task, lost)
           l == SetTo(k, s, 1)
           r == [task[t] EXCEPT !.session = s, !.pgid = t]
<1>1. /\ Linux(t) \/ Idle(t)
      /\ S # {}
      /\ heap' = Founded(heap, s, t)
      /\ task' = [task EXCEPT ![t].session = s, ![t].pgid = t]
      /\ lost' = IF old = None THEN lost ELSE [lost EXCEPT ![old] = @ + 1]
      /\ UNCHANGED <<table, fg, calls>>
  <2>1. \E x \in Sessions : heap.session[x].refs = 0
    BY DEF Setsid
  <2> QED BY <2>1 DEF Setsid, Founded
<1>2. /\ task[t].status = "alive"
      /\ task \in [Tasks -> TaskType] /\ table \in [Tables -> TableType] /\ WellFormed(task[t])
      /\ fg' \in Ttys /\ lost \in [Sessions -> Nat] /\ calls' \in 0 .. MaxCalls
      /\ task[t] \in TaskType
  BY <1>1 DEF Linux, Calls, Idle, CountInv, VarsType, Shape
<1>3. s \in Sessions /\ heap.session[s].refs = 0
  <2>1. S \in SUBSET Nat
    BY DEF Sessions
  <2>2. s \in S
    BY <1>1, <2>1, MinFacts
  <2> QED BY <2>2
<1> HIDE DEF S, s
<1>4. /\ h \in [Files -> Nat] /\ k \in [Sessions -> Nat] /\ fg \in Ttys /\ Agrees(heap, h, k, fg)
      /\ old # None => old \in Sessions /\ k[old] > 0
  BY <1>2, CountsType, MemberCounts DEF CountInv, VarsType, HeapCounted
<1>5. old \in Sessions \union {None}
  BY <1>2 DEF TaskType
<1> HIDE DEF old, h, k
<1>6. k[s] = 0
  BY <1>3, <1>4 DEF Agrees
<1>7. /\ l \in [Sessions -> Nat] /\ l[s] = 1 /\ \A x \in Sessions \ {s} : l[x] = k[x]
  BY <1>3, <1>4 DEF SetTo
<1>8. Agrees(heap', h, l, fg) /\ (Linked(heap) => Linked(heap'))
  BY <1>1, <1>3, <1>4, <1>6, FoundedFacts
<1> HIDE DEF l
<1>9. /\ r \in TaskType /\ WellFormed(r) /\ r.status = "alive" /\ r.session = s
      /\ r.reading = task[t].reading /\ r.files = task[t].files /\ r.cwd = task[t].cwd
      /\ r.exe = task[t].exe /\ r.polled = task[t].polled
      /\ task' = SetTo(task, t, r)
  <2>1. t \in 0 .. NumTasks
    BY FilesAssumption DEF Tasks
  <2> QED BY <1>1, <1>2, <1>3, <2>1 DEF TaskType, WellFormed, SetTo
<1> HIDE DEF r
<1>10. /\ task' \in [Tasks -> TaskType] /\ task'[t] = r /\ \A u \in Tasks \ {t} : task'[u] = task[u]
       /\ 1 \in Tables /\ table' \in [Tables -> TableType]
       /\ \A a \in Tables \ {1} : table'[a] = table[a]
  BY <1>1, <1>2, <1>9, SomeOfEach DEF SetTo
<1>11. lost' \in [Sessions -> Nat]
       /\ \A x \in Sessions : lost'[x] = lost[x] + (IF x = old THEN 1 ELSE 0)
  <2>1. \A x \in Sessions : lost[x] \in Nat
    BY <1>2
  <2>2. CASE old = None
    BY <1>1, <1>2, <2>1, <2>2, Names
  <2>3. CASE old # None
    BY <1>1, <1>2, <1>4, <2>1, <2>3
  <2> QED BY <2>2, <2>3
<1>12. FilesMove(t, 1, h)
  <2>1. \A x \in Files : TaskHolds(task'[t], x) = TaskHolds(task[t], x)
    BY <1>2, <1>9, <1>10 DEF TaskHolds
  <2> QED BY <1>1, <2>1 DEF FilesMove, h
<1>13. SessionsMove(t, l)
  <2> SUFFICES ASSUME NEW x \in Sessions
               PROVE  l[x] + IsIn(task[t], x) + lost[x] = k[x] + IsIn(task'[t], x) + lost'[x]
    BY DEF SessionsMove, k
  <2>1. /\ IsIn(task'[t], x) = (IF x = s THEN 1 ELSE 0)
        /\ IsIn(task[t], x) = (IF x = old THEN 1 ELSE 0)
    BY <1>2, <1>9, <1>10 DEF IsIn, old
  <2>2. lost'[x] = lost[x] + (IF x = old THEN 1 ELSE 0) /\ lost[x] \in Nat /\ k[x] \in Nat
    BY <1>2, <1>4, <1>11
  <2>3. x = s => x # old
    BY <1>3, <1>4, <1>6, Names
  <2> QED BY <1>6, <1>7, <2>1, <2>2, <2>3
<1>14. UsersMove(t)
  <2>1. \A a \in Tables : Uses(task'[t], a) = Uses(task[t], a)
    BY <1>2, <1>9, <1>10 DEF Uses
  <2> QED BY <1>1, <2>1 DEF UsersMove
<1>15. CountInv'
  <2>1. Agrees(heap', h, l, fg') /\ WellFormed(task'[t])
    BY <1>1, <1>8, <1>9, <1>10
  <2> QED BY <1>2, <1>4, <1>7, <1>10, <1>11, <1>12, <1>13, <1>14, <2>1, MovedStep
<1>16. ReaderHolds => ReaderHolds'
  BY <1>1, <1>2, <1>9, ReaderStep
<1> QED BY <1>8, <1>15, <1>16 DEF LinkInv

\* The elements of a set of numbers, counted from the least.
Nth(S, x, i) == Cardinality({z \in S : z < x}) = i

LEMMA NthFirst ==
  ASSUME NEW S \in SUBSET Nat, IsFiniteSet(S), Cardinality(S) > 0
  PROVE  \E m \in S : /\ Nth(S, m, 0)
                      /\ IsFiniteSet(S \ {m}) /\ Cardinality(S \ {m}) = Cardinality(S) - 1
                      /\ \A x \in S \ {m}, i \in Nat : Nth(S \ {m}, x, i) => Nth(S, x, i + 1)
<1>1. S # {}
  BY FS_EmptySet
<1>2. PICK m \in S : \A y \in S : m <= y
  BY <1>1, LeastExists
<1>3. IsFiniteSet(S \ {m}) /\ Cardinality(S \ {m}) = Cardinality(S) - 1
  BY FS_RemoveElement
<1>4. Nth(S, m, 0)
  <2> DEFINE Z == {z \in S : z < m}
  <2>1. Z = {}
    <3>1. \A z \in S : z \in Nat /\ m \in Nat /\ m <= z
      BY <1>2
    <3>2. \A z \in S : ~(z < m)
      BY <3>1
    <3> QED BY <3>2
  <2>2. Cardinality(Z) = 0
    BY <2>1, FS_EmptySet
  <2> QED BY <2>2 DEF Nth
<1>5. ASSUME NEW x \in S \ {m}, NEW i \in Nat, Nth(S \ {m}, x, i)
      PROVE  Nth(S, x, i + 1)
  <2> DEFINE Z == {z \in S \ {m} : z < x}
  <2>1. {z \in S : z < x} = Z \union {m}
    BY <1>2
  <2>2. m \notin Z /\ IsFiniteSet(Z) /\ Cardinality(Z) = i
    BY <1>3, <1>5, FS_Subset DEF Nth
  <2> HIDE DEF Z
  <2>3. Cardinality(Z \union {m}) = Cardinality(Z) + 1
    BY <2>2, FS_AddElement
  <2> QED BY <2>1, <2>2, <2>3 DEF Nth
<1> QED BY <1>3, <1>4, <1>5

LEMMA NthExists ==
  ASSUME NEW S \in SUBSET Nat, IsFiniteSet(S), NEW i \in 0 .. 3, i < Cardinality(S)
  PROVE  \E x \in S : Nth(S, x, i)
<1> DEFINE Has(T, j) == \E x \in T : Nth(T, x, j)
<1>1. Cardinality(S) \in Nat
  BY FS_CardinalityType
<1>2. ASSUME NEW T \in SUBSET Nat, IsFiniteSet(T), Cardinality(T) > 0
      PROVE  /\ Has(T, 0)
             /\ \E U \in SUBSET Nat : /\ IsFiniteSet(U) /\ Cardinality(U) = Cardinality(T) - 1
                                      /\ \A j \in Nat : Has(U, j) => Has(T, j + 1)
  <2>1. PICK m \in T : /\ Nth(T, m, 0)
                       /\ IsFiniteSet(T \ {m}) /\ Cardinality(T \ {m}) = Cardinality(T) - 1
                       /\ \A x \in T \ {m}, j \in Nat : Nth(T \ {m}, x, j) => Nth(T, x, j + 1)
    BY <1>2, NthFirst
  <2>2. T \ {m} \in SUBSET Nat
    OBVIOUS
  <2> QED BY <2>1, <2>2
<1> HIDE DEF Has
<1>3. CASE i = 0
  BY <1>1, <1>2, <1>3 DEF Has
<1>4. CASE i > 0
  <2>1. PICK U \in SUBSET Nat : /\ IsFiniteSet(U) /\ Cardinality(U) = Cardinality(S) - 1
                                /\ \A j \in Nat : Has(U, j) => Has(S, j + 1)
    BY <1>1, <1>2, <1>4
  <2>2. CASE i = 1
    <3>1. Has(U, 0)
      BY <1>1, <1>2, <2>1, <2>2
    <3> QED BY <2>1, <2>2, <3>1 DEF Has
  <2>3. CASE i > 1
    <3>1. PICK V \in SUBSET Nat : /\ IsFiniteSet(V) /\ Cardinality(V) = Cardinality(U) - 1
                                  /\ \A j \in Nat : Has(V, j) => Has(U, j + 1)
      BY <1>1, <1>2, <2>1, <2>3
    <3>2. CASE i = 2
      <4>1. Has(V, 0)
        BY <1>1, <1>2, <2>1, <3>1, <3>2
      <4>2. Has(U, 1)
        BY <3>1, <4>1
      <4> QED BY <2>1, <3>2, <4>2 DEF Has
    <3>3. CASE i = 3
      <4>1. PICK W \in SUBSET Nat : /\ IsFiniteSet(W) /\ Cardinality(W) = Cardinality(V) - 1
                                    /\ \A j \in Nat : Has(W, j) => Has(V, j + 1)
        BY <1>1, <1>2, <2>1, <3>1, <3>3
      <4>2. Has(W, 0)
        BY <1>1, <1>2, <2>1, <3>1, <3>3, <4>1
      <4>3. Has(V, 1)
        BY <4>1, <4>2
      <4>4. Has(U, 2)
        BY <3>1, <4>3
      <4> QED BY <2>1, <3>3, <4>4 DEF Has
    <3> QED BY <2>3, <3>2, <3>3
  <2> QED BY <1>4, <2>2, <2>3
<1> QED BY <1>3, <1>4

LEMMA SlotBecomes ==
  ASSUME NEW fd \in [Fds -> Files \union {None}], NEW d \in Fds, NEW v, NEW new, new = SetTo(fd, d, v),
         NEW f \in Files
  PROVE  /\ In(fd, Fds)[f] \in Nat /\ In(new, Fds)[f] \in Nat
         /\ In(new, Fds)[f] + One(fd[d])[f] = In(fd, Fds)[f] + One(v)[f]
BY SlotChanged

\* The first three descriptors of a table that has no other.
LEMMA ThreeSlots ==
  ASSUME NEW u \in Files \union {None}, NEW v \in Files \union {None},
         NEW w \in Files \union {None}, NEW fd,
         fd = [d \in Fds |-> IF d = 0 THEN u ELSE IF d = 1 THEN v ELSE IF d = 2 THEN w ELSE None],
         NEW x \in Files
  PROVE  In(fd, Fds)[x] = One(u)[x] + One(v)[x] + One(w)[x]
<1> DEFINE a == [d \in Fds |-> None]
           b == SetTo(a, 0, u)
           c == SetTo(b, 1, v)
           e == SetTo(c, 2, w)
<1>1. 0 \in Fds /\ 1 \in Fds /\ 2 \in Fds
  BY FilesAssumption DEF Fds
<1>2. /\ a \in [Fds -> Files \union {None}] /\ a[0] = None
      /\ b \in [Fds -> Files \union {None}] /\ b[1] = None
      /\ c \in [Fds -> Files \union {None}] /\ c[2] = None
      /\ fd = e
      /\ b = SetTo(a, 0, u) /\ c = SetTo(b, 1, v) /\ e = SetTo(c, 2, w)
  BY <1>1 DEF SetTo
<1>3. In(a, Fds)[x] = 0
  BY InType, Names
<1>4. One(None)[x] = 0 /\ One(u)[x] \in Nat /\ One(v)[x] \in Nat /\ One(w)[x] \in Nat
  BY OneType, Names
<1> HIDE DEF a, b, c, e
<1>5. In(b, Fds)[x] + One(None)[x] = In(a, Fds)[x] + One(u)[x] /\ In(b, Fds)[x] \in Nat
  <2>1. a \in [Fds -> Files \union {None}] /\ a[0] = None /\ b = SetTo(a, 0, u) /\ 0 \in Fds
    BY <1>1, <1>2
  <2>2. In(b, Fds)[x] \in Nat /\ In(b, Fds)[x] + One(a[0])[x] = In(a, Fds)[x] + One(u)[x]
    BY <2>1, SlotBecomes
  <2> QED BY <2>1, <2>2
<1>6. In(c, Fds)[x] + One(None)[x] = In(b, Fds)[x] + One(v)[x] /\ In(c, Fds)[x] \in Nat
  BY <1>1, <1>2, SlotBecomes
<1>7. In(e, Fds)[x] + One(None)[x] = In(c, Fds)[x] + One(w)[x] /\ In(e, Fds)[x] \in Nat
  <2>1. c \in [Fds -> Files \union {None}] /\ c[2] = None /\ e = SetTo(c, 2, w) /\ 2 \in Fds
    BY <1>1, <1>2
  <2>2. In(e, Fds)[x] \in Nat /\ In(e, Fds)[x] + One(c[2])[x] = In(c, Fds)[x] + One(w)[x]
    BY <2>1, SlotBecomes
  <2> QED BY <2>1, <2>2
<1> QED BY <1>2, <1>3, <1>4, <1>5, <1>6, <1>7

\* The i-th of a set of numbers.
Picked(S, i) == CHOOSE x \in S : Nth(S, x, i)

LEMMA PickedFree ==
  ASSUME NEW i \in 0 .. 3, i < Cardinality(FreeFiles(heap))
  PROVE  Picked(FreeFiles(heap), i) \in FreeFiles(heap)
         /\ Nth(FreeFiles(heap), Picked(FreeFiles(heap), i), i)
<1>1. FreeFiles(heap) \in SUBSET Files
  BY DEF FreeFiles
<1>2. FreeFiles(heap) \in SUBSET Nat /\ IsFiniteSet(FreeFiles(heap))
  <2>1. Files \in SUBSET Nat
    BY DEF Files
  <2> QED BY <1>1, <2>1, RangesFinite, FS_Subset
<1>3. \E x \in FreeFiles(heap) : Nth(FreeFiles(heap), x, i)
  BY <1>2, NthExists
<1> QED BY <1>3 DEF Picked

LEMMA PickedApart ==
  ASSUME NEW i \in 0 .. 3, i < Cardinality(FreeFiles(heap)),
         NEW j \in 0 .. 3, j < Cardinality(FreeFiles(heap)), i # j
  PROVE  Picked(FreeFiles(heap), i) # Picked(FreeFiles(heap), j)
BY PickedFree DEF Nth

\* One more file, opened with c references.
Added(i, h, f, c) == \A x \in Files : i[x] = h[x] + (IF x = f THEN c ELSE 0)

LEMMA FileAdded ==
  ASSUME NEW H, NEW h \in [Files -> Nat], NEW k \in [Sessions -> Nat], NEW g \in Ttys,
         Agrees(H, h, k, g), task \in [Tasks -> TaskType], NEW t \in Tasks,
         NEW f \in Files, h[f] = 0, NEW c \in Nat \ {0}, NEW kind \in FileKinds \ {"none"}
  PROVE  \E i \in [Files -> Nat] :
           /\ Agrees(Opened(H, t, f, kind, c, TRUE), i, k, g)
           /\ Linked(H) => Linked(Opened(H, t, f, kind, c, TRUE))
           /\ Added(i, h, f, c)
<1>1. /\ Agrees(Opened(H, t, f, kind, c, TRUE), SetTo(h, f, c), k, g)
      /\ Linked(H) => Linked(Opened(H, t, f, kind, c, TRUE))
  BY OpenedFacts
<1>2. SetTo(h, f, c) \in [Files -> Nat] /\ Added(SetTo(h, f, c), h, f, c)
  BY DEF SetTo, Added
<1> QED BY <1>1, <1>2

\* The files that a kernel thread's exec opens: the program e, the directory w, and
\* the terminal's, u of its own count m and perhaps v.
ExecFirstOpens(t, e, w, u, v, y, m, two) ==
  LET H == Opened(Opened(heap, t, e, "other", 1, TRUE), t, w, "other", 1, TRUE)
      K == Opened(H, t, u, y, m, TRUE)
  IN  IF two THEN Opened(K, t, v, y, 1, TRUE) ELSE K

FourAdded(i, e, w, u, m, two, v) ==
  \A x \in Files : i[x] = Held(task, table)[x] + One(e)[x] + One(w)[x]
                         + (IF x = u THEN m ELSE 0) + (IF two /\ x = v THEN 1 ELSE 0)

LEMMA ExecFirstHeap ==
  ASSUME CountInv, NEW t \in Tasks, NEW y \in Ttys,
         NEW e \in FreeFiles(heap), NEW w \in FreeFiles(heap), NEW u \in FreeFiles(heap),
         e # w, e # u, w # u, NEW m \in Nat \ {0}, NEW two \in BOOLEAN, NEW v,
         two => v \in FreeFiles(heap) /\ v # e /\ v # w /\ v # u,
         NEW G, G = ExecFirstOpens(t, e, w, u, v, y, m, two)
  PROVE  \E i \in [Files -> Nat] :
           /\ Agrees(G, i, Belong(task, lost), fg)
           /\ Linked(heap) => Linked(G)
           /\ FourAdded(i, e, w, u, m, two, v)
<1> DEFINE h == Held(task, table)
           k == Belong(task, lost)
           H1 == Opened(heap, t, e, "other", 1, TRUE)
           H == Opened(H1, t, w, "other", 1, TRUE)
           K == Opened(H, t, u, y, m, TRUE)
<1>1. /\ h \in [Files -> Nat] /\ k \in [Sessions -> Nat] /\ fg \in Ttys
      /\ task \in [Tasks -> TaskType] /\ Agrees(heap, h, k, fg)
  BY CountsType DEF CountInv, VarsType, HeapCounted
<1>2. \A f \in FreeFiles(heap) : f \in Files /\ h[f] = 0
  BY FreeFile
<1>3. "other" \in FileKinds \ {"none"} /\ y \in FileKinds \ {"none"} /\ 1 \in Nat \ {0}
  BY Names DEF FileKinds
<1> HIDE DEF h, k
<1>4. PICK i1 \in [Files -> Nat] : /\ Agrees(H1, i1, k, fg) /\ (Linked(heap) => Linked(H1))
                                   /\ Added(i1, h, e, 1)
  BY <1>1, <1>2, <1>3, FileAdded
<1>5. /\ H = Opened(H1, t, w, "other", 1, TRUE) /\ K = Opened(H, t, u, y, m, TRUE)
      /\ G = IF two THEN Opened(K, t, v, y, 1, TRUE) ELSE K
  BY DEF ExecFirstOpens
<1> HIDE DEF H1, H, K
<1>6. PICK i2 \in [Files -> Nat] : /\ Agrees(H, i2, k, fg) /\ (Linked(H1) => Linked(H))
                                   /\ Added(i2, i1, w, 1)
  <2>1. w \in Files /\ i1[w] = 0
    BY <1>2, <1>4 DEF Added
  <2>2. \E i \in [Files -> Nat] :
          /\ Agrees(Opened(H1, t, w, "other", 1, TRUE), i, k, fg)
          /\ Linked(H1) => Linked(Opened(H1, t, w, "other", 1, TRUE))
          /\ Added(i, i1, w, 1)
    BY <1>1, <1>3, <1>4, <2>1, FileAdded
  <2> QED BY <1>5, <2>2
<1>7. PICK i3 \in [Files -> Nat] : /\ Agrees(K, i3, k, fg) /\ (Linked(H) => Linked(K))
                                   /\ Added(i3, i2, u, m)
  <2>1. u \in Files /\ i2[u] = 0
    BY <1>2, <1>4, <1>6 DEF Added
  <2>2. \E i \in [Files -> Nat] :
          /\ Agrees(Opened(H, t, u, y, m, TRUE), i, k, fg)
          /\ Linked(H) => Linked(Opened(H, t, u, y, m, TRUE))
          /\ Added(i, i2, u, m)
    BY <1>1, <1>3, <1>6, <2>1, FileAdded
  <2> QED BY <1>5, <2>2
<1>8. PICK i4 \in [Files -> Nat] :
        /\ Agrees(G, i4, k, fg) /\ (Linked(K) => Linked(G))
        /\ \A x \in Files : i4[x] = i3[x] + (IF two /\ x = v THEN 1 ELSE 0)
  <2>1. CASE two
    <3>1. v \in Files /\ i3[v] = 0 /\ G = Opened(K, t, v, y, 1, TRUE)
      BY <1>2, <1>4, <1>5, <1>6, <1>7, <2>1 DEF Added
    <3>2. \E i \in [Files -> Nat] :
            /\ Agrees(Opened(K, t, v, y, 1, TRUE), i, k, fg)
            /\ Linked(K) => Linked(Opened(K, t, v, y, 1, TRUE))
            /\ Added(i, i3, v, 1)
      BY <1>1, <1>3, <1>7, <3>1, FileAdded
    <3> QED BY <2>1, <3>1, <3>2 DEF Added
  <2>2. CASE ~two
    <3>1. \A x \in Files : i3[x] = i3[x] + (IF two /\ x = v THEN 1 ELSE 0)
      BY <2>2
    <3> QED BY <1>5, <1>7, <2>2, <3>1
  <2> QED BY <2>1, <2>2
<1>9. ASSUME NEW x \in Files
      PROVE  i4[x] = h[x] + One(e)[x] + One(w)[x]
                     + (IF x = u THEN m ELSE 0) + (IF two /\ x = v THEN 1 ELSE 0)
  <2>1. One(e)[x] = (IF x = e THEN 1 ELSE 0) /\ One(w)[x] = (IF x = w THEN 1 ELSE 0)
    BY OneType
  <2>2. h[x] \in Nat
    BY <1>1
  <2>3. i1[x] = h[x] + (IF x = e THEN 1 ELSE 0) /\ i2[x] = i1[x] + (IF x = w THEN 1 ELSE 0)
        /\ i3[x] = i2[x] + (IF x = u THEN m ELSE 0)
        /\ i4[x] = i3[x] + (IF two /\ x = v THEN 1 ELSE 0)
    BY <1>4, <1>6, <1>7, <1>8 DEF Added
  <2> QED BY <2>1, <2>2, <2>3
<1>10. FourAdded(i4, e, w, u, m, two, v)
  BY <1>9 DEF FourAdded, h
<1> QED BY <1>4, <1>6, <1>7, <1>8, <1>10 DEF k

LEMMA ExecFirstStep ==
  ASSUME CountInv, NEW t \in Tasks, NEW ece391 \in BOOLEAN, ExecFirst(t, ece391)
  PROVE  CountInv' /\ (LinkInv => LinkInv')
<1> DEFINE F  == FreeFiles(heap)
           y  == CurrentTty(t)
           e  == Picked(F, 0)
           w  == Picked(F, 1)
           u  == Picked(F, 2)
           v  == Picked(F, 3)
           m  == IF ece391 THEN 1 ELSE 3
           b  == Min({x \in Tables : table[x].refs = 0})
           H  == Opened(Opened(heap, t, e, "other", 1, TRUE), t, w, "other", 1, TRUE)
           K  == Opened(H, t, u, y, m, TRUE)
           u2 == IF ece391 THEN v ELSE u
           u3 == IF ece391 THEN None ELSE u
           fd == [d \in Fds |-> IF d = 0 THEN u ELSE IF d = 1 THEN u2 ELSE IF d = 2 THEN u3 ELSE None]
           row == [refs |-> 1, cloexec |-> {}, fd |-> fd]
           r  == [task[t] EXCEPT !.files = b, !.exe = e, !.cwd = w, !.mm = TRUE, !.ece391 = ece391]
           h  == Held(task, table)
           k  == Belong(task, lost)
<1>1. /\ Idle(t) /\ ~task[t].mm /\ task[t].files = None /\ y # "none"
      /\ Cardinality(F) >= (IF ece391 THEN 4 ELSE 3) /\ \E x \in Tables : table[x].refs = 0
      /\ heap' = IF ece391 THEN Opened(K, t, v, y, 1, TRUE) ELSE K
      /\ task' = SetTo(task, t, r)
      /\ UNCHANGED <<fg, lost, calls>>
  <2>1. /\ Idle(t) /\ ~task[t].mm /\ task[t].files = None /\ y # "none"
        /\ \E x \in Tables : table[x].refs = 0
        /\ UNCHANGED <<fg, lost, calls>>
    BY Zenon DEF ExecFirst
  <2>2. Cardinality(F) >= (IF ece391 THEN 2 ELSE 1) + 2
    BY Zenon DEF ExecFirst
  <2>3. heap' = IF ece391 THEN Opened(K, t, v, y, 1, TRUE) ELSE K
    <3>1. CASE ece391
      BY <3>1, Zenon DEF ExecFirst, Picked, Nth
    <3>2. CASE ~ece391
      BY <3>2, Zenon DEF ExecFirst, Picked, Nth
    <3> QED BY <3>1, <3>2
  <2>4. task' = SetTo(task, t, r)
    <3>1. task' = [task EXCEPT ![t].files = b, ![t].exe = e, ![t].cwd = w,
                               ![t].mm = TRUE, ![t].ece391 = ece391]
      BY Zenon DEF ExecFirst, Picked, Nth
    <3> HIDE DEF b, e, w
    <3> QED BY <3>1 DEF SetTo
  <2> HIDE DEF F, H, K, y, r
  <2> QED BY <2>1, <2>2, <2>3, <2>4
<1>2. table' = SetTo(table, b, row)
  <2>1. table' = [table EXCEPT ![b] =
           [refs |-> 1, cloexec |-> {},
            fd |-> [d \in Fds |-> CASE ece391 /\ d < 2 -> Picked(F, 2 + d)
                                    [] ~ece391 /\ d < 3 -> u
                                    [] OTHER -> None]]]
    BY Zenon DEF ExecFirst, Picked, Nth
  <2>2. \A d \in Fds : d \in Nat
    BY DEF Fds
  <2>3. ASSUME NEW d \in Fds
        PROVE  (CASE ece391 /\ d < 2 -> Picked(F, 2 + d)
                  [] ~ece391 /\ d < 3 -> u
                  [] OTHER -> None) = fd[d]
    <3> HIDE DEF F
    <3>1. d = 0 \/ d = 1 \/ d = 2 \/ d > 2
      BY <2>2
    <3>2. Picked(F, 2 + 0) = u /\ Picked(F, 2 + 1) = v
      OBVIOUS
    <3> HIDE DEF u, v
    <3>3. CASE d = 0
      BY <3>2, <3>3
    <3>4. CASE d = 1
      BY <3>2, <3>4
    <3>5. CASE d = 2
      BY <3>5
    <3>6. CASE d > 2
      BY <2>2, <3>6
    <3> QED BY <3>1, <3>3, <3>4, <3>5, <3>6
  <2> QED BY <2>1, <2>3 DEF SetTo

<1>3. /\ task[t].status = "alive" /\ task[t].reading = None
      /\ \A d \in Fds : task[t].polled[d] = None
      /\ task \in [Tasks -> TaskType] /\ table \in [Tables -> TableType]
      /\ task[t] \in TaskType /\ WellFormed(task[t])
      /\ fg' \in Ttys /\ lost' \in [Sessions -> Nat] /\ calls' \in 0 .. MaxCalls
  BY <1>1 DEF Idle, CountInv, VarsType, Shape
<1>4. y \in Ttys
  <2>1. heap \in HeapType
    BY DEF CountInv, HeapCounted, Agrees
  <2>2. task[t].session \in Sessions \union {None}
    BY <1>3 DEF TaskType
  <2> QED BY <1>1, <2>1, <2>2 DEF CurrentTty, HeapType, SessionType
<1>5. F \in SUBSET Files
  BY DEF FreeFiles
<1>6. /\ e \in F /\ w \in F /\ u \in F /\ e # w /\ e # u /\ w # u
      /\ ece391 => v \in F /\ v # e /\ v # w /\ v # u
  <2>1. Cardinality(F) \in Nat
    BY <1>5, RangesFinite, Countable
  <2> QED BY <1>1, <2>1, PickedFree, PickedApart
<1>7. b \in Tables /\ table[b].refs = 0
  <2> DEFINE room == {x \in Tables : table[x].refs = 0}
  <2>1. room \in SUBSET Nat /\ room # {}
    BY <1>1 DEF Tables
  <2>2. Min(room) \in room
    BY <2>1, MinFacts
  <2> QED BY <2>2
<1>8. m \in Nat \ {0}
  OBVIOUS
<1> HIDE DEF F, e, w, u, v, b, y, m
<1>9. PICK i \in [Files -> Nat] :
        /\ Agrees(heap', i, k, fg) /\ (Linked(heap) => Linked(heap'))
        /\ \A x \in Files :
             i[x] = h[x] + One(e)[x] + One(w)[x]
                    + (IF x = u THEN m ELSE 0) + (IF ece391 /\ x = v THEN 1 ELSE 0)
  <2>1. /\ e \in FreeFiles(heap) /\ w \in FreeFiles(heap) /\ u \in FreeFiles(heap)
        /\ e # w /\ e # u /\ w # u
        /\ ece391 => v \in FreeFiles(heap) /\ v # e /\ v # w /\ v # u
    BY <1>6 DEF F
  <2>2. heap' = ExecFirstOpens(t, e, w, u, v, y, m, ece391)
    BY <1>1 DEF ExecFirstOpens
  <2>3. \E i \in [Files -> Nat] :
          /\ Agrees(heap', i, Belong(task, lost), fg)
          /\ Linked(heap) => Linked(heap')
          /\ FourAdded(i, e, w, u, m, ece391, v)
    BY <1>4, <1>8, <2>1, <2>2, ExecFirstHeap
  <2> QED BY <2>3 DEF FourAdded, h, k
<1> HIDE DEF H, K
<1>10. /\ u \in Files \union {None} /\ u2 \in Files \union {None} /\ u3 \in Files \union {None}
       /\ e \in Files /\ w \in Files
  BY <1>5, <1>6
<1>11. \A x \in Files : In(fd, Fds)[x] = One(u)[x] + One(u2)[x] + One(u3)[x]
  BY <1>10, ThreeSlots
<1>12. \A x \in Files : In(fd, Fds)[x] = (IF x = u THEN m ELSE 0) + (IF ece391 /\ x = v THEN 1 ELSE 0)
  <2> TAKE x \in Files
  <2>1. One(None)[x] = 0 /\ One(u)[x] = (IF x = u THEN 1 ELSE 0) /\ One(v)[x] = (IF x = v THEN 1 ELSE 0)
    BY OneType, Names
  <2>2. CASE ece391
    <3>1. In(fd, Fds)[x] = One(u)[x] + One(v)[x] + One(None)[x] /\ m = 1
      BY <1>11, <2>2 DEF m
    <3> QED BY <2>1, <2>2, <3>1
  <2>3. CASE ~ece391
    <3>1. In(fd, Fds)[x] = One(u)[x] + One(u)[x] + One(u)[x] /\ m = 3
      BY <1>11, <2>3 DEF m
    <3> QED BY <2>1, <2>3, <3>1
  <2> QED BY <2>2, <2>3
<1>13. fd \in [Fds -> Files \union {None}]
  BY <1>10
<1> HIDE DEF fd, u2, u3
<1>14. row \in TableType /\ row.refs = 1 /\ row.fd = fd
  BY <1>13 DEF TableType
<1> HIDE DEF row
<1>15. /\ table' \in [Tables -> TableType] /\ table'[b] = row
       /\ \A a \in Tables \ {b} : table'[a] = table[a]
  BY <1>2, <1>3, <1>7, <1>14 DEF SetTo
<1>16. r \in TaskType /\ WellFormed(r) /\ r.reading = None /\ r.session = task[t].session
       /\ r.files = b /\ r.status = "alive" /\ r.cwd = w /\ r.exe = e /\ r.polled = task[t].polled
  <2>1. b # None
    BY <1>7, Names
  <2>2. r \in TaskType /\ r.reading = None /\ r.session = task[t].session /\ r.mm
        /\ r.files = b /\ r.status = "alive" /\ r.cwd = w /\ r.exe = e /\ r.polled = task[t].polled
    <3>1. /\ r \in TaskType /\ r.files = b /\ r.execing = task[t].execing /\ r.mm
          /\ r.reading = task[t].reading /\ r.session = task[t].session /\ r.status = task[t].status
          /\ r.cwd = w /\ r.exe = e /\ r.polled = task[t].polled
      <4>1. r = Started(task[t], b, e, w, ece391)
        BY DEF Started
      <4> HIDE DEF r
      <4>2. r \in TaskType /\ StartedAs(r, task[t], b, e, w)
        BY <1>3, <1>7, <1>10, <4>1, StartedFields
      <4> QED BY <4>2 DEF StartedAs
    <3> QED BY <1>3, <3>1
  <2> HIDE DEF r
  <2> QED BY <2>1, <2>2 DEF WellFormed
<1> HIDE DEF r
<1>17. /\ task' \in [Tasks -> TaskType] /\ task'[t] = r /\ \A a \in Tasks \ {t} : task'[a] = task[a]
  BY <1>1, <1>3, <1>16 DEF SetTo
<1>18. h \in [Files -> Nat] /\ k \in [Sessions -> Nat]
  BY CountsType DEF CountInv
<1>19. /\ task[t].cwd = None /\ task[t].exe = None
  BY <1>1, <1>3 DEF WellFormed
<1> HIDE DEF h, k
<1>20. FilesMove(t, b, i)
  <2> SUFFICES ASSUME NEW x \in Files
               PROVE  i[x] + TaskHolds(task[t], x) + TableHolds(table[b], x)
                        = h[x] + TaskHolds(task'[t], x) + TableHolds(table'[b], x)
    BY DEF FilesMove, h
  <2>1. In(task[t].polled, Fds)[x] = 0
    BY <1>3, InType, Names
  <2>2. One(None)[x] = 0 /\ One(e)[x] \in Nat /\ One(w)[x] \in Nat
    BY OneType, Names
  <2>3. TaskHolds(task[t], x) = 0 /\ TaskHolds(task'[t], x) = One(w)[x] + One(e)[x]
    BY <1>3, <1>16, <1>17, <1>19, <2>1, <2>2 DEF TaskHolds
  <2>4. TableHolds(table[b], x) = 0 /\ TableHolds(table'[b], x) = In(fd, Fds)[x]
    BY <1>7, <1>14, <1>15 DEF TableHolds
  <2>5. In(fd, Fds)[x] \in Nat
    BY InType
  <2>6. i[x] = h[x] + One(e)[x] + One(w)[x] + In(fd, Fds)[x]
    <3>1. (IF x = u THEN m ELSE 0) \in Nat /\ (IF ece391 /\ x = v THEN 1 ELSE 0) \in Nat
      BY <1>8
    <3>2. h[x] \in Nat
      BY <1>18
    <3> QED BY <1>9, <1>12, <2>2, <3>1, <3>2
  <2>7. h[x] \in Nat
    BY <1>18
  <2> QED BY <2>2, <2>3, <2>4, <2>5, <2>6, <2>7
<1>21. SessionsMove(t, k)
  <2>1. \A x \in Sessions : IsIn(task'[t], x) = IsIn(task[t], x)
    BY <1>3, <1>16, <1>17 DEF IsIn
  <2>2. lost' = lost
    BY <1>1
  <2> QED BY <2>1, <2>2 DEF SessionsMove, k
<1>22. UsersMove(t)
  <2> SUFFICES ASSUME NEW a \in Tables
               PROVE  table'[a].refs + Uses(task[t], a) = table[a].refs + Uses(task'[t], a)
    BY DEF UsersMove
  <2>1. Uses(task'[t], a) = (IF a = b THEN 1 ELSE 0) /\ Uses(task[t], a) = 0
    BY <1>1, <1>3, <1>16, <1>17, Names DEF Uses
  <2>2. table'[a].refs = table[a].refs + (IF a = b THEN 1 ELSE 0) /\ table[a].refs \in Nat
    BY <1>3, <1>7, <1>14, <1>15 DEF TableType
  <2> QED BY <2>1, <2>2
<1>23. CountInv'
  <2>1. Agrees(heap', i, k, fg') /\ WellFormed(task'[t])
    BY <1>1, <1>9, <1>16, <1>17
  <2> QED BY <1>3, <1>7, <1>9, <1>15, <1>17, <1>18, <1>20, <1>21, <1>22, <2>1, MovedStep
<1>24. ReaderHolds => ReaderHolds'
  <2>1. ASSUME NEW a \in Tasks, NEW d \in Fds, ReaderHolds, task[a].reading # None
        PROVE  table'[task[a].files].fd[d] = table[task[a].files].fd[d]
    <3>1. task[a].status = "alive"
      BY <2>1 DEF CountInv, Shape, WellFormed
    <3>2. task[a].files # None
      BY <2>1 DEF ReaderHolds
    <3>3. task[a].files \in Tables /\ table[task[a].files].refs > 0
      BY <3>1, <3>2, TableOf
    <3>4. task[a].files # b
      BY <1>7, <3>3
    <3> QED BY <1>15, <3>3, <3>4
  <2>2. task'[t].reading = None
    BY <1>16, <1>17
  <2> QED BY <1>17, <2>1, <2>2, ReadersElsewhere
<1> QED BY <1>9, <1>23, <1>24 DEF LinkInv

-----------------------------------------------------------------------------
(* The invariant. *)

LEMMA CountsAtFirst ==
  ASSUME FilesInit
  PROVE  CountInv /\ LinkInv
<1>1. /\ task = [t \in Tasks |-> IF t = 1 THEN [NoTask EXCEPT !.status = "alive"] ELSE NoTask]
      /\ table = [b \in Tables |-> NoTable]
      /\ heap = [file    |-> [f \in Files |-> NoFile],
                 tty     |-> [y \in Ttys |-> IF y = Console THEN [NoTty EXCEPT !.refs = 1] ELSE NoTty],
                 session |-> [s \in Sessions |-> NoSession],
                 port    |-> [p \in Ports |-> None]]
      /\ fg = Console /\ lost = [s \in Sessions |-> 0] /\ calls = 0
  BY DEF FilesInit
<1> DEFINE first == [NoTask EXCEPT !.status = "alive"]
<1>2. NoTask \in TaskType /\ first \in TaskType /\ NoTable \in TableType
  <2>1. 0 \in 0 .. NumTasks /\ 0 \in Nat
    BY FilesAssumption
  <2> QED BY <2>1 DEF NoTask, NoTable, TaskType, TableType
<1>3. /\ \A t \in Tasks : task[t] = IF t = 1 THEN first ELSE NoTask
      /\ \A b \in Tables : table[b] = NoTable
      /\ \A f \in Files : heap.file[f] = NoFile
      /\ \A s \in Sessions : heap.session[s] = NoSession /\ lost[s] = 0
      /\ \A p \in Ports : heap.port[p] = None
  BY <1>1
<1>4. VarsType
  BY <1>1, <1>2, Names, FilesAssumption DEF VarsType
<1>5. Shape
  <2>1. WellFormed(NoTask) /\ WellFormed(first)
    BY DEF WellFormed, NoTask
  <2> QED BY <1>3, <2>1 DEF Shape
<1>6. \A t \in Tasks : /\ task[t].files = None /\ task[t].cwd = None /\ task[t].exe = None
                       /\ task[t].session = None /\ task[t].reading = None
                       /\ \A d \in Fds : task[t].polled[d] = None
  BY <1>3 DEF NoTask
<1>7. TablesCounted
  <2>1. ASSUME NEW b \in Tables
        PROVE  table[b].refs = Users(task, b)
    <3>1. {t \in Living(task) : task[t].files = b} = {}
      BY <1>6, Names DEF Living
    <3>2. Users(task, b) = 0
      BY <3>1, FS_EmptySet DEF Users
    <3> QED BY <1>3, <3>2 DEF NoTable
  <2> QED BY <2>1 DEF TablesCounted
<1>8. ASSUME NEW f \in Files
      PROVE  Held(task, table)[f] = 0
  <2>1. /\ {t \in Living(task) : task[t].cwd = f} = {} /\ {t \in Living(task) : task[t].exe = f} = {}
        /\ {p \in Living(task) \X Fds : task[p[1]].polled[p[2]] = f} = {}
    BY <1>6, Names DEF Living
  <2>2. {p \in Tables \X Fds : table[p[1]].refs > 0 /\ table[p[1]].fd[p[2]] = f} = {}
    <3>1. \A b \in Tables : ~(table[b].refs > 0)
      BY <1>3 DEF NoTable
    <3>2. \A p \in Tables \X Fds : p[1] \in Tables
      OBVIOUS
    <3> QED BY <3>1, <3>2
  <2>3. TasksHold(task, f) = 0
    <3>1. /\ Cardinality({t \in Living(task) : task[t].cwd = f}) = 0
          /\ Cardinality({t \in Living(task) : task[t].exe = f}) = 0
      BY <2>1, FS_EmptySet
    <3>2. Cardinality({p \in Living(task) \X Fds : task[p[1]].polled[p[2]] = f}) = 0
      BY <2>1, FS_EmptySet
    <3> QED BY <3>1, <3>2 DEF TasksHold
  <2>4. TablesHold(table, f) = 0
    BY <2>2, FS_EmptySet DEF TablesHold
  <2> QED BY <2>3, <2>4 DEF Held
<1>9. ASSUME NEW s \in Sessions
      PROVE  Belong(task, lost)[s] = 0
  <2>1. {t \in Living(task) : task[t].session = s} = {}
    BY <1>6, Names DEF Living
  <2>2. Members(task, s) = 0
    BY <2>1, FS_EmptySet DEF Members
  <2> QED BY <1>3, <2>2 DEF Belong
<1>10. heap \in HeapType
  <2>1. NoFile \in FileType /\ NoSession \in SessionType /\ NoTty \in TtyType
        /\ [NoTty EXCEPT !.refs = 1] \in TtyType
    BY DEF NoFile, NoSession, NoTty, FileType, SessionType, TtyType, FileKinds
  <2> QED BY <1>1, <2>1 DEF HeapType
<1>11. ASSUME NEW y \in Ttys
       PROVE  heap.tty[y].refs = TtyUses(heap, fg, y) /\ heap.tty[y].session = None
  <2>1. OfKind(heap, y) = {} /\ OfTty(heap, y) = {}
    BY <1>3, Names DEF OfKind, OfTty, NoFile, NoSession
  <2>2. TtyUses(heap, fg, y) = IF fg = y THEN 1 ELSE 0
    BY <2>1, FS_EmptySet DEF TtyUses
  <2>3. heap.tty[y].refs = (IF y = Console THEN 1 ELSE 0) /\ heap.tty[y].session = None
    BY <1>1 DEF NoTty
  <2> QED BY <1>1, <2>2, <2>3
<1>12. HeapCounted
  BY <1>3, <1>8, <1>9, <1>10, <1>11 DEF HeapCounted, Agrees, NoFile, NoSession
<1>13. Linked(heap)
  BY <1>3, <1>11, Names DEF Linked, NoFile, NoSession
<1>14. ReaderHolds
  BY <1>6 DEF ReaderHolds
<1> QED BY <1>4, <1>5, <1>7, <1>12, <1>13, <1>14 DEF CountInv, LinkInv

LEMMA CountsNext ==
  ASSUME CountInv, [FilesNext]_filesvars
  PROVE  CountInv' /\ (Misuse = {} /\ LinkInv => LinkInv')
<1>1. CASE UNCHANGED filesvars
  BY <1>1 DEF filesvars, CountInv, LinkInv, VarsType, Shape, TablesCounted, HeapCounted, ReaderHolds
<1>2. ASSUME NEW t \in Tasks, \/ OpenFile(t) \/ Chdir(t) \/ ReadReturns(t) \/ PollSleeps(t)
                              \/ PollReturns(t) \/ Exit(t) \/ Reap(t) \/ Setsid(t)
      PROVE  CountInv' /\ (LinkInv => LinkInv')
  BY <1>2, OpenFileStep, ChdirStep, ReadReturnsStep, PollSleepsStep, PollReturnsStep, ExitStep,
     ReapStep, SetsidStep
<1>3. ASSUME NEW t \in Tasks, NEW d \in Fds, CloseFile(t, d) \/ ReadSleeps(t, d)
      PROVE  CountInv' /\ (Misuse = {} /\ LinkInv => LinkInv')
  BY <1>3, CloseFileStep, ReadSleepsStep
<1>4. ASSUME NEW t \in Tasks, NEW d \in Fds, NEW e \in Fds, Dup2(t, d, e)
      PROVE  CountInv' /\ (Misuse = {} /\ LinkInv => LinkInv')
  BY <1>4, Dup2Step
<1>5. ASSUME NEW t \in Tasks, NEW d \in Fds, NEW e, NEW cloexec \in BOOLEAN, DupFd(t, d, e, cloexec)
      PROVE  CountInv' /\ (LinkInv => LinkInv')
  BY <1>5, DupFdStep
<1>6. ASSUME NEW t \in Tasks, NEW d \in Fds, NEW cloexec \in BOOLEAN, SetFd(t, d, cloexec)
      PROVE  CountInv' /\ (LinkInv => LinkInv')
  BY <1>6, SetFdStep
<1>7. ASSUME NEW t \in Tasks, NEW d \in Fds, NEW p \in Ports \union {0}, Bind(t, d, p)
      PROVE  CountInv' /\ (Misuse = {} /\ LinkInv => LinkInv')
  BY <1>7, BindStep
<1>8. ASSUME NEW t \in Tasks, NEW cloexec \in BOOLEAN, Socket(t, cloexec)
      PROVE  CountInv' /\ (LinkInv => LinkInv')
  BY <1>8, SocketStep
<1>9. ASSUME NEW t \in Tasks, NEW share \in BOOLEAN, Clone(t, share)
      PROVE  CountInv' /\ (LinkInv => LinkInv')
  BY <1>9, CloneStep
<1>10. ASSUME NEW t \in Tasks, NEW ece391 \in BOOLEAN, Exec(t, ece391) \/ ExecFirst(t, ece391)
       PROVE  CountInv' /\ (Misuse = {} /\ LinkInv => LinkInv')
  BY <1>10, ExecStep, ExecFirstStep
<1>11. ASSUME NEW t \in Tasks, NEW u \in Tasks, NEW g \in Tasks, Setpgid(t, u, g)
       PROVE  CountInv' /\ (LinkInv => LinkInv')
  BY <1>11, SetpgidStep
<1>12. ASSUME NEW t \in Tasks, NEW y \in Ttys, TtyOpensOnce(t, y)
       PROVE  CountInv' /\ (LinkInv => LinkInv')
  BY <1>12, TtyOpensOnceStep
<1>13. ASSUME NEW y \in Ttys, SwitchForeground(y)
       PROVE  CountInv' /\ (LinkInv => LinkInv')
  BY <1>13, SwitchForegroundStep
<1>14. CASE FilesNext
  BY <1>2, <1>3, <1>4, <1>5, <1>6, <1>7, <1>8, <1>9, <1>10, <1>11, <1>12, <1>13, <1>14 DEF FilesNext
<1> QED BY <1>1, <1>14

-----------------------------------------------------------------------------
(* What follows from it. *)

\* Every count is the number of its holders.
LEMMA InvGivesCounts ==
  ASSUME CountInv
  PROVE  CountsMatch
<1>1. Living(task) = Alive
  BY DEF Living, Alive
<1>2. ASSUME NEW f \in Files
      PROVE  heap.file[f].refs = Holders(f)
  <2>1. heap.file[f].refs = TasksHold(task, f) + TablesHold(table, f)
    BY DEF CountInv, HeapCounted, Agrees, Held
  <2> DEFINE c == Cardinality({t \in Alive : task[t].cwd = f})
             x == Cardinality({t \in Alive : task[t].exe = f})
             p == Cardinality({q \in Alive \X Fds : task[q[1]].polled[q[2]] = f})
             o == Cardinality({q \in Tables \X Fds : table[q[1]].refs > 0 /\ table[q[1]].fd[q[2]] = f})
  <2>2. TasksHold(task, f) = c + x + p /\ TablesHold(table, f) = o
    BY <1>1 DEF TasksHold, TablesHold
  <2>3. Holders(f) = c + x + o + p
    BY DEF Holders
  <2>4. c \in Nat /\ x \in Nat /\ p \in Nat /\ o \in Nat
    <3>1. /\ {t \in Alive : task[t].cwd = f} \in SUBSET Tasks
          /\ {t \in Alive : task[t].exe = f} \in SUBSET Tasks
          /\ {q \in Alive \X Fds : task[q[1]].polled[q[2]] = f} \in SUBSET (Tasks \X Fds)
          /\ {q \in Tables \X Fds : table[q[1]].refs > 0 /\ table[q[1]].fd[q[2]] = f}
               \in SUBSET (Tables \X Fds)
      BY DEF Alive
    <3>2. IsFiniteSet(Tasks) /\ IsFiniteSet(Tasks \X Fds) /\ IsFiniteSet(Tables \X Fds)
      BY RangesFinite, FS_Product
    <3> QED BY <3>1, <3>2, Countable
  <2> HIDE DEF c, x, p, o
  <2> QED BY <2>1, <2>2, <2>3, <2>4
<1>3. \A b \in Tables : table[b].refs = Cardinality({t \in Alive : task[t].files = b})
  BY <1>1 DEF CountInv, TablesCounted, Users
<1>4. \A y \in Ttys :
        heap.tty[y].refs = Cardinality({f \in Files : heap.file[f].kind = y})
          + Cardinality({s \in Sessions : heap.session[s].tty = y}) + (IF fg = y THEN 1 ELSE 0)
  BY DEF CountInv, HeapCounted, Agrees, TtyUses, OfKind, OfTty
<1>5. \A s \in Sessions :
        heap.session[s].refs = Cardinality({t \in Alive : task[t].session = s}) + lost[s]
  BY <1>1 DEF CountInv, HeapCounted, Agrees, Belong, Members
<1> QED BY <1>2, <1>3, <1>4, <1>5 DEF CountsMatch

LEMMA InvGivesType ==
  ASSUME CountInv
  PROVE  FilesTypeOK
<1>1. VarsType /\ heap \in HeapType
  BY DEF CountInv, HeapCounted, Agrees
<1>2. ASSUME NEW b \in Tables
      PROVE  table[b].refs \in 0 .. NumTasks
  <2>1. \A u \in Tasks \ {1} : task[u] = task[u]
    OBVIOUS
  <2>2. Users(task, b) \in 0 .. NumTasks
    BY <2>1, SomeOfEach, UsersMoved
  <2> QED BY <2>2 DEF CountInv, TablesCounted
<1>3. table \in [Tables -> [refs : 0 .. NumTasks, fd : [Fds -> Files \union {None}],
                            cloexec : SUBSET Fds]]
  <2>1. table \in [Tables -> TableType]
    BY <1>1 DEF VarsType
  <2>2. ASSUME NEW b \in Tables
        PROVE  table[b] \in [refs : 0 .. NumTasks, fd : [Fds -> Files \union {None}],
                             cloexec : SUBSET Fds]
    BY <1>2, <2>1 DEF TableType
  <2> QED BY <2>1, <2>2
<1>4. /\ heap.file \in [Files -> [refs : Nat, kind : FileKinds, port : Ports \union {0}]]
      /\ heap.tty \in [Ttys -> [refs : Nat, session : Sessions \union {None}]]
      /\ heap.session \in [Sessions -> [refs : Nat, sid : Tasks \union {None},
                                        tty : Ttys \union {"none"}]]
      /\ heap.port \in [Ports -> Files \union {None}]
  BY <1>1 DEF HeapType, FileType, TtyType, SessionType
<1>5. /\ task \in [Tasks -> TaskType] /\ fg \in Ttys /\ lost \in [Sessions -> Nat]
      /\ calls \in 0 .. MaxCalls
  BY <1>1 DEF VarsType
<1> QED BY <1>3, <1>4, <1>5 DEF FilesTypeOK, TaskType

LEMMA InvGivesLinks ==
  ASSUME CountInv, LinkInv
  PROVE  NothingDangles
<1>1. Linked(heap) /\ ReaderHolds
  BY DEF LinkInv
<1>2. ASSUME NEW t \in Alive, task[t].reading # None
      PROVE  heap.file[task[t].reading].refs > 0
  <2>1. t \in Tasks /\ task[t].status = "alive"
    BY DEF Alive
  <2>2. PICK d \in Fds : task[t].files # None /\ table[task[t].files].fd[d] = task[t].reading
    BY <1>1, <1>2, <2>1 DEF ReaderHolds
  <2>3. Descriptors(t)[d] = task[t].reading
    BY <2>2 DEF Descriptors
  <2>4. task[t].reading \in Files /\ Held(task, table)[task[t].reading] > 0
    BY <1>2, <2>1, <2>2, <2>3, TableOf
  <2> QED BY <2>4 DEF CountInv, HeapCounted, Agrees
<1> QED BY <1>1, <1>2 DEF Linked, NothingDangles

-----------------------------------------------------------------------------
(* Theorems. *)

\* In every state the kernel's counts are the numbers of those who hold a
\* reference: of each open file, descriptor table, terminal and session, whatever
\* order the calls come in, the three misuses included.
THEOREM FilesCounted == FilesSpec => []CountsMatch
<1>1. FilesInit => CountInv
  BY CountsAtFirst
<1>2. CountInv /\ [FilesNext]_filesvars => CountInv'
  BY CountsNext
<1>3. CountInv => CountsMatch
  BY InvGivesCounts
<1> QED BY <1>1, <1>2, <1>3, PTL DEF FilesSpec

\* Tasks, tables and counted objects keep their types: no count falls below zero,
\* and no table has more users than there are tasks.
THEOREM FilesTypeCorrect == FilesSpec => []FilesTypeOK
<1>1. FilesInit => CountInv
  BY CountsAtFirst
<1>2. CountInv /\ [FilesNext]_filesvars => CountInv'
  BY CountsNext
<1>3. CountInv => FilesTypeOK
  BY InvGivesType
<1> QED BY <1>1, <1>2, <1>3, PTL DEF FilesSpec

\* As long as no program does what the code does not guard against, no pointer that
\* is not counted outlives what it points at: a sleeping reader's file, a port's
\* socket, a terminal's session.
THEOREM FilesLinked ==
  ASSUME Misuse = {}
  PROVE  FilesSpec => []NothingDangles
<1>1. FilesInit => CountInv /\ LinkInv
  BY CountsAtFirst
<1>2. CountInv /\ LinkInv /\ [FilesNext]_filesvars => CountInv' /\ LinkInv'
  BY CountsNext
<1>3. CountInv /\ LinkInv => NothingDangles
  BY InvGivesLinks
<1> QED BY <1>1, <1>2, <1>3, PTL DEF FilesSpec


(***************************************************************************)
(* The network card's driver, for a ring of any size, packets of any       *)
(* length that fits and any number of packets and buffers: types, and that *)
(* driver and card stay in step.  They need that an interrupt sends        *)
(* nothing between the test of send_buffer and its assignment, nor while   *)
(* tx_cur is past the last descriptor, and that no packet ends exactly     *)
(* where the ring does; not that a packet is handled before the next one   *)
(* comes.                                                                  *)
(***************************************************************************)

-----------------------------------------------------------------------------
(* The ring's arithmetic. *)

\* Where the packet after p goes, before the end of the ring is looked at.
EndOf(p) == NetAligned(p.at + p.length + 4)

\* The quotient by the ring's size is 0 or 1 for what is less than two rings.
LEMMA OnceAround ==
  ASSUME NEW e \in Nat, NEW r \in Nat \ {0}, e < 2 * r
  PROVE  e % r = IF e < r THEN e ELSE e - r
<1>1. CASE e < r
  BY <1>1
<1>2. CASE e >= r
  <2> DEFINE d == e - r
  <2>1. d \in Nat /\ d < r /\ e = d + r
    BY <1>2
  <2>2. e % r = d
    BY <2>1
  <2> QED BY <1>2, <2>2
<1> QED BY <1>1, <1>2

LEMMA AlignFacts ==
  ASSUME NEW p \in Nat, p % 4 = 0, NEW n \in Nat
  PROVE  /\ NetAligned(p + n + 4) \in Nat /\ NetAligned(p + n + 4) % 4 = 0
         /\ NetAligned(n + 4) \in Nat /\ NetAligned(p + n + 4) = p + NetAligned(n + 4)
BY DEF NetAligned

\* receive_packet finds the place where the card goes on, unless the packet ends
\* where the ring does.
LEMMA NextFacts ==
  ASSUME NEW p \in 0 .. RxSize - 1, p % 4 = 0, NEW n \in Lengths,
         NetAligned(p + n + 4) # RxSize
  PROVE  /\ NetAligned(p + n + 4) % RxSize \in 0 .. RxSize - 1
         /\ (NetAligned(p + n + 4) % RxSize) % 4 = 0
         /\ NextPacket(p, n) = NetAligned(p + n + 4) % RxSize
<1> DEFINE e == NetAligned(p + n + 4)
<1>1. RxSize \in Nat \ {0} /\ RxSize % 4 = 0 /\ n \in Nat /\ NetAligned(n + 4) < RxSize
  BY NetAssumption
<1>2. p \in Nat /\ p < RxSize
  BY <1>1
<1>3. e \in Nat /\ e % 4 = 0 /\ e = p + NetAligned(n + 4)
      /\ NetAligned(n + 4) \in Nat
  BY <1>1, <1>2, AlignFacts
<1>4. e # RxSize
  OBVIOUS
<1> HIDE DEF e
<1>5. e < 2 * RxSize
  BY <1>1, <1>2, <1>3
<1>6. e % RxSize = IF e < RxSize THEN e ELSE e - RxSize
  BY <1>1, <1>3, <1>5, OnceAround
<1>7. e % RxSize \in 0 .. RxSize - 1 /\ (e % RxSize) % 4 = 0
  BY <1>1, <1>3, <1>5, <1>6
<1>8. NextPacket(p, n) = IF e > RxSize THEN e - RxSize ELSE e
  BY DEF NextPacket, e
<1>9. NextPacket(p, n) = e % RxSize
  BY <1>1, <1>3, <1>6, <1>8, <1>4
<1> QED BY <1>7, <1>9 DEF e

-----------------------------------------------------------------------------
(* The invariant. *)

SenderType == [at : {"away", "resolving", "testing", "filling", "loading", "wrapping"},
               left : 0 .. 3, frame : {"none", "request", "data"},
               buf : Buffers \union {NoBuffer}]
ArpType == [table : [0 .. 1 -> {"broadcast", "gateway", "other", "none"}], curr : {0}]
DevType == [send_buffer : Buffers \union {NoBuffer}, tx_cur : 0 .. 4, ptr : 0 .. RxSize,
            heap : SUBSET Buffers]
Frames == {"request", "reply", "data"}
Sent == [buf : Buffers, frame : Frames, desc : 0 .. 3]
Packet == [at : 0 .. RxSize - 1, length : Lengths, kind : Kinds]
CardType == [tx : Seq(Sent), next : 0 .. 3, rx : Seq(Packet), head : 0 .. RxSize - 1,
             status : SUBSET {"TOK", "ROK"}]

\* As NetTypeOK, and the records have no other fields.
RecordInv ==
  /\ sender \in SenderType /\ arp \in ArpType /\ dev \in DevType /\ card \in CardType
  /\ wire \in [answers : Nat, alien : 0 .. MaxAlien] /\ writes \in 0 .. MaxWrites
  \* who is past the loop's test has something to send
  /\ sender.at \in {"testing", "filling", "loading"} => sender.frame # "none"

\* The descriptor after d.
NextDesc(d) == Wrapped(d + 1)

\* What a card says about the one send buffer d holds; l: a task has yet to tell
\* the card of it.
Holds(d, c, l) ==
  /\ d.heap = {d.send_buffer} \ {NoBuffer}
  /\ d.send_buffer # NoBuffer <=> (l \/ c.tx # << >> \/ "TOK" \in c.status)
  /\ Len(c.tx) <= 1
  /\ c.tx # << >> => c.tx[1].buf = d.send_buffer /\ c.tx[1].desc = c.next
  /\ "TOK" \in c.status => c.tx = << >>
  /\ l => c.tx = << >> /\ "TOK" \notin c.status
  /\ Wrapped(d.tx_cur) = IF c.tx = << >> THEN c.next ELSE NextDesc(c.next)

Loading == sender.at = "loading"

\* What the sender's place says about the driver's fields.
Between ==
  /\ sender.at = "filling" => dev.send_buffer = NoBuffer
  /\ Loading => dev.send_buffer = sender.buf
  /\ dev.tx_cur > 3 => sender.at = "wrapping"

SendInv == Holds(dev, card, Loading) /\ Between

\* Where the packet after the i-th one in the ring is, or will be put.
After(c, i) == IF i < Len(c.rx) THEN c.rx[i + 1].at ELSE c.head

\* Each packet starts where the one before it ends, and the driver looks for the
\* first.
Chained(ptr, c) ==
  /\ c.head % 4 = 0
  /\ \A i \in 1 .. Len(c.rx) :
       /\ c.rx[i].at % 4 = 0
       /\ EndOf(c.rx[i]) # RxSize /\ After(c, i) = EndOf(c.rx[i]) % RxSize
  /\ ptr = IF c.rx = << >> THEN c.head ELSE c.rx[1].at

RingInv == Chained(dev.ptr, card) /\ ("ROK" \in card.status => card.rx # << >>)

NetInv == RecordInv /\ SendInv /\ RingInv

\* No interrupt sends between the test and the assignment of send_buffer, or before
\* tx_cur is wrapped, and no packet ends where the ring ends.
CardQuiet == Races \subseteq {"burst"}

LEMMA InvMeans == NetInv => NetTypeOK /\ CardInStep
<1> SUFFICES ASSUME NetInv PROVE NetTypeOK /\ CardInStep
  OBVIOUS
<1>1. NetTypeOK
  BY DEF NetInv, RecordInv, SenderType, ArpType, DevType, CardType, Sent, Frames, Packet, NetTypeOK
<1>2. card.tx \in Seq(Sent) /\ card.rx \in Seq(Packet)
  BY DEF NetInv, RecordInv, CardType
<1>3. card.tx # << >> => Head(card.tx) = card.tx[1]
  BY <1>2
<1>4. card.rx # << >> => Head(card.rx) = card.rx[1]
  BY <1>2
<1>5. /\ dev.tx_cur \in 0 .. 4 /\ card.next \in 0 .. 3 /\ Len(card.tx) \in Nat
      /\ card.tx # << >> => Len(card.tx) # 0
  BY <1>2, EmptySeq DEF NetInv, RecordInv, DevType, CardType
<1>6. Len(card.tx) <= 1 /\ Wrapped(dev.tx_cur) = IF card.tx = << >> THEN card.next ELSE NextDesc(card.next)
  BY DEF NetInv, SendInv, Holds
<1>7. Wrapped(dev.tx_cur) = dev.tx_cur % 4 /\ NextDesc(card.next) = (card.next + 1) % 4
      /\ card.next % 4 = card.next
  BY <1>5 DEF Wrapped, NextDesc
<1>8. dev.tx_cur % 4 = (card.next + Len(card.tx)) % 4
  <2>1. CASE card.tx = << >>
    <3>1. Len(card.tx) = 0
      BY <2>1
    <3> QED BY <1>5, <1>6, <1>7, <2>1, <3>1
  <2>2. CASE card.tx # << >>
    <3>1. Len(card.tx) = 1
      <4> DEFINE l == Len(card.tx)
      <4>1. l \in Nat /\ l <= 1 /\ l # 0
        BY <1>5, <1>6, <2>2
      <4> HIDE DEF l
      <4>2. l = 1
        BY <4>1
      <4> QED BY <4>2 DEF l
    <3>2. (card.next + Len(card.tx)) % 4 = (card.next + 1) % 4
      BY <3>1
    <3>3. dev.tx_cur % 4 = (card.next + 1) % 4
      BY <1>6, <1>7, <2>2
    <3> QED BY <3>2, <3>3
  <2> QED BY <2>1, <2>2
<1>9. CardInStep
  BY <1>3, <1>4, <1>8
  DEF NetInv, SendInv, Holds, Between, Loading, RingInv, Chained, CardInStep
<1> QED BY <1>1, <1>9

LEMMA InitNet == NetInit => NetInv
<1> SUFFICES ASSUME NetInit PROVE NetInv
  OBVIOUS
<1>1. RxSize \in Nat \ {0} /\ MaxWrites \in Nat /\ MaxAlien \in Nat /\ NoBuffer \notin Buffers
  BY NetAssumption, NetBuffers
<1>2. [i \in 0 .. 1 |-> IF i = 0 THEN "broadcast" ELSE "none"]
        \in [0 .. 1 -> {"broadcast", "gateway", "other", "none"}]
  OBVIOUS
<1>3. sender \in SenderType /\ arp \in ArpType
  BY <1>2 DEF NetInit, SenderType, ArpType
<1>4. dev \in DevType /\ card \in CardType
  BY <1>1 DEF NetInit, DevType, CardType
<1>5. RecordInv
  BY <1>1, <1>3, <1>4 DEF NetInit, RecordInv
<1>6. SendInv
  BY <1>1 DEF NetInit, SendInv, Holds, Between, Loading, Wrapped
<1>7. RingInv
  BY <1>1 DEF NetInit, RingInv, Chained
<1> QED BY <1>5, <1>6, <1>7 DEF NetInv

-----------------------------------------------------------------------------
(* The steps. *)

\* A buffer is taken when none is held.
LEMMA BufferedFacts ==
  ASSUME NEW d \in DevType, NEW c \in CardType,
         Holds(d, c, FALSE), d.send_buffer = NoBuffer
  PROVE  /\ Buffered(d) \in DevType /\ Holds(Buffered(d), c, TRUE)
         /\ Buffered(d).send_buffer = Allocated(d) /\ Allocated(d) \in Buffers
         /\ Buffered(d).ptr = d.ptr /\ Buffered(d).tx_cur = d.tx_cur
<1> DEFINE b == Allocated(d)
<1>1. d.heap = {} /\ c.tx = << >> /\ "TOK" \notin c.status /\ Wrapped(d.tx_cur) = c.next
  BY DEF Holds
<1>2. b \in Buffers /\ b # NoBuffer
  <2>1. Buffers # {}
    BY NetBuffers, FS_EmptySet
  <2> QED BY <1>1, <2>1, NetBuffers DEF Allocated
<1>3. Buffered(d) = [d EXCEPT !.send_buffer = b, !.heap = @ \union {b}]
  BY DEF Buffered
<1> HIDE DEF b
<1>4. /\ Buffered(d) \in DevType /\ Buffered(d).send_buffer = b /\ Buffered(d).heap = d.heap \union {b}
      /\ Buffered(d).ptr = d.ptr /\ Buffered(d).tx_cur = d.tx_cur
  BY <1>2, <1>3 DEF DevType
<1>5. Holds(Buffered(d), c, TRUE)
  BY <1>1, <1>2, <1>4 DEF Holds
<1> QED BY <1>2, <1>4, <1>5 DEF b

\* What the card knows then.
Told(d, c, C) ==
  /\ d.heap = {d.send_buffer} /\ d.send_buffer # NoBuffer
  /\ C.tx # << >> /\ Len(C.tx) = 1 /\ C.tx[1].buf = d.send_buffer /\ C.tx[1].desc = C.next
  /\ C.next = d.tx_cur /\ "TOK" \notin C.status
  /\ C.rx = c.rx /\ C.head = c.head /\ C.status = c.status

\* tx_cur goes on, wrapped at once or not.
LEMMA ToldHolds ==
  ASSUME NEW d, NEW c, NEW C, Told(d, c, C), NEW e, e.send_buffer = d.send_buffer,
         e.heap = d.heap, Wrapped(e.tx_cur) = NextDesc(d.tx_cur)
  PROVE  Holds(e, C, FALSE)
BY DEF Told, Holds

\* The card is told of it.
LEMMA LoadedFacts ==
  ASSUME NEW d \in DevType, NEW c \in CardType, NEW f \in Frames,
         Holds(d, c, TRUE), d.tx_cur <= 3
  PROVE  LET C == Loaded(c, d.send_buffer, f, d.tx_cur) IN
         C \in CardType /\ Told(d, c, C)
<1>1. /\ d.heap = {d.send_buffer} \ {NoBuffer} /\ d.send_buffer # NoBuffer
      /\ c.tx = << >> /\ "TOK" \notin c.status /\ d.tx_cur = c.next
      /\ d.send_buffer \in Buffers /\ d.tx_cur \in 0 .. 3
  BY DEF Holds, DevType, Wrapped
<1> DEFINE x == [buf |-> d.send_buffer, frame |-> f, desc |-> d.tx_cur]
<1>2. x \in Sent /\ x.buf = d.send_buffer /\ x.desc = d.tx_cur
  BY <1>1 DEF Sent
<1> HIDE DEF x
<1>3. /\ Append(c.tx, x) \in Seq(Sent) /\ Len(Append(c.tx, x)) = 1 /\ Append(c.tx, x) # << >>
      /\ Append(c.tx, x)[1] = x
  <2>1. << >> \in Seq(Sent) /\ Len(<< >>) = 0
    OBVIOUS
  <2> QED BY <1>1, <1>2, <2>1, AppendProperties
<1> DEFINE C == [c EXCEPT !.tx = Append(@, x)]
<1>4. /\ C \in CardType /\ C.rx = c.rx /\ C.head = c.head /\ C.status = c.status
      /\ C.next = c.next /\ C.tx = Append(c.tx, x)
  BY <1>3 DEF CardType
<1>5. Loaded(c, d.send_buffer, f, d.tx_cur) = C
  BY <1>1 DEF Loaded, x
<1> HIDE DEF C
<1>6. Told(d, c, C)
  BY <1>1, <1>2, <1>3, <1>4 DEF Told
<1> QED BY <1>4, <1>5, <1>6

\* A reply in an interrupt, when no buffer is held and tx_cur is a descriptor.
LEMMA FilledFacts ==
  ASSUME NEW d \in DevType, NEW c \in CardType, NEW f \in Frames,
         Holds(d, c, FALSE), d.send_buffer = NoBuffer, d.tx_cur <= 3
  PROVE  LET r == Filled(d, c, f) IN
         /\ r.dev \in DevType /\ r.card \in CardType /\ Holds(r.dev, r.card, FALSE)
         /\ r.dev.ptr = d.ptr /\ r.card.rx = c.rx /\ r.card.head = c.head
         /\ r.card.status = c.status /\ r.dev.tx_cur <= 3
<1> DEFINE h == Buffered(d)
           e == [h EXCEPT !.tx_cur = Wrapped(@ + 1)]
<1>1. /\ h \in DevType /\ Holds(h, c, TRUE) /\ h.send_buffer = Allocated(d)
      /\ h.ptr = d.ptr /\ h.tx_cur = d.tx_cur
  BY BufferedFacts
<1> HIDE DEF h
<1>2. Wrapped(h.tx_cur + 1) \in 0 .. 3 /\ Wrapped(Wrapped(h.tx_cur + 1)) = NextDesc(h.tx_cur)
  BY <1>1 DEF DevType, Wrapped, NextDesc
<1>3. /\ e \in DevType /\ e.send_buffer = h.send_buffer /\ e.heap = h.heap /\ e.ptr = h.ptr
      /\ e.tx_cur = Wrapped(h.tx_cur + 1)
  BY <1>1, <1>2 DEF DevType
<1> DEFINE C == Loaded(c, h.send_buffer, f, h.tx_cur)
<1>4. Filled(d, c, f).dev = e /\ Filled(d, c, f).card = C
  BY <1>1 DEF Filled, h
<1> HIDE DEF e
<1>5. /\ C \in CardType /\ Holds(e, C, FALSE)
      /\ C.rx = c.rx /\ C.head = c.head /\ C.status = c.status
  <2>1. h.tx_cur <= 3 /\ Wrapped(e.tx_cur) = NextDesc(h.tx_cur)
    BY <1>1, <1>2, <1>3
  <2> HIDE DEF C
  <2>2. C \in CardType /\ Told(h, c, C)
    BY <1>1, <2>1, LoadedFacts DEF C
  <2>3. Holds(e, C, FALSE)
    BY <1>3, <2>1, <2>2, ToldHolds
  <2> QED BY <2>2, <2>3 DEF Told
<1> HIDE DEF C
<1>6. e.tx_cur <= 3
  BY <1>2, <1>3
<1> QED BY <1>1, <1>3, <1>4, <1>5, <1>6

\* The ring's end of a packet's entry, and what the sender's half of the
\* invariant takes from a card whose transmitter did not move.
LEMMA HoldsMeans ==
  ASSUME NEW d, NEW c, NEW e, NEW l, Holds(d, c, l),
         e.tx = c.tx, e.next = c.next, "TOK" \in e.status <=> "TOK" \in c.status
  PROVE  Holds(d, e, l)
BY DEF Holds

\* The first packet is taken from the ring.
LEMMA TailChained ==
  ASSUME NEW c \in CardType, NEW e \in CardType, NEW p, Chained(p, c), c.rx # << >>,
         e.rx = Tail(c.rx), e.head = c.head
  PROVE  /\ p \in 0 .. RxSize - 1
         /\ NextPacket(p, c.rx[1].length) \in 0 .. RxSize
         /\ Chained(NextPacket(p, c.rx[1].length), e)
<1>1. /\ c.rx \in Seq(Packet) /\ Len(c.rx) \in Nat /\ Len(c.rx) > 0
      /\ \A i \in 1 .. Len(c.rx) : c.rx[i] \in Packet
  BY DEF CardType
<1>2. /\ e.rx \in Seq(Packet) /\ Len(e.rx) = Len(c.rx) - 1
      /\ \A i \in 1 .. Len(e.rx) : e.rx[i] = c.rx[i + 1]
  BY <1>1, HeadTailProperties
<1>3. /\ 1 \in 1 .. Len(c.rx) /\ c.rx[1].at = p /\ p % 4 = 0
      /\ EndOf(c.rx[1]) # RxSize /\ After(c, 1) = EndOf(c.rx[1]) % RxSize
  BY <1>1 DEF Chained
<1>4. p \in 0 .. RxSize - 1 /\ c.rx[1].length \in Lengths
  BY <1>1, <1>3 DEF Packet
<1>5. EndOf(c.rx[1]) = NetAligned(p + c.rx[1].length + 4)
  BY <1>3 DEF EndOf
<1>6. /\ NextPacket(p, c.rx[1].length) = After(c, 1)
      /\ NextPacket(p, c.rx[1].length) \in 0 .. RxSize - 1
  BY <1>3, <1>4, <1>5, NextFacts
<1>7. \A i \in 1 .. Len(e.rx) : i + 1 \in 1 .. Len(c.rx) /\ After(e, i) = After(c, i + 1)
  <2>1. SUFFICES ASSUME NEW i \in 1 .. Len(e.rx)
        PROVE  i + 1 \in 1 .. Len(c.rx) /\ After(e, i) = After(c, i + 1)
    OBVIOUS
  <2>2. i \in Nat /\ i + 1 \in 1 .. Len(c.rx) /\ (i < Len(e.rx) <=> i + 1 < Len(c.rx))
    BY <1>1, <1>2
  <2>3. CASE i < Len(e.rx)
    <3>1. i + 1 \in 1 .. Len(e.rx)
      BY <1>1, <1>2, <2>2, <2>3
    <3>2. After(e, i) = e.rx[i + 1].at
      BY <2>3 DEF After
    <3>3. After(c, i + 1) = c.rx[(i + 1) + 1].at
      BY <2>2, <2>3 DEF After
    <3>4. e.rx[i + 1] = c.rx[(i + 1) + 1]
      BY <1>2, <3>1
    <3> QED BY <2>2, <3>2, <3>3, <3>4
  <2>4. CASE ~(i < Len(e.rx))
    BY <2>2, <2>4 DEF After
  <2> QED BY <2>2, <2>3, <2>4
<1>8. \A i \in 1 .. Len(e.rx) :
        /\ e.rx[i].at % 4 = 0
        /\ EndOf(e.rx[i]) # RxSize /\ After(e, i) = EndOf(e.rx[i]) % RxSize
  BY <1>2, <1>7 DEF Chained
<1>9. After(c, 1) = IF e.rx = << >> THEN e.head ELSE e.rx[1].at
  <2>1. CASE e.rx = << >>
    <3>1. ~(1 < Len(c.rx))
      <4>1. Len(e.rx) = 0
        BY <2>1, EmptySeq, Zenon
      <4> QED BY <1>1, <1>2, <4>1
    <3> QED BY <2>1, <3>1 DEF After
  <2>2. CASE e.rx # << >>
    <3>1. 1 \in 1 .. Len(e.rx) /\ 1 < Len(c.rx)
      BY <1>1, <1>2, <2>2
    <3> QED BY <1>2, <2>2, <3>1 DEF After
  <2> QED BY <2>1, <2>2
<1>10. RxSize \in Nat \ {0}
  BY NetAssumption
<1>11. e.head % 4 = 0
  BY DEF Chained
<1>12. Chained(NextPacket(p, c.rx[1].length), e)
  <2>1. NextPacket(p, c.rx[1].length) = IF e.rx = << >> THEN e.head ELSE e.rx[1].at
    BY <1>6, <1>9
  <2> HIDE DEF Chained
  <2> QED BY <1>8, <1>11, <2>1, Zenon DEF Chained
<1>13. NextPacket(p, c.rx[1].length) \in 0 .. RxSize
  BY <1>6, <1>10
<1> QED BY <1>4, <1>12, <1>13

\* A packet is put at the end of the ring.
LEMMA PutFacts ==
  ASSUME CardQuiet, NetInv, NEW k \in Kinds, Put(k)
  PROVE  /\ card' \in CardType /\ Holds(dev, card', Loading) /\ Chained(dev.ptr, card')
         /\ card'.rx # << >>
<1>1. PICK n \in Lengths :
        /\ NetAligned(card.head + n + 4) # RxSize
        /\ card' = [card EXCEPT !.rx = Append(@, [at |-> card.head, length |-> n, kind |-> k]),
                                !.head = NetAligned(card.head + n + 4) % RxSize,
                                !.status = @ \union {"ROK"}]
  <2>1. "exact" \notin Races
    BY DEF CardQuiet
  <2> QED BY <2>1, Zenon DEF Put
<1> DEFINE p == [at |-> card.head, length |-> n, kind |-> k]
           h == NetAligned(card.head + n + 4) % RxSize
<1>2. /\ card \in CardType /\ card.rx \in Seq(Packet) /\ card.head \in 0 .. RxSize - 1
      /\ Len(card.rx) \in Nat /\ Holds(dev, card, Loading) /\ Chained(dev.ptr, card)
  BY DEF NetInv, RecordInv, SendInv, RingInv, CardType
<1>3. card.head % 4 = 0
  BY <1>2 DEF Chained
<1>4. h \in 0 .. RxSize - 1 /\ h % 4 = 0
  BY <1>1, <1>2, <1>3, NextFacts
<1>5. /\ p \in Packet /\ p.at = card.head
      /\ EndOf(p) = NetAligned(card.head + n + 4)
  BY <1>2 DEF Packet, EndOf
<1>6. EndOf(p) # RxSize /\ h = EndOf(p) % RxSize
  BY <1>1, <1>5
<1> HIDE DEF p, h
<1> DEFINE q == Append(card.rx, p)
<1>7. /\ q \in Seq(Packet) /\ q # << >> /\ Len(q) = Len(card.rx) + 1
      /\ \A i \in 1 .. Len(card.rx) : q[i] = card.rx[i]
      /\ q[Len(card.rx) + 1] = p
  BY <1>2, <1>5, AppendProperties
<1>8. card' = [card EXCEPT !.rx = q, !.head = h, !.status = @ \union {"ROK"}]
  BY <1>1 DEF p, h
<1> HIDE DEF q
<1>9. /\ card' \in CardType /\ card'.rx = q /\ card'.head = h
      /\ card'.status = card.status \union {"ROK"}
      /\ card'.tx = card.tx /\ card'.next = card.next
  BY <1>2, <1>4, <1>7, <1>8 DEF CardType
<1>10. Holds(dev, card', Loading)
  BY <1>2, <1>9, HoldsMeans
<1>11. \A i \in 1 .. Len(card.rx) : q[i] = card.rx[i] /\ After(card', i) = After(card, i)
  <2>1. SUFFICES ASSUME NEW i \in 1 .. Len(card.rx) PROVE After(card', i) = After(card, i)
    BY <1>7
  <2>2. i \in Nat /\ i < Len(q)
    BY <1>2, <1>7
  <2>3. CASE i < Len(card.rx)
    <3>1. i + 1 \in 1 .. Len(card.rx)
      BY <1>2, <2>2, <2>3
    <3> QED BY <1>7, <1>9, <2>2, <2>3, <3>1 DEF After
  <2>4. CASE ~(i < Len(card.rx))
    <3>1. i = Len(card.rx)
      BY <1>2, <2>4
    <3>2. After(card', i) = q[i + 1].at
      BY <1>9, <2>2 DEF After
    <3>3. After(card, i) = card.head
      BY <2>4 DEF After
    <3> QED BY <1>5, <1>7, <3>1, <3>2, <3>3
  <2> QED BY <2>3, <2>4
<1>12. After(card', Len(card.rx) + 1) = h
  BY <1>2, <1>7, <1>9 DEF After
<1>13. \A i \in 1 .. Len(q) : i \in 1 .. Len(card.rx) \/ i = Len(card.rx) + 1
  BY <1>2, <1>7
<1>14. \A i \in 1 .. Len(q) :
         /\ q[i].at % 4 = 0
         /\ EndOf(q[i]) # RxSize /\ After(card', i) = EndOf(q[i]) % RxSize
  <2>1. ASSUME NEW i \in 1 .. Len(card.rx)
        PROVE  /\ q[i].at % 4 = 0
               /\ EndOf(q[i]) # RxSize /\ After(card', i) = EndOf(q[i]) % RxSize
    BY <1>2, <1>11 DEF Chained
  <2>2. LET i == Len(card.rx) + 1 IN
          /\ q[i].at % 4 = 0
          /\ EndOf(q[i]) # RxSize /\ After(card', i) = EndOf(q[i]) % RxSize
    BY <1>3, <1>5, <1>6, <1>7, <1>12
  <2> QED BY <1>13, <2>1, <2>2
<1>15. dev.ptr = q[1].at
  <2>1. CASE card.rx = << >>
    BY <1>2, <1>5, <1>7, <2>1 DEF Chained
  <2>2. CASE card.rx # << >>
    <3>1. 1 \in 1 .. Len(card.rx)
      BY <1>2, <2>2
    <3> QED BY <1>2, <1>7, <2>2, <3>1 DEF Chained
  <2> QED BY <2>1, <2>2
<1>16. Chained(dev.ptr, card')
  BY <1>4, <1>7, <1>9, <1>14, <1>15 DEF Chained
<1> QED BY <1>7, <1>9, <1>10, <1>16

\* The ring as the driver sees it does not depend on the rest of the card.
LEMMA ChainedMeans ==
  ASSUME NEW c, NEW e, NEW p, Chained(p, c), e.rx = c.rx, e.head = c.head
  PROVE  Chained(p, e)
BY DEF Chained, After

\* A sender that neither comes to the card nor leaves it.
LEMMA AtStep ==
  ASSUME SendInv, UNCHANGED <<dev, card>>,
         sender.at \notin {"loading", "wrapping"}, sender'.at \notin {"loading", "wrapping"},
         sender'.at = "filling" => dev.send_buffer = NoBuffer
  PROVE  SendInv'
<1>1. Loading = FALSE /\ Loading' = FALSE
  BY DEF Loading
<1>2. Holds(dev', card', Loading')
  BY <1>1 DEF SendInv
<1>3. Between'
  BY DEF SendInv, Between, Loading
<1> QED BY <1>2, <1>3 DEF SendInv

LEMMA WriteStep == NetInv /\ Write => NetInv'
<1> SUFFICES ASSUME NetInv, Write PROVE NetInv'
  OBVIOUS
<1>1. sender' = [sender EXCEPT !.at = "resolving", !.left = 3, !.frame = "none"]
      /\ writes' = writes + 1 /\ UNCHANGED <<arp, dev, card, wire>>
      /\ sender.at = "away" /\ writes < MaxWrites /\ sender \in SenderType
  BY DEF Write, NetInv, RecordInv
<1>2. MaxWrites \in Nat /\ writes \in 0 .. MaxWrites
  BY NetAssumption DEF NetInv, RecordInv
<1>3. sender' \in SenderType /\ sender'.at = "resolving" /\ writes' \in 0 .. MaxWrites
  <2>1. sender' \in SenderType /\ sender'.at = "resolving"
    <3>1. sender' = [sender EXCEPT !.at = "resolving", !.left = 3, !.frame = "none"]
          /\ sender \in SenderType /\ 3 \in 0 .. 3
      BY <1>1
    <3> QED BY <3>1 DEF SenderType
  <2>2. writes' \in 0 .. MaxWrites
    BY <1>1, <1>2
  <2> QED BY <2>1, <2>2
<1>4. RecordInv'
  BY <1>1, <1>3 DEF NetInv, RecordInv
<1>5. SendInv'
  BY <1>1, <1>3, AtStep DEF NetInv
<1>6. RingInv'
  BY <1>1 DEF NetInv, RingInv, Chained, After
<1> QED BY <1>4, <1>5, <1>6 DEF NetInv

LEMMA ResolveStep == NetInv /\ Resolve => NetInv'
<1> SUFFICES ASSUME NetInv, Resolve PROVE NetInv'
  OBVIOUS
<1>1. UNCHANGED <<arp, dev, card, wire, writes>> /\ sender \in SenderType
      /\ sender.at = "resolving"
  BY DEF Resolve, NetInv, RecordInv
<1>2. sender' \in SenderType /\ sender'.at = "testing" /\ sender'.frame # "none"
  <2>1. CASE sender' = [sender EXCEPT !.at = "testing", !.frame = "data"]
    BY <1>1, <2>1 DEF SenderType
  <2>2. CASE /\ sender.left > 0
             /\ sender' = [sender EXCEPT !.at = "testing", !.left = @ - 1, !.frame = "request"]
    <3>1. sender.left - 1 \in 0 .. 3
      BY <1>1, <2>2 DEF SenderType
    <3> QED BY <1>1, <2>2, <3>1 DEF SenderType
  <2> QED BY <2>1, <2>2 DEF Resolve
<1>3. RecordInv'
  BY <1>1, <1>2 DEF NetInv, RecordInv
<1>4. SendInv'
  BY <1>1, <1>2, AtStep DEF NetInv
<1>5. RingInv'
  BY <1>1 DEF NetInv, RingInv, Chained, After
<1> QED BY <1>3, <1>4, <1>5 DEF NetInv

LEMMA TestStep == NetInv /\ Test => NetInv'
<1> SUFFICES ASSUME NetInv, Test PROVE NetInv'
  OBVIOUS
<1>1. /\ UNCHANGED <<arp, dev, card, wire, writes>> /\ sender \in SenderType
      /\ sender.at = "testing" /\ sender.frame # "none"
  BY DEF Test, NetInv, RecordInv
<1>2. /\ sender' \in SenderType /\ sender'.frame # "none"
      /\ sender'.at \in {"away", "resolving", "filling"}
      /\ sender'.at = "filling" => dev.send_buffer = NoBuffer
  BY <1>1 DEF Test, Returned, SenderType
<1>3. RecordInv'
  BY <1>1, <1>2 DEF NetInv, RecordInv
<1>4. SendInv'
  BY <1>1, <1>2, AtStep DEF NetInv
<1>5. RingInv'
  BY <1>1 DEF NetInv, RingInv, Chained, After
<1> QED BY <1>3, <1>4, <1>5 DEF NetInv

\* The sender takes a buffer: no interrupt has taken one since the test.
LEMMA FillStep == NetInv /\ Fill => NetInv'
<1> SUFFICES ASSUME NetInv, Fill PROVE NetInv'
  OBVIOUS
<1>1. /\ sender.at = "filling" /\ sender \in SenderType /\ sender.frame # "none"
      /\ dev \in DevType /\ card \in CardType /\ dev.tx_cur <= 3
      /\ dev.send_buffer = NoBuffer /\ RingInv
  BY DEF Fill, NetInv, RecordInv, SendInv, Between, DevType
<1>2. Holds(dev, card, FALSE)
  BY <1>1 DEF NetInv, SendInv, Loading
<1>3. /\ dev' = Buffered(dev) /\ sender' = [sender EXCEPT !.at = "loading", !.buf = Allocated(dev)]
      /\ UNCHANGED <<arp, card, wire, writes>>
  BY DEF Fill
<1>4. /\ dev' \in DevType /\ Holds(dev', card, TRUE) /\ dev'.send_buffer = Allocated(dev)
      /\ Allocated(dev) \in Buffers /\ dev'.ptr = dev.ptr /\ dev'.tx_cur = dev.tx_cur
  BY <1>1, <1>2, <1>3, BufferedFacts
<1>5. /\ sender' \in SenderType /\ sender'.at = "loading" /\ sender'.buf = Allocated(dev)
      /\ sender'.frame = sender.frame
  BY <1>1, <1>3, <1>4 DEF SenderType
<1>6. RecordInv'
  BY <1>1, <1>3, <1>4, <1>5 DEF NetInv, RecordInv
<1>7. SendInv'
  <2>1. Between'
    BY <1>1, <1>4, <1>5 DEF Between, Loading, DevType
  <2>2. Loading' = TRUE
    BY <1>5 DEF Loading
  <2> QED BY <1>3, <1>4, <2>1, <2>2 DEF SendInv
<1>8. RingInv'
  BY <1>1, <1>3, <1>4 DEF RingInv, Chained, After
<1> QED BY <1>6, <1>7, <1>8 DEF NetInv

\* The card is told of the buffer that the driver holds.
LEMMA LoadStep == NetInv /\ Load => NetInv'
<1> SUFFICES ASSUME NetInv, Load PROVE NetInv'
  OBVIOUS
<1>1. /\ sender.at = "loading" /\ sender \in SenderType /\ sender.frame # "none"
      /\ dev \in DevType /\ card \in CardType /\ dev.tx_cur <= 3
      /\ dev.send_buffer = sender.buf /\ RingInv
  BY DEF Load, NetInv, RecordInv, SendInv, Between, DevType, Loading
<1>2. Holds(dev, card, TRUE)
  BY <1>1 DEF NetInv, SendInv, Loading
<1>3. /\ card' = Loaded(card, dev.send_buffer, sender.frame, dev.tx_cur)
      /\ dev' = [dev EXCEPT !.tx_cur = @ + 1]
      /\ sender' = [sender EXCEPT !.at = "wrapping", !.buf = NoBuffer]
      /\ UNCHANGED <<arp, wire, writes>>
  BY <1>1 DEF Load
<1>4. /\ dev' \in DevType /\ dev'.send_buffer = dev.send_buffer /\ dev'.heap = dev.heap
      /\ dev'.ptr = dev.ptr /\ Wrapped(dev'.tx_cur) = NextDesc(dev.tx_cur)
  BY <1>1, <1>3 DEF DevType, NextDesc
<1>5. sender.frame \in Frames
  BY <1>1 DEF SenderType, Frames
<1>6. /\ card' \in CardType /\ Holds(dev', card', FALSE)
      /\ card'.rx = card.rx /\ card'.head = card.head /\ card'.status = card.status
  <2> DEFINE C == Loaded(card, dev.send_buffer, sender.frame, dev.tx_cur)
  <2>1. C \in CardType /\ Told(dev, card, C)
    BY <1>1, <1>2, <1>5, LoadedFacts
  <2> HIDE DEF C
  <2>2. card' = C
    BY <1>3 DEF C
  <2>3. Holds(dev', C, FALSE)
    BY <1>4, <2>1, ToldHolds
  <2> QED BY <2>1, <2>2, <2>3 DEF Told
<1>7. sender' \in SenderType /\ sender'.at = "wrapping"
  BY <1>1, <1>3 DEF SenderType
<1>8. RecordInv'
  BY <1>3, <1>4, <1>6, <1>7 DEF NetInv, RecordInv
<1>9. SendInv'
  <2>1. Between'
    BY <1>7 DEF Between, Loading
  <2>2. Loading' = FALSE
    BY <1>7 DEF Loading
  <2> QED BY <1>6, <2>1, <2>2 DEF SendInv
<1>10. RingInv'
  BY <1>1, <1>4, <1>6, ChainedMeans DEF RingInv
<1> QED BY <1>8, <1>9, <1>10 DEF NetInv

\* tx_cur is wrapped, whatever the card has done since it was told.
LEMMA WrapStep == NetInv /\ Wrap => NetInv'
<1> SUFFICES ASSUME NetInv, Wrap PROVE NetInv'
  OBVIOUS
<1>1. /\ sender.at = "wrapping" /\ sender \in SenderType /\ dev \in DevType
      /\ RingInv /\ Holds(dev, card, FALSE)
  BY DEF Wrap, NetInv, RecordInv, SendInv, Loading
<1>2. /\ dev' = [dev EXCEPT !.tx_cur = Wrapped(@)] /\ sender' = Returned
      /\ UNCHANGED <<arp, card, wire, writes>>
  BY DEF Wrap
<1>3. /\ dev' \in DevType /\ dev'.tx_cur = Wrapped(dev.tx_cur) /\ dev'.tx_cur <= 3
      /\ Wrapped(dev'.tx_cur) = Wrapped(dev.tx_cur)
      /\ dev'.send_buffer = dev.send_buffer /\ dev'.heap = dev.heap /\ dev'.ptr = dev.ptr
  <2>1. Wrapped(dev.tx_cur) \in 0 .. 3 /\ Wrapped(Wrapped(dev.tx_cur)) = Wrapped(dev.tx_cur)
    BY <1>1 DEF DevType, Wrapped
  <2> QED BY <1>1, <1>2, <2>1 DEF DevType
<1>4. sender' \in SenderType /\ sender'.at \in {"away", "resolving"}
  BY <1>1, <1>2 DEF Returned, SenderType
<1>5. RecordInv'
  BY <1>2, <1>3, <1>4 DEF NetInv, RecordInv
<1>6. Holds(dev', card', FALSE)
  BY <1>1, <1>2, <1>3 DEF Holds
<1>7. SendInv'
  <2>1. Between'
    BY <1>3, <1>4 DEF Between, Loading, DevType
  <2>2. Loading' = FALSE
    BY <1>4 DEF Loading
  <2> QED BY <1>6, <2>1, <2>2, Zenon DEF SendInv
<1>8. RingInv'
  BY <1>1, <1>2, <1>3 DEF RingInv, Chained, After
<1> QED BY <1>5, <1>7, <1>8 DEF NetInv

LEMMA TransmitStep == NetInv /\ Transmit => NetInv'
<1> SUFFICES ASSUME NetInv, Transmit PROVE NetInv'
  OBVIOUS
<1>1. /\ card \in CardType /\ card.tx \in Seq(Sent) /\ card.next \in 0 .. 3
      /\ Holds(dev, card, Loading) /\ card.tx # << >> /\ Between
      /\ wire \in [answers : Nat, alien : 0 .. MaxAlien]
  BY DEF Transmit, NetInv, RecordInv, SendInv, CardType
<1>2. /\ UNCHANGED <<sender, arp, dev, writes>>
      /\ card' = [card EXCEPT !.tx = Tail(@), !.next = (@ + 1) % 4, !.status = @ \union {"TOK"}]
      /\ wire' = [wire EXCEPT !.answers = IF Head(card.tx).frame = "request" THEN @ + 1 ELSE @]
  BY DEF Transmit
<1>3. Tail(card.tx) = << >>
  <2>1. Len(card.tx) <= 1
    BY <1>1 DEF Holds
  <2>2. Tail(card.tx) \in Seq(Sent) /\ Len(Tail(card.tx)) = Len(card.tx) - 1
    BY <1>1, HeadTailProperties
  <2>3. Len(card.tx) \in Nat \ {0}
    BY <1>1, EmptySeq
  <2>4. Len(Tail(card.tx)) = 0
    <3> DEFINE l == Len(card.tx)
               m == Len(Tail(card.tx))
    <3>1. l <= 1 /\ l \in Nat \ {0} /\ m = l - 1
      BY <2>1, <2>2, <2>3
    <3> HIDE DEF l, m
    <3>2. m = 0
      BY <3>1
    <3> QED BY <3>2 DEF m
  <2>5. Tail(card.tx) # << >> => Len(Tail(card.tx)) \in Nat \ {0}
    BY <2>2, EmptySeq
  <2> QED BY <2>4, <2>5
<1>4. (card.next + 1) % 4 = NextDesc(card.next) /\ NextDesc(card.next) \in 0 .. 3
  BY <1>1 DEF NextDesc, Wrapped
<1>5. /\ card' \in CardType /\ card'.tx = << >> /\ card'.next = NextDesc(card.next)
      /\ card'.status = card.status \union {"TOK"}
      /\ card'.rx = card.rx /\ card'.head = card.head
  <2>1. card' = [card EXCEPT !.tx = << >>, !.next = NextDesc(card.next),
                             !.status = @ \union {"TOK"}]
    BY <1>2, <1>3, <1>4
  <2>2. << >> \in Seq(Sent)
    OBVIOUS
  <2> QED BY <1>1, <1>4, <2>1, <2>2 DEF CardType
<1>6. wire' \in [answers : Nat, alien : 0 .. MaxAlien]
  BY <1>1, <1>2
<1>7. RecordInv'
  BY <1>2, <1>5, <1>6 DEF NetInv, RecordInv
<1>8. SendInv'
  <2>1. Len(<< >>) = 0
    OBVIOUS
  <2>2. Loading = FALSE /\ Loading' = FALSE
    BY <1>1, <1>2 DEF Holds, Loading
  <2>3. Holds(dev', card', Loading')
    BY <1>1, <1>2, <1>5, <2>1, <2>2 DEF Holds
  <2>4. Between'
    BY <1>1, <1>2 DEF Between, Loading
  <2> QED BY <2>3, <2>4 DEF SendInv
<1>9. RingInv'
  BY <1>2, <1>5, ChainedMeans DEF NetInv, RingInv
<1> QED BY <1>7, <1>8, <1>9 DEF NetInv

\* A packet comes, the gateway's or another host's.
LEMMA ComeStep ==
  ASSUME CardQuiet, NetInv, Answer \/ (\E kind \in Kinds \ {"answer"} : Arrive(kind))
  PROVE  NetInv'
<1>1. PICK k \in Kinds : Put(k) /\ (Answer \/ Arrive(k))
  BY DEF Answer, Arrive, Kinds
<1>2. /\ card' \in CardType /\ Holds(dev, card', Loading) /\ Chained(dev.ptr, card')
      /\ card'.rx # << >>
  BY <1>1, PutFacts
<1>3. UNCHANGED <<sender, arp, dev, writes>>
  BY <1>1 DEF Answer, Arrive
<1>4. wire' \in [answers : Nat, alien : 0 .. MaxAlien]
  BY <1>1, NetAssumption DEF Answer, Arrive, NetInv, RecordInv
<1>5. RecordInv'
  BY <1>2, <1>3, <1>4 DEF NetInv, RecordInv
<1>6. SendInv'
  BY <1>2, <1>3 DEF NetInv, SendInv, Between, Loading
<1>7. RingInv'
  BY <1>2, <1>3 DEF RingInv
<1> QED BY <1>5, <1>6, <1>7 DEF NetInv

-----------------------------------------------------------------------------
(* The interrupt. *)

\* What is sent is freed, and the status is read and cleared.
LEMMA StatusRead ==
  ASSUME NetInv,
         NEW d, d = (IF "TOK" \in card.status THEN Freed(dev) ELSE dev),
         NEW c, c = [card EXCEPT !.status = {}]
  PROVE  /\ d \in DevType /\ c \in CardType /\ Holds(d, c, Loading)
         /\ d.tx_cur = dev.tx_cur /\ d.ptr = dev.ptr
         /\ d.send_buffer # dev.send_buffer => ~Loading /\ d.send_buffer = NoBuffer
         /\ c.rx = card.rx /\ c.head = card.head /\ c.status = {}
<1>1. dev \in DevType /\ card \in CardType /\ Holds(dev, card, Loading)
  BY DEF NetInv, RecordInv, SendInv
<1>2. /\ c \in CardType /\ c.rx = card.rx /\ c.head = card.head /\ c.status = {}
      /\ c.tx = card.tx /\ c.next = card.next
  BY <1>1 DEF CardType
<1>3. CASE "TOK" \in card.status
  <2>1. d = Freed(dev)
    BY <1>3
  <2>2. /\ d \in DevType /\ d.ptr = dev.ptr /\ d.tx_cur = dev.tx_cur
        /\ d.send_buffer = NoBuffer /\ d.heap = dev.heap \ {dev.send_buffer}
    BY <1>1, <2>1 DEF Freed, DevType
  <2>3. ~Loading
    BY <1>1, <1>3 DEF Holds
  <2>4. Holds(d, c, Loading)
    BY <1>1, <1>2, <1>3, <2>2, <2>3 DEF Holds
  <2> QED BY <1>2, <2>2, <2>3, <2>4
<1>4. CASE "TOK" \notin card.status
  <2>1. Holds(dev, c, Loading)
    BY <1>1, <1>2, <1>4, HoldsMeans
  <2> QED BY <1>1, <1>2, <1>4, <2>1
<1> QED BY <1>3, <1>4

\* A request that is not for us is replied to when no buffer is held.
LEMMA RepliedFacts ==
  ASSUME NEW d \in DevType, NEW c \in CardType, NEW l, Holds(d, c, l), NEW k \in Kinds,
         Sends(d, k) => d.tx_cur <= 3
  PROVE  LET r == Replied([dev |-> d, card |-> c], k) IN
         /\ r.dev \in DevType /\ r.card \in CardType /\ Holds(r.dev, r.card, l)
         /\ r.dev.ptr = d.ptr /\ r.card.rx = c.rx /\ r.card.head = c.head
         /\ r.card.status = c.status
         /\ ~Sends(d, k) => r.dev = d
         /\ Sends(d, k) => r.dev.tx_cur <= 3 /\ ~l
<1> DEFINE r == Replied([dev |-> d, card |-> c], k)
<1>1. CASE Sends(d, k)
  <2>1. r = Filled(d, c, "reply")
    BY <1>1 DEF Replied
  <2> HIDE DEF r
  <2>2. "reply" \in Frames
    BY DEF Frames
  <2>3. d.send_buffer = NoBuffer /\ ~l
    BY <1>1 DEF Sends, Holds
  <2>4. Holds(d, c, FALSE)
    BY <2>3 DEF Holds
  <2>5. LET q == Filled(d, c, "reply") IN
         /\ q.dev \in DevType /\ q.card \in CardType /\ Holds(q.dev, q.card, FALSE)
         /\ q.dev.ptr = d.ptr /\ q.card.rx = c.rx /\ q.card.head = c.head
         /\ q.card.status = c.status /\ q.dev.tx_cur <= 3
    BY <1>1, <2>2, <2>3, <2>4, FilledFacts
  <2>6. Holds(r.dev, r.card, l)
    BY <2>1, <2>3, <2>5 DEF Holds
  <2>7. /\ r.dev \in DevType /\ r.card \in CardType
        /\ r.dev.ptr = d.ptr /\ r.card.rx = c.rx /\ r.card.head = c.head
        /\ r.card.status = c.status /\ r.dev.tx_cur <= 3
    BY <2>1, <2>5
  <2> QED BY <1>1, <2>3, <2>6, <2>7 DEF r
<1>2. CASE ~Sends(d, k)
  <2>1. r.dev = d /\ r.card = c
    BY <1>2 DEF Replied
  <2> HIDE DEF r
  <2>2. /\ r.dev \in DevType /\ r.card \in CardType /\ Holds(r.dev, r.card, l)
        /\ r.dev.ptr = d.ptr /\ r.card.rx = c.rx /\ r.card.head = c.head
        /\ r.card.status = c.status /\ r.dev = d
    BY <2>1
  <2> QED BY <1>2, <2>2 DEF r
<1> QED BY <1>1, <1>2

LEMMA LearntType ==
  ASSUME arp \in ArpType, NEW k PROVE Learnt(k) \in ArpType
<1>1. arp.curr = 0 /\ 0 \in 0 .. 1
  BY DEF ArpType
<1> DEFINE to == IF k = "answer" THEN "gateway" ELSE "other"
           t == [arp EXCEPT !.table[arp.curr] = to, !.curr = IF @ >= 512 THEN 0 ELSE @]
<1>2. to \in {"broadcast", "gateway", "other", "none"}
  OBVIOUS
<1> HIDE DEF to
<1>3. t \in ArpType
  BY <1>1, <1>2 DEF ArpType
<1> QED BY <1>3, Zenon DEF Learnt, t, to

\* The interrupt, and the packet it takes is the one that the ring holds.
LEMMA InterruptStep ==
  ASSUME CardQuiet, NetInv, Interrupt
  PROVE  NetInv'
<1> DEFINE d == IF "TOK" \in card.status THEN Freed(dev) ELSE dev
           c == [card EXCEPT !.status = {}]
<1>1. UNCHANGED <<sender, wire, writes>> /\ Loading' = Loading
  BY DEF Interrupt, Loading
<1>2. /\ d \in DevType /\ c \in CardType /\ Holds(d, c, Loading)
      /\ d.tx_cur = dev.tx_cur /\ d.ptr = dev.ptr
      /\ d.send_buffer # dev.send_buffer => ~Loading /\ d.send_buffer = NoBuffer
      /\ c.rx = card.rx /\ c.head = card.head /\ c.status = {}
  BY StatusRead
<1>3. /\ arp \in ArpType /\ card \in CardType /\ Chained(dev.ptr, card)
      /\ "ROK" \in card.status => card.rx # << >>
      /\ dev \in DevType /\ Between
  BY DEF NetInv, RecordInv, RingInv, SendInv
<1>4. CASE "ROK" \notin card.status
  <2>1. dev' = d /\ card' = c /\ UNCHANGED arp
    BY <1>4 DEF Interrupt
  <2> HIDE DEF d, c
  <2>2. RecordInv'
    BY <1>1, <1>2, <2>1 DEF NetInv, RecordInv
  <2>3. SendInv'
    <3>1. Between'
      BY <1>1, <1>2, <1>3, <2>1 DEF Between
    <3> QED BY <1>1, <1>2, <2>1, <3>1 DEF SendInv
  <2>4. Chained(d.ptr, c)
    BY <1>2, <1>3, ChainedMeans
  <2>5. RingInv'
    BY <1>2, <2>1, <2>4 DEF RingInv
  <2> QED BY <2>2, <2>3, <2>5 DEF NetInv
<1>5. CASE "ROK" \in card.status
  <2>1. PICK n \in Lengths, k \in Kinds :
          /\ (card.rx # << >> /\ Head(card.rx).at = dev.ptr)
               => n = Head(card.rx).length /\ k = Head(card.rx).kind
          /\ Sends(d, k) => Unready \subseteq Races
          /\ LET r == Replied([dev |-> d, card |-> c], k) IN
             /\ dev' = [r.dev EXCEPT !.ptr = NextPacket(@, n)]
             /\ card' = [r.card EXCEPT !.rx = IF @ = << >> THEN @ ELSE Tail(@)]
          /\ arp' = Learnt(k)
    BY <1>5, Zenon DEF Interrupt
  <2> HIDE DEF d, c
  <2> DEFINE r == Replied([dev |-> d, card |-> c], k)
  <2>15. Sends(d, k) => sender.at # "filling" /\ d.tx_cur <= 3
    <3>1. Sends(d, k) => Unready = {}
      BY <2>1, Zenon DEF CardQuiet, Unready
    <3>2. dev.tx_cur > 3 \/ d.tx_cur <= 3
      BY <1>2, <1>3 DEF DevType
    <3> QED BY <3>1, <3>2 DEF Unready
  <2>2. /\ r.dev \in DevType /\ r.card \in CardType /\ Holds(r.dev, r.card, Loading)
        /\ r.dev.ptr = dev.ptr /\ r.card.rx = card.rx /\ r.card.head = card.head
        /\ r.card.status = {}
        /\ ~Sends(d, k) => r.dev = d
        /\ Sends(d, k) => r.dev.tx_cur <= 3 /\ ~Loading
    <3>1. /\ r.dev \in DevType /\ r.card \in CardType /\ Holds(r.dev, r.card, Loading)
          /\ r.dev.ptr = d.ptr /\ r.card.rx = c.rx /\ r.card.head = c.head
          /\ r.card.status = c.status
          /\ ~Sends(d, k) => r.dev = d
          /\ Sends(d, k) => r.dev.tx_cur <= 3 /\ ~Loading
      BY <1>2, <2>15, RepliedFacts
    <3> QED BY <1>2, <3>1
  <2>3. dev' = [r.dev EXCEPT !.ptr = NextPacket(@, n)]
        /\ card' = [r.card EXCEPT !.rx = IF @ = << >> THEN @ ELSE Tail(@)]
    BY <2>1
  <2> HIDE DEF r
  <2>4. card.rx \in Seq(Packet) /\ card.rx # << >> /\ Head(card.rx) = card.rx[1]
    BY <1>3, <1>5 DEF CardType
  <2>5. Tail(card.rx) \in Seq(Packet)
    BY <2>4, HeadTailProperties
  <2>6. n = card.rx[1].length
    BY <1>3, <2>1, <2>4 DEF Chained
  <2>7. /\ card' \in CardType /\ card'.rx = Tail(card.rx) /\ card'.head = card.head
        /\ card'.status = {} /\ card'.tx = r.card.tx /\ card'.next = r.card.next
    BY <2>2, <2>3, <2>4, <2>5 DEF CardType
  <2>8. /\ NextPacket(dev.ptr, n) \in 0 .. RxSize
        /\ Chained(NextPacket(dev.ptr, n), card')
    BY <1>3, <2>4, <2>6, <2>7, TailChained
  <2>9. /\ dev' \in DevType /\ dev'.ptr = NextPacket(dev.ptr, n)
        /\ dev'.send_buffer = r.dev.send_buffer /\ dev'.heap = r.dev.heap
        /\ dev'.tx_cur = r.dev.tx_cur
    BY <2>2, <2>3, <2>8 DEF DevType
  <2>10. Holds(dev', card', Loading)
    BY <2>2, <2>7, <2>9 DEF Holds
  <2>11. arp' \in ArpType
    BY <1>3, <2>1, LearntType
  <2>12. RecordInv'
    BY <1>1, <2>7, <2>9, <2>11 DEF NetInv, RecordInv
  <2>13. SendInv'
    <3>1. Between'
      <4>1. CASE Sends(d, k)
        BY <1>1, <2>2, <2>9, <2>15, <4>1 DEF Between, DevType
      <4>2. CASE ~Sends(d, k)
        BY <1>1, <1>2, <1>3, <2>2, <2>9, <4>2 DEF Between
      <4> QED BY <4>1, <4>2
    <3> QED BY <1>1, <2>10, <3>1 DEF SendInv
  <2>14. RingInv'
    BY <2>7, <2>8, <2>9 DEF RingInv
  <2> QED BY <2>12, <2>13, <2>14 DEF NetInv
<1> QED BY <1>4, <1>5

-----------------------------------------------------------------------------
(* The theorems. *)

LEMMA StutterStep == NetInv /\ UNCHANGED netvars => NetInv'
<1> SUFFICES ASSUME NetInv, UNCHANGED netvars PROVE NetInv'
  OBVIOUS
<1> QED BY DEF netvars, NetInv, RecordInv, SendInv, RingInv, Holds, Chained, After,
               Between, Loading

LEMMA NetStep ==
  ASSUME CardQuiet, NetInv, [NetNext]_netvars PROVE NetInv'
<1>1. CASE UNCHANGED netvars
  BY <1>1, StutterStep
<1>2. CASE Write
  BY <1>2, WriteStep
<1>3. CASE Resolve
  BY <1>3, ResolveStep
<1>4. CASE Test
  BY <1>4, TestStep
<1>5. CASE Fill
  BY <1>5, FillStep
<1>6. CASE Interrupt
  BY <1>6, InterruptStep
<1>9. CASE Load
  BY <1>9, LoadStep
<1>10. CASE Wrap
  BY <1>10, WrapStep
<1>7. CASE Transmit
  BY <1>7, TransmitStep
<1>8. CASE Answer \/ (\E kind \in Kinds \ {"answer"} : Arrive(kind))
  BY <1>8, ComeStep
<1> QED
  BY <1>1, <1>2, <1>3, <1>4, <1>5, <1>6, <1>7, <1>8, <1>9, <1>10, Zenon DEF NetNext

LEMMA NetInvHolds == ASSUME CardQuiet PROVE NetSpec => []NetInv
<1>1. NetInv /\ [NetNext]_netvars => NetInv'
  BY NetStep
<1> QED BY <1>1, InitNet, PTL DEF NetSpec

\* Types: the buffer that is sent, the descriptors and the place where the driver
\* looks for a packet (rtl8139_send_packet, receive_packet) stay in range, for what
\* CardStaysInStep assumes.
THEOREM NetTypeCorrect == ASSUME CardQuiet PROVE NetSpec => []NetTypeOK
BY NetInvHolds, InvMeans, PTL

\* Driver and card stay in step (rtl8139_handler, receive_packet,
\* rtl8139_send_packet): one buffer, which the card sends from the descriptor that
\* is its turn and which is freed after that; and packets are looked for where the
\* card puts them.  The code ensures it only as long as no packet ends where the ring
\* ends and no interrupt replies between the test and the assignment of send_buffer
\* or between the last descriptor's tx_cur++ and its wrap: each of these breaks it.
THEOREM CardStaysInStep == ASSUME CardQuiet PROVE NetSpec => []CardInStep
BY NetInvHolds, InvMeans, PTL

(***************************************************************************)
(* Pathnames and mounts, for any file systems, any pathnames and any       *)
(* number of slots: types; that a mount is held by everybody who is in it, *)
(* which needs that no shell is being restarted when the root is switched. *)
(*                                                                         *)
(* The loops over components and links are recursive functions.            *)
(* LoopExists and LoopStays say what of such a loop its turns decide; with *)
(* them, the lemmas named ...In say in which mounts and among which inodes *)
(* paths and walks stay.                                                   *)
(***************************************************************************)

-----------------------------------------------------------------------------
(* Loops: a loop of n turns from x, of which turn i makes g[<<i, v>>] of v.   *)

\* A loop stays where each turn stays.
LEMMA LoopStays ==
  ASSUME NEW n \in Nat, NEW f, NEW T, f[0] \in T, \A i \in 1 .. n : f[i - 1] \in T => f[i] \in T
  PROVE  f[n] \in T
<1> DEFINE S == {i \in 0 .. n : f[i] \notin T}
<1>1. SUFFICES ASSUME n \in S PROVE FALSE
  OBVIOUS
<1>2. PICK i \in S : \A j \in S : i <= j
  <2>1. S \in SUBSET Nat /\ S # {}
    BY <1>1
  <2> HIDE DEF S
  <2> QED BY <2>1, LeastExists, Zenon
<1>3. i \in 1 .. n /\ i - 1 \in 0 .. n /\ ~(i <= i - 1)
  BY <1>2
<1>4. i - 1 \notin S
  BY <1>2, <1>3
<1> QED BY <1>2, <1>3, <1>4

\* The values of a loop are a function.
IsLoop(f, n, T, x, g) ==
  f \in [0 .. n -> T] /\ f[0] = x /\ \A i \in 1 .. n : f[i] = g[<<i, f[i - 1]>>]

Turns(n, T) == [(1 .. n) \X T -> T]

LEMMA LoopExists ==
  ASSUME NEW n \in Nat, NEW T, NEW x \in T, NEW g \in Turns(n, T)
  PROVE  \E f : IsLoop(f, n, T, x, g)
<1> DEFINE Loop(f, m) == f \in [0 .. m -> T] /\ f[0] = x /\ \A i \in 1 .. m : f[i] = g[<<i, f[i - 1]>>]
           S == {m \in 0 .. n : ~\E f : Loop(f, m)}
<1>0. \A e : Loop(e, n) => IsLoop(e, n, T, x, g)
  BY DEF IsLoop
<1>1. SUFFICES ASSUME n \in S PROVE FALSE
  <2> HIDE DEF Loop
  <2> QED BY <1>0
<1>2. PICK m \in S : \A j \in S : m <= j
  <2>1. S \in SUBSET Nat /\ S # {}
    <3> HIDE DEF Loop
    <3> QED BY <1>1
  <2> HIDE DEF S
  <2> QED BY <2>1, LeastExists
<1>3. m # 0
  <2> DEFINE f == [i \in 0 .. 0 |-> x]
  <2>1. Loop(f, 0)
    OBVIOUS
  <2>2. \E h : Loop(h, 0)
    BY <2>1
  <2> HIDE DEF Loop
  <2> QED BY <1>2, <2>2
<1>4. m \in 1 .. n /\ m - 1 \in 0 .. n /\ ~(m <= m - 1)
  BY <1>2, <1>3
<1>5. PICK h : Loop(h, m - 1)
  <2>1. m - 1 \notin S
    BY <1>2, <1>4
  <2> HIDE DEF Loop
  <2> QED BY <2>1, <1>4
<1> DEFINE f == [i \in 0 .. m |-> IF i < m THEN h[i] ELSE g[<<m, h[m - 1]>>]]
<1>6. h[m - 1] \in T /\ g[<<m, h[m - 1]>>] \in T
  BY <1>4, <1>5 DEF Turns
<1>7. f \in [0 .. m -> T] /\ f[0] = x
  BY <1>4, <1>5, <1>6
<1>8. ASSUME NEW i \in 1 .. m PROVE f[i] = g[<<i, f[i - 1]>>]
  <2>1. i - 1 \in 0 .. m /\ i - 1 < m
    BY <1>4
  <2>2. f[i - 1] = h[i - 1]
    BY <2>1
  <2>3. CASE i < m
    <3>1. f[i] = h[i] /\ i \in 1 .. m - 1
      BY <1>4, <2>3
    <3>2. h[i] = g[<<i, h[i - 1]>>]
      BY <1>5, <3>1
    <3> HIDE DEF f
    <3> QED BY <2>2, <3>1, <3>2
  <2>4. CASE i = m
    <3>1. f[i] = g[<<m, h[m - 1]>>]
      BY <1>4, <2>4
    <3> HIDE DEF f
    <3> QED BY <2>2, <2>4, <3>1
  <2> QED BY <1>4, <2>3, <2>4
<1>9. Loop(f, m)
  BY <1>7, <1>8
<1>10. \E e : Loop(e, m)
  <2> HIDE DEF Loop
  <2> QED BY <1>9
<1> HIDE DEF Loop
<1> QED BY <1>2, <1>10

-----------------------------------------------------------------------------
(* Paths. *)

\* Paths that lie in a mount of M, or in none yet.
PathsIn(M) ==
  {p \in [absolute : BOOLEAN, mnt : {NoMount} \union M, components : Seq(STRING)] :
     p.mnt # NoMount => ~p.absolute}

\* Those that have the flag and the mount of path.
Alike(M, path) == {p \in PathsIn(M) : p.absolute = path.absolute /\ p.mnt = path.mnt}

LEMMA AlikeAdded ==
  ASSUME NEW M, NEW path, NEW p \in Alike(M, path), NEW c \in STRING
  PROVE  AddComponent(p, c) \in Alike(M, path)
<1>1. p \in PathsIn(M) /\ p.components \in Seq(STRING)
  BY DEF Alike, PathsIn
<1>2. ASSUME NEW cs \in Seq(STRING) PROVE [p EXCEPT !.components = cs] \in Alike(M, path)
  BY <1>2 DEF Alike, PathsIn
<1>3. Append(p.components, c) \in Seq(STRING)
  BY <1>1
<1>4. Front(p.components) \in Seq(STRING)
  <2>1. ASSUME NEW cs \in Seq(STRING) PROVE SubSeq(cs, 1, Len(cs) - 1) \in Seq(STRING)
    OBVIOUS
  <2> QED BY <1>1, <2>1 DEF Front
<1>5. /\ [p EXCEPT !.components = Front(p.components)] \in Alike(M, path)
      /\ [p EXCEPT !.components = Append(p.components, c)] \in Alike(M, path)
  BY <1>2, <1>3, <1>4
<1> QED BY <1>5, Zenon DEF AddComponent

AddTurns(path, cs, added) ==
  [i \in 0 .. Len(cs) |-> IF i = 0 THEN path ELSE AddComponent(added[i - 1], cs[i])]

LEMMA AddAllAlike ==
  ASSUME NEW M, NEW path \in PathsIn(M), NEW cs \in Seq(STRING)
  PROVE  AddAll(path, cs) \in Alike(M, path)
<1> DEFINE T == Alike(M, path)
           n == Len(cs)
           g == [z \in (1 .. n) \X T |-> AddComponent(z[2], cs[z[1]])]
           added == CHOOSE f : f = AddTurns(path, cs, f)
<1>1. n \in Nat /\ \A i \in 1 .. n : cs[i] \in STRING
  OBVIOUS
<1>2. path \in T
  BY DEF Alike
<1>3. \A i \in 1 .. n : \A p \in T : AddComponent(p, cs[i]) \in T
  BY <1>1, AlikeAdded
<1>4. g \in Turns(n, T) /\ \A i \in 1 .. n : \A p \in T : g[<<i, p>>] = AddComponent(p, cs[i])
  <2> HIDE DEF T
  <2> QED BY <1>3 DEF Turns
<1>5. \E f : f = AddTurns(path, cs, f)
  <2>1. PICK f : IsLoop(f, n, T, path, g)
    <3> HIDE DEF g, T
    <3> QED BY <1>1, <1>2, <1>4, LoopExists
  <2>2. ASSUME NEW i \in 0 .. n, i # 0 PROVE f[i] = AddComponent(f[i - 1], cs[i])
    <3>1. i \in 1 .. n /\ i - 1 \in 0 .. n
      BY <1>1, <2>2
    <3> HIDE DEF g, T
    <3> QED BY <1>4, <2>1, <3>1 DEF IsLoop
  <2>3. f = AddTurns(path, cs, f)
    <3> HIDE DEF T
    <3> QED BY <2>1, <2>2 DEF AddTurns, IsLoop
  <2> QED BY <2>3
<1>6. added = AddTurns(path, cs, added)
  BY <1>5
<1>7. AddAll(path, cs) = added[n]
  BY DEF AddAll, AddTurns
<1> HIDE DEF added
<1>8. added[0] = path /\ \A i \in 1 .. n : added[i] = AddComponent(added[i - 1], cs[i])
  <2>1. \A i \in 0 .. n : added[i] = IF i = 0 THEN path ELSE AddComponent(added[i - 1], cs[i])
    BY <1>6 DEF AddTurns
  <2> QED BY <1>1, <2>1
<1>9. \A i \in 1 .. n : added[i - 1] \in T => added[i] \in T
  BY <1>3, <1>8
<1>10. added[n] \in T
  <2> HIDE DEF T
  <2> QED BY <1>1, <1>2, <1>8, <1>9, LoopStays
<1> QED BY <1>7, <1>10

LEMMA AlikeIn ==
  ASSUME NEW M, NEW path \in PathsIn(M), NEW p \in Alike(M, path)
  PROVE  p \in PathsIn(M) /\ p.absolute = path.absolute /\ p.mnt = path.mnt
BY DEF Alike

LEMMA RootPaths ==
  ASSUME NEW M
  PROVE  /\ Empty \in PathsIn(M) /\ Empty.mnt = NoMount /\ ~Empty.absolute
         /\ root_path \in PathsIn(M) /\ root_path.mnt = NoMount /\ root_path.absolute
         /\ \A b \in BOOLEAN : LET p == [Empty EXCEPT !.absolute = b] IN
              p \in PathsIn(M) /\ p.mnt = NoMount /\ p.absolute = b
<1> DEFINE E == [absolute : BOOLEAN, mnt : {NoMount}, components : Seq(STRING)]
<1>1. \A p \in E : p \in PathsIn(M) /\ p.mnt = NoMount
  BY DEF PathsIn
<1>2. Empty \in E /\ ~Empty.absolute
  <2>1. \A s \in Seq(STRING) : [absolute |-> FALSE, mnt |-> NoMount, components |-> s] \in E
    OBVIOUS
  <2>2. <<>> \in Seq(STRING)
    OBVIOUS
  <2> HIDE DEF E
  <2> QED BY <2>1, <2>2 DEF Empty
<1>3. \A e \in E, b \in BOOLEAN : [e EXCEPT !.absolute = b] \in E /\ [e EXCEPT !.absolute = b].absolute = b
  <2>1. ASSUME NEW e \in E, NEW b \in BOOLEAN
        PROVE  [e EXCEPT !.absolute = b] \in E /\ [e EXCEPT !.absolute = b].absolute = b
    OBVIOUS
  <2> HIDE DEF E
  <2> QED BY <2>1
<1> HIDE DEF E
<1>4. root_path \in E /\ root_path.absolute
  BY <1>2, <1>3 DEF root_path
<1> QED BY <1>1, <1>2, <1>3, <1>4

LEMMA FromStrIn ==
  ASSUME NEW M, NEW n \in PathnameType
  PROVE  FromStr(n) \in PathsIn(M) /\ FromStr(n).mnt = NoMount /\ FromStr(n).absolute = n.absolute
<1>1. n.absolute \in BOOLEAN /\ n.parts \in Seq(STRING)
  BY DEF PathnameType
<1> DEFINE p == [Empty EXCEPT !.absolute = n.absolute]
<1>2. p \in PathsIn(M) /\ p.mnt = NoMount /\ p.absolute = n.absolute
  BY <1>1, RootPaths
<1>3. FromStr(n) = AddAll(p, n.parts)
  BY DEF FromStr
<1> HIDE DEF p
<1>4. AddAll(p, n.parts) \in Alike(M, p)
  BY <1>1, <1>2, AddAllAlike
<1> QED BY <1>2, <1>3, <1>4, AlikeIn

\* A path joined with one that lies in no mount stays in its own, or begins anew.
LEMMA JoinIn ==
  ASSUME NEW M, NEW x \in PathsIn(M), NEW y \in PathsIn(M)
  PROVE  Join(x, y) \in PathsIn(M) /\ Join(x, y).mnt \in {NoMount, x.mnt}
<1>1. x.components \in Seq(STRING) /\ y.components \in Seq(STRING)
  BY DEF PathsIn
<1> DEFINE p == [x EXCEPT !.components = <<>>]
           cs == x.components \o y.components
<1>2. p \in PathsIn(M) /\ p.mnt = x.mnt /\ cs \in Seq(STRING)
  <2>1. ASSUME NEW s \in Seq(STRING)
        PROVE  [x EXCEPT !.components = s] \in PathsIn(M) /\ [x EXCEPT !.components = s].mnt = x.mnt
    BY <2>1 DEF PathsIn
  <2>2. <<>> \in Seq(STRING) /\ cs \in Seq(STRING)
    BY <1>1
  <2> QED BY <2>1, <2>2
<1>3. Join(x, y) = IF y.absolute THEN AddAll(root_path, y.components) ELSE AddAll(p, cs)
  BY DEF Join
<1> HIDE DEF p, cs
<1>4. AddAll(p, cs) \in PathsIn(M) /\ AddAll(p, cs).mnt = x.mnt
  BY <1>2, AddAllAlike, AlikeIn
<1>5. AddAll(root_path, y.components) \in PathsIn(M) /\ AddAll(root_path, y.components).mnt = NoMount
  BY <1>1, RootPaths, AddAllAlike, AlikeIn
<1> QED BY <1>3, <1>4, <1>5

\* path_checkmnt leaves a path alone, or puts an absolute one into the mount that
\* the table holds.
LEMMA CheckMntIn ==
  ASSUME NEW M, NEW m \in M, m # NoMount, mounttable = <<m>>, NEW path \in PathsIn(M)
  PROVE  CheckMnt(path) \in PathsIn(M) /\ CheckMnt(path).mnt \in {path.mnt, m}
<1> DEFINE size(i) == Subsumes(MountPath(mounttable[i]), path)
           Match == {i \in DOMAIN mounttable : size(i) >= 0}
           best == CHOOSE i \in Match :
                     \A j \in Match : size(j) < size(i) \/ (size(j) = size(i) /\ j <= i)
           found == [absolute |-> FALSE, mnt |-> mounttable[best],
                     components |-> SubSeq(path.components, size(best) + 1, Len(path.components))]
<1>1. DOMAIN mounttable = {1} /\ mounttable[1] = m
  OBVIOUS
<1>2. CheckMnt(path) = IF Match = {} THEN path ELSE found
  BY DEF CheckMnt
<1>3. ASSUME Match # {}
      PROVE  found \in PathsIn(M) /\ found.mnt = m
  <2>1. size(1) \in Int
    BY DEF Subsumes, MountPath, root_path, Empty
  <2> HIDE DEF size
  <2>2. Match = {1}
    BY <1>1, <1>3
  <2>3. best = 1
    BY <2>1, <2>2
  <2> HIDE DEF best
  <2>4. size(1) >= 0
    BY <1>1, <2>2
  <2>5. path.components \in Seq(STRING)
    BY DEF PathsIn
  <2>6. SubSeq(path.components, size(1) + 1, Len(path.components)) \in Seq(STRING)
    BY <2>1, <2>4, <2>5
  <2> QED BY <1>1, <2>3, <2>6 DEF PathsIn
<1> HIDE DEF Match, found
<1> QED BY <1>2, <1>3

-----------------------------------------------------------------------------
(* Inodes. *)

Inodes(m) == {RootIno} \union DOMAIN Entries(m)

LEMMA ElementIn ==
  ASSUME NEW T, NEW s \in Seq(T), NEW i \in DOMAIN s
  PROVE  s[i] \in T
OBVIOUS

LEMMA EntryTypes ==
  ASSUME NEW m
  PROVE  /\ DOMAIN Entries(m) \in SUBSET Nat /\ 0 \notin DOMAIN Entries(m)
         /\ \A ino \in Inodes(m) :
              /\ Entry(m, ino).size \in Nat
              /\ Entry(m, ino).type = "sym" =>
                   ino \in DOMAIN Entries(m) /\ Entry(m, ino).target \in PathnameType
<1>1. DOMAIN Entries(m) = 1 .. Len(Entries(m)) /\ Len(Entries(m)) \in Nat
  BY NamesAssumption DEF Entries
<1>2. ASSUME NEW ino \in DOMAIN Entries(m)
      PROVE  /\ Entries(m)[ino].size \in Nat
             /\ Entries(m)[ino].type = "sym" => Entries(m)[ino].target \in PathnameType
  <2>1. CASE m = 1
    <3>1. Entries(m) = Dentries
      BY <2>1 DEF Entries
    <3>2. Dentries[ino] \in [path : Seq(STRING), type : STRING, size : Nat]
      <4>1. Dentries \in Seq([path : Seq(STRING), type : STRING, size : Nat])
        BY NamesAssumption, Zenon
      <4> QED BY <3>1, <4>1, ElementIn, Zenon
    <3>3. Dentries[ino].type # "sym"
      BY <3>1, NamesAssumption
    <3> QED BY <3>1, <3>2, <3>3
  <2>2. CASE m # 1
    <3>1. Entries(m) = Archive
      BY <2>2 DEF Entries
    <3>2. Archive[ino] \in [path : Seq(STRING), type : STRING, target : PathnameType, size : Nat]
      <4>1. Archive \in Seq([path : Seq(STRING), type : STRING, target : PathnameType, size : Nat])
        BY NamesAssumption, Zenon
      <4> QED BY <3>1, <4>1, ElementIn, Zenon
    <3> QED BY <3>1, <3>2
  <2> QED BY <2>1, <2>2
<1>3. Root.size = 0 /\ Root.type # "sym"
  BY DEF Root
<1> QED BY <1>1, <1>2, <1>3 DEF Inodes, Entry, RootIno

LEMMA LookupIn ==
  ASSUME NEW m, NEW ino \in {NoIno} \union Inodes(m), NEW name
  PROVE  Lookup(m, ino, name) \in {NoIno} \union Inodes(m)
<1> DEFINE S == {i \in IF m = 1 THEN DOMAIN Dentries ELSE Children(m, ino) :
                   Last(Entry(m, i).path) = name}
<1>1. S \in SUBSET DOMAIN Entries(m)
  BY DEF Children, Entries
<1>2. Lookup(m, ino, name) = IF ino = NoIno THEN NoIno ELSE First(S)
  BY DEF Lookup
<1> HIDE DEF S
<1>3. S # {} => First(S) \in S
  <2>1. SUFFICES ASSUME S # {} PROVE First(S) \in S
    OBVIOUS
  <2>2. \E i \in S : \A j \in S : i <= j
    BY <1>1, <2>1, EntryTypes, LeastExists
  <2> QED BY <2>1, <2>2 DEF First
<1> QED BY <1>1, <1>2, <1>3 DEF Inodes, First

WalkTurns(path, ino) ==
  [i \in 0 .. Len(path.components) |->
     IF i = 0 THEN RootIno ELSE Lookup(path.mnt, ino[i - 1], path.components[i])]

LEMMA WalkIn ==
  ASSUME NEW M, NEW path \in PathsIn(M)
  PROVE  Walk(path) \in {NoIno} \union Inodes(path.mnt)
<1> DEFINE T == {NoIno} \union Inodes(path.mnt)
           n == Len(path.components)
           g == [z \in (1 .. n) \X T |-> Lookup(path.mnt, z[2], path.components[z[1]])]
           ino == CHOOSE f : f = WalkTurns(path, f)
<1>1. n \in Nat
  BY DEF PathsIn
<1>2. RootIno \in T
  BY DEF Inodes
<1>3. \A i \in 1 .. n : \A k \in T : Lookup(path.mnt, k, path.components[i]) \in T
  BY LookupIn
<1>4. g \in Turns(n, T)
      /\ \A i \in 1 .. n : \A k \in T : g[<<i, k>>] = Lookup(path.mnt, k, path.components[i])
  <2> HIDE DEF T
  <2> QED BY <1>3 DEF Turns
<1>5. \E f : f = WalkTurns(path, f)
  <2>1. PICK f : IsLoop(f, n, T, RootIno, g)
    <3> HIDE DEF g, T
    <3> QED BY <1>1, <1>2, <1>4, LoopExists
  <2>2. ASSUME NEW i \in 0 .. n, i # 0
        PROVE  f[i] = Lookup(path.mnt, f[i - 1], path.components[i])
    <3>1. i \in 1 .. n /\ i - 1 \in 0 .. n
      BY <1>1, <2>2
    <3> HIDE DEF g, T
    <3> QED BY <1>4, <2>1, <3>1 DEF IsLoop
  <2>3. f = WalkTurns(path, f)
    <3> HIDE DEF T
    <3> QED BY <2>1, <2>2 DEF WalkTurns, IsLoop
  <2> QED BY <2>3
<1>6. ino = WalkTurns(path, ino)
  BY <1>5
<1>7. Walk(path) = ino[n]
  BY DEF Walk, WalkTurns
<1> HIDE DEF ino
<1>8. ino[0] = RootIno /\ \A i \in 1 .. n : ino[i] = Lookup(path.mnt, ino[i - 1], path.components[i])
  <2>1. \A i \in 0 .. n : ino[i] = IF i = 0 THEN RootIno
                                   ELSE Lookup(path.mnt, ino[i - 1], path.components[i])
    BY <1>6 DEF WalkTurns
  <2> QED BY <1>1, <2>1
<1>9. \A i \in 1 .. n : ino[i - 1] \in T => ino[i] \in T
  BY <1>3, <1>8
<1>10. ino[n] \in T
  <2> HIDE DEF T
  <2> QED BY <1>1, <1>2, <1>8, <1>9, LoopStays
<1> QED BY <1>7, <1>10

\* Following the link at the end of a path leads into the mount of the path or into
\* the one that the table holds.
LEMMA FollowIn ==
  ASSUME NEW M, NEW m \in M, m # NoMount, mounttable = <<m>>, NEW path \in PathsIn(M)
  PROVE  Follow(path) \in PathsIn(M)
<1> DEFINE dir == [path EXCEPT !.components = Front(path.components)]
           str == FromStr(Entry(path.mnt, Walk(path)).target)
<1>1. SUFFICES ASSUME IsLink(path) PROVE CheckMnt(Join(dir, str)) \in PathsIn(M)
  BY DEF Follow
<1>2. Entry(path.mnt, Walk(path)).target \in PathnameType
  BY <1>1, WalkIn, EntryTypes DEF IsLink
<1>3. str \in PathsIn(M)
  BY <1>2, FromStrIn
<1>4. path.components \in Seq(STRING)
  BY DEF PathsIn
<1>5. Front(path.components) \in Seq(STRING)
  <2>1. ASSUME NEW cs \in Seq(STRING) PROVE SubSeq(cs, 1, Len(cs) - 1) \in Seq(STRING)
    OBVIOUS
  <2> QED BY <1>4, <2>1 DEF Front
<1>6. ASSUME NEW s \in Seq(STRING) PROVE [path EXCEPT !.components = s] \in PathsIn(M)
  BY DEF PathsIn
<1>7. dir \in PathsIn(M)
  BY <1>5, <1>6
<1> HIDE DEF dir, str
<1>8. Join(dir, str) \in PathsIn(M)
  BY <1>3, <1>7, JoinIn
<1> QED BY <1>8, CheckMntIn

FollowTurns(path, at) ==
  [i \in 0 .. Len(Archive) |-> IF i = 0 THEN path ELSE Follow(at[i - 1])]

LEMMA FollowAllIn ==
  ASSUME NEW M, NEW m \in M, m # NoMount, mounttable = <<m>>, NEW path \in PathsIn(M)
  PROVE  FollowAll(path) \in PathsIn(M)
<1> DEFINE T == PathsIn(M)
           n == Len(Archive)
           g == [z \in (1 .. n) \X T |-> Follow(z[2])]
           at == CHOOSE f : f = FollowTurns(path, f)
<1>1. n \in Nat
  BY NamesAssumption
<1>3. \A p \in T : Follow(p) \in T
  BY FollowIn
<1>4. g \in Turns(n, T) /\ \A i \in 1 .. n : \A p \in T : g[<<i, p>>] = Follow(p)
  <2> HIDE DEF T
  <2> QED BY <1>3 DEF Turns
<1>5. \E f : f = FollowTurns(path, f)
  <2>1. PICK f : IsLoop(f, n, T, path, g)
    <3> HIDE DEF g, T
    <3> QED BY <1>1, <1>4, LoopExists DEF T
  <2>2. ASSUME NEW i \in 0 .. n, i # 0 PROVE f[i] = Follow(f[i - 1])
    <3>1. i \in 1 .. n /\ i - 1 \in 0 .. n
      BY <1>1, <2>2
    <3> HIDE DEF g, T
    <3> QED BY <1>4, <2>1, <3>1 DEF IsLoop
  <2>3. f = FollowTurns(path, f)
    <3> HIDE DEF T
    <3> QED BY <2>1, <2>2 DEF FollowTurns, IsLoop
  <2> QED BY <2>3
<1>6. at = FollowTurns(path, at)
  BY <1>5
<1>7. FollowAll(path) = at[n]
  BY DEF FollowAll, FollowTurns
<1> HIDE DEF at
<1>8. at[0] = path /\ \A i \in 1 .. n : at[i] = Follow(at[i - 1])
  <2>1. \A i \in 0 .. n : at[i] = IF i = 0 THEN path ELSE Follow(at[i - 1])
    BY <1>6 DEF FollowTurns
  <2> QED BY <1>1, <2>1
<1>9. \A i \in 1 .. n : at[i - 1] \in T => at[i] \in T
  BY <1>3, <1>8
<1>10. at[n] \in T
  <2> HIDE DEF T
  <2> QED BY <1>1, <1>8, <1>9, LoopStays DEF T
<1> QED BY <1>7, <1>10

LEMMA FoundIn ==
  ASSUME NEW m \in Mounts, mounttable = <<m>>, NEW rel \in PathsIn(Mounts), NEW n \in PathnameType,
         NEW f, f = Found(rel, n), f # ClosedFile
  PROVE  /\ f.path \in PathsIn(Mounts) /\ f.path.mnt \in Mounts /\ f.path.mnt \in {m, rel.mnt}
         /\ f.ino \in Inodes(f.path.mnt) /\ f = [path |-> f.path, ino |-> f.ino, pos |-> 0]
<1> DEFINE M == {m} \union ({rel.mnt} \ {NoMount})
           str == FromStr(n)
           start == IF str.absolute THEN str ELSE Join(rel, str)
           path == FollowAll(CheckMnt(start))
<1>1. M \subseteq Mounts /\ NoMount \notin Mounts /\ m \in M
  BY DEF PathsIn, Mounts, NoMount
<1>2. rel \in PathsIn(M)
  BY DEF PathsIn
<1>3. str \in PathsIn(M)
  BY FromStrIn
<1> HIDE DEF str
<1>4. start \in PathsIn(M)
  BY <1>2, <1>3, JoinIn
<1> HIDE DEF start
<1>5. CheckMnt(start) \in PathsIn(M)
  BY <1>1, <1>4, CheckMntIn
<1>6. path \in PathsIn(M)
  BY <1>1, <1>5, FollowAllIn
<1>7. Found(rel, n) = IF path.mnt = NoMount \/ IsLink(path) \/ Walk(path) = NoIno THEN ClosedFile
                      ELSE [path |-> path, ino |-> Walk(path), pos |-> 0]
  BY DEF Found, str, start
<1> HIDE DEF path
<1>8. f = [path |-> path, ino |-> Walk(path), pos |-> 0] /\ path.mnt # NoMount /\ Walk(path) # NoIno
  BY <1>7
<1>9. Walk(path) \in Inodes(path.mnt)
  BY <1>6, <1>8, WalkIn
<1>10. path \in PathsIn(Mounts) /\ path.mnt \in M
  BY <1>1, <1>6, <1>8 DEF PathsIn
<1> QED BY <1>1, <1>8, <1>9, <1>10

-----------------------------------------------------------------------------
(* The invariant. *)

OpenType == [path : PathsIn(Mounts), ino : Int, pos : Nat]
SlotsType == [Slots \union {Cwd} -> OpenType]

\* What is open lies in a mount and is at most at its end.
FileOK(f) ==
  f # ClosedFile =>
    /\ f.path.mnt \in Mounts /\ f.ino \in Inodes(f.path.mnt)
    /\ f.pos <= Size(f)

InMount(F, m) == {s \in DOMAIN F : F[s].path.mnt = m}

NamesInv ==
  /\ mounttable \in {<<1>>, <<2>>}
  /\ refs \in [Mounts -> Nat] /\ leaked \in [Mounts -> 0 .. MaxLeaks] /\ stale \in BOOLEAN
  /\ files \in SlotsType /\ \A s \in DOMAIN files : FileOK(files[s])
  /\ \A m \in Mounts :
       refs[m] = (IF mounttable = <<m>> THEN 1 ELSE 0) + Cardinality(InMount(files, m)) + leaked[m]
  \* Nobody is in the Linux root before the switch, ...
  /\ mounttable = <<1>> => leaked[2] = 0 /\ InMount(files, 2) = {}
  \* ... and after it nobody is in the ECE391 root, unless a shell outlived it.
  /\ ~Restart => ~stale /\ \A s \in DOMAIN files : IsOpen(s) => mounttable = <<files[s].path.mnt>>

LEMMA MountFacts == Mounts = {1, 2} /\ NoMount = 0 /\ <<1>> # <<2>> /\ \A m, k : <<m>> = <<k>> => m = k
<1>1. \A m, k : <<m>> = <<k>> => m = k
  <2>1. ASSUME NEW m, NEW k, <<m>> = <<k>> PROVE m = k
    <3>1. <<m>>[1] = <<k>>[1]
      BY <2>1
    <3> QED BY <3>1
  <2> QED BY <2>1
<1>2. Mounts = {1, 2} /\ NoMount = 0
  BY DEF Mounts, NoMount
<1>3. <<1>> # <<2>>
  BY <1>1
<1> QED BY <1>1, <1>2, <1>3

LEMMA SlotsFinite == IsFiniteSet(Slots \union {Cwd})
<1>1. IsFiniteSet(Slots)
  BY NamesAssumption, Zenon
<1> QED BY <1>1, FS_AddElement

\* Slot s of F is given file f.
Given(F, G, s, f, m) ==
  /\ G \in SlotsType /\ DOMAIN G = DOMAIN F
  /\ \A t \in DOMAIN F : G[t] = IF t = s THEN f ELSE F[t]
  /\ Cardinality(InMount(F, m)) \in Nat /\ Cardinality(InMount(G, m)) \in Nat
  /\ Cardinality(InMount(G, m)) + (IF F[s].path.mnt = m THEN 1 ELSE 0)
       = Cardinality(InMount(F, m)) + (IF f.path.mnt = m THEN 1 ELSE 0)
  /\ InMount(G, m) \subseteq InMount(F, m) \union {t \in {s} : f.path.mnt = m}

LEMMA MountCounts ==
  ASSUME NEW F \in SlotsType, NEW s \in DOMAIN F, NEW f \in OpenType, NEW m,
         NEW G, G = [F EXCEPT ![s] = f]
  PROVE  Given(F, G, s, f, m)
<1> DEFINE S == InMount(F, m)
           T == InMount(G, m)
<1>1. DOMAIN F = Slots \union {Cwd}
  BY DEF SlotsType
<1>2. G \in SlotsType /\ DOMAIN G = DOMAIN F /\ \A t \in DOMAIN F : G[t] = IF t = s THEN f ELSE F[t]
  BY DEF SlotsType
<1>3. /\ \A t : t \in S <=> t \in DOMAIN F /\ F[t].path.mnt = m
      /\ \A t : t \in T <=> t \in DOMAIN F /\ G[t].path.mnt = m
  BY <1>2 DEF InMount
<1> HIDE DEF S, T
<1>4. IsFiniteSet(DOMAIN F)
  BY <1>1, SlotsFinite
<1>5. S \subseteq DOMAIN F /\ T \subseteq DOMAIN F
  BY <1>3
<1>6. IsFiniteSet(S) /\ IsFiniteSet(T)
  BY <1>4, <1>5, FS_Subset
<1>7. S \ {s} = T \ {s}
  BY <1>2, <1>3
<1>8. (s \in S <=> F[s].path.mnt = m) /\ (s \in T <=> f.path.mnt = m)
  BY <1>2, <1>3
<1>9. T \subseteq S \union {t \in {s} : f.path.mnt = m}
  BY <1>2, <1>3
<1>10. /\ Cardinality(S) \in Nat /\ Cardinality(T) \in Nat
       /\ Cardinality(T) + (IF s \in S THEN 1 ELSE 0) = Cardinality(S) + (IF s \in T THEN 1 ELSE 0)
  BY <1>6, <1>7, OneMoved
<1>11. /\ Cardinality(S) \in Nat /\ Cardinality(T) \in Nat
       /\ Cardinality(T) + (IF F[s].path.mnt = m THEN 1 ELSE 0)
            = Cardinality(S) + (IF f.path.mnt = m THEN 1 ELSE 0)
  BY <1>8, <1>10
<1> QED BY <1>2, <1>9, <1>11 DEF S, T, Given

LEMMA NoFileFacts ==
  /\ ClosedFile \in OpenType /\ ClosedFile.path = Empty /\ ClosedFile.path.mnt = NoMount
  /\ FileOK(ClosedFile) /\ NoMount \notin Mounts
<1>1. Empty \in PathsIn(Mounts) /\ Empty.mnt = NoMount
  BY RootPaths
<1>2. NoIno \in Int
  BY DEF NoIno
<1>3. ClosedFile \in OpenType /\ ClosedFile.path = Empty
  BY <1>1, <1>2 DEF ClosedFile, OpenType
<1>4. FileOK(ClosedFile)
  BY DEF FileOK
<1> QED BY <1>1, <1>3, <1>4, MountFacts

\* A mount that a path may lead to now.
Reachable(m) == m \in Mounts /\ (mounttable = <<1>> => m = 1) /\ (~Restart => mounttable = <<m>>)

LEMMA OpenFacts ==
  ASSUME NamesInv, NEW s \in DOMAIN files
  PROVE  /\ files[s] \in OpenType /\ files[s].path \in PathsIn(Mounts)
         /\ IsOpen(s) <=> files[s].path.mnt # NoMount
         /\ IsOpen(s) => Reachable(files[s].path.mnt)
<1>1. files[s] \in OpenType
  BY DEF NamesInv, SlotsType
<1>2. files[s].path \in PathsIn(Mounts)
  BY <1>1 DEF OpenType
<1>3. FileOK(files[s])
  BY DEF NamesInv
<1>4. IsOpen(s) => files[s].path.mnt \in Mounts
  BY <1>3 DEF FileOK, IsOpen
<1>5. IsOpen(s) <=> files[s].path.mnt # NoMount
  BY <1>4, NoFileFacts DEF IsOpen
<1>6. ASSUME IsOpen(s) PROVE Reachable(files[s].path.mnt)
  <2>1. mounttable = <<1>> => files[s].path.mnt # 2
    BY DEF NamesInv, InMount
  <2>2. ~Restart => mounttable = <<files[s].path.mnt>>
    BY <1>6 DEF NamesInv
  <2> QED BY <1>4, <1>6, <2>1, <2>2, MountFacts DEF Reachable
<1> QED BY <1>1, <1>2, <1>5, <1>6

\* The count of a mount that a file lies in.
LEMMA FileIsCounted ==
  ASSUME NamesInv, NEW s \in DOMAIN files, IsOpen(s)
  PROVE  LET m == files[s].path.mnt IN
         m \in Mounts /\ refs[m] \in Nat /\ refs[m] >= 1 /\ (~Restart => refs[m] >= 2)
<1> DEFINE m == files[s].path.mnt
           C == Cardinality(InMount(files, m))
<1>1. m \in Mounts /\ (~Restart => mounttable = <<m>>)
  BY OpenFacts DEF Reachable
<1> HIDE DEF m
<1>2. C \in Nat /\ C >= 1
  <2>1. files \in SlotsType /\ s \in InMount(files, m)
    BY DEF NamesInv, InMount, m
  <2>2. IsFiniteSet(InMount(files, m))
    <3>1. IsFiniteSet(DOMAIN files)
      <4>1. DOMAIN files = Slots \union {Cwd}
        BY <2>1 DEF SlotsType
      <4> QED BY <4>1, SlotsFinite
    <3>2. InMount(files, m) \subseteq DOMAIN files
      BY DEF InMount
    <3> QED BY <3>1, <3>2, FS_Subset
  <2>3. C \in Nat /\ C # 0
    BY <2>1, <2>2, FS_CardinalityType, FS_EmptySet
  <2> QED BY <2>3
<1> HIDE DEF C
<1>3. /\ refs[m] = (IF mounttable = <<m>> THEN 1 ELSE 0) + C + leaked[m]
      /\ refs[m] \in Nat /\ leaked[m] \in 0 .. MaxLeaks
  BY <1>1 DEF NamesInv, C
<1>4. leaked[m] \in Nat
  BY <1>3, NamesAssumption
<1> DEFINE b == IF mounttable = <<m>> THEN 1 ELSE 0
<1>5. refs[m] = b + C + leaked[m] /\ b \in Nat /\ (mounttable = <<m>> => b = 1)
  BY <1>3
<1> HIDE DEF b
<1>6. refs[m] >= 1 /\ (mounttable = <<m>> => refs[m] >= 2)
  BY <1>2, <1>4, <1>5
<1> QED BY <1>1, <1>3, <1>6 DEF m

LEMMA FoundFile ==
  ASSUME NamesInv, NEW rel, rel = Empty \/ \E s \in DOMAIN files : rel = files[s].path,
         NEW n \in PathnameType, NEW f, f = Found(rel, n), f # ClosedFile
  PROVE  f \in OpenType /\ FileOK(f) /\ Reachable(f.path.mnt)
<1>1. PICK m \in Mounts : mounttable = <<m>>
  BY MountFacts DEF NamesInv
<1>2. rel \in PathsIn(Mounts) /\ (rel.mnt # NoMount => Reachable(rel.mnt))
  BY OpenFacts, RootPaths
<1>3. /\ f.path \in PathsIn(Mounts) /\ f.path.mnt \in Mounts /\ f.path.mnt \in {m, rel.mnt}
      /\ f.ino \in Inodes(f.path.mnt) /\ f = [path |-> f.path, ino |-> f.ino, pos |-> 0]
  BY <1>1, <1>2, FoundIn
<1>4. f.pos = 0 /\ f = [path |-> f.path, ino |-> f.ino, pos |-> f.pos]
  BY <1>3
<1>5. f.ino \in Int /\ Size(f) \in Nat
  BY <1>3, EntryTypes, SMTT(30) DEF Inodes, Size, RootIno
<1>6. f \in OpenType
  BY <1>3, <1>4, <1>5 DEF OpenType
<1>7. FileOK(f)
  BY <1>3, <1>4, <1>5 DEF FileOK
<1>8. Reachable(m)
  BY <1>1, MountFacts DEF Reachable
<1>9. Reachable(f.path.mnt)
  BY <1>2, <1>3, <1>8, MountFacts
<1> QED BY <1>6, <1>7, <1>9

\* A slot is given another file, and the counts follow.
LEMMA SlotChanges ==
  ASSUME NamesInv, NEW s \in DOMAIN files, NEW f \in OpenType, FileOK(f),
         f # ClosedFile => Reachable(f.path.mnt),
         files' = [files EXCEPT ![s] = f], mounttable' = mounttable, leaked' = leaked,
         refs' \in [Mounts -> Int], stale' \in BOOLEAN, ~Restart => ~stale',
         \A m \in Mounts :
           refs'[m] + (IF files[s].path.mnt = m THEN 1 ELSE 0)
             = refs[m] + (IF f.path.mnt = m THEN 1 ELSE 0)
  PROVE  NamesInv'
<1>1. /\ mounttable \in {<<1>>, <<2>>} /\ refs \in [Mounts -> Nat] /\ leaked \in [Mounts -> 0 .. MaxLeaks]
      /\ files \in SlotsType
  BY DEF NamesInv
<1>2. \A m : Given(files, files', s, f, m)
  BY <1>1, MountCounts
<1>2a. /\ files' \in SlotsType /\ DOMAIN files' = DOMAIN files
      /\ \A t \in DOMAIN files : files'[t] = IF t = s THEN f ELSE files[t]
  BY <1>2, Zenon DEF Given
<1>3. \A t \in DOMAIN files : FileOK(files[t])
  BY DEF NamesInv
<1>4. \A t \in DOMAIN files' : FileOK(files'[t])
  <2>1. SUFFICES ASSUME NEW t \in DOMAIN files PROVE FileOK(files'[t])
    BY <1>2a
  <2>2. CASE t = s
    <3>1. files'[t] = f
      BY <1>2a, <2>2
    <3> QED BY <3>1, Zenon
  <2>3. CASE t # s
    <3>1. files'[t] = files[t]
      BY <1>2a, <2>3
    <3> QED BY <1>3, <3>1, Zenon
  <2> QED BY <2>2, <2>3
<1>5. ASSUME NEW m \in Mounts
      PROVE  /\ refs'[m] = (IF mounttable' = <<m>> THEN 1 ELSE 0) + Cardinality(InMount(files', m)) + leaked'[m]
             /\ refs'[m] \in Nat
  <2> DEFINE b == IF mounttable = <<m>> THEN 1 ELSE 0
             C == Cardinality(InMount(files, m))
             D == Cardinality(InMount(files', m))
             x == IF files[s].path.mnt = m THEN 1 ELSE 0
             y == IF f.path.mnt = m THEN 1 ELSE 0
  <2>1. refs[m] = b + C + leaked[m]
    BY DEF NamesInv
  <2>2. refs'[m] + x = refs[m] + y /\ D + x = C + y /\ refs'[m] \in Int /\ leaked' = leaked
    <3>1. D + x = C + y
      BY <1>2, Zenon DEF Given
    <3>2. refs'[m] + x = refs[m] + y /\ refs'[m] \in Int
      OBVIOUS
    <3> QED BY <3>1, <3>2
  <2>3. b \in Nat /\ C \in Nat /\ D \in Nat /\ x \in Nat /\ y \in Nat /\ leaked[m] \in Nat
    <3>1. leaked[m] \in 0 .. MaxLeaks /\ MaxLeaks \in Nat
      BY <1>1, NamesAssumption
    <3>2. C \in Nat /\ D \in Nat
      BY <1>2, Zenon DEF Given
    <3> QED BY <3>1, <3>2
  <2>4. b = IF mounttable' = <<m>> THEN 1 ELSE 0
    OBVIOUS
  <2> HIDE DEF b, C, D, x, y
  <2>5. refs'[m] = b + D + leaked'[m] /\ refs'[m] \in Nat
    BY <2>1, <2>2, <2>3
  <2> QED BY <2>4, <2>5 DEF D
<1>6. refs' \in [Mounts -> Nat]
  BY <1>5
<1>7. mounttable' = <<1>> => leaked'[2] = 0 /\ InMount(files', 2) = {}
  <2>1. SUFFICES ASSUME mounttable = << 1 >> PROVE InMount(files', 2) = {}
    BY DEF NamesInv
  <2>2. InMount(files, 2) = {}
    BY <2>1 DEF NamesInv
  <2>3. f.path.mnt # 2
    BY <2>1, MountFacts, NoFileFacts DEF Reachable
  <2>4. InMount(files', 2) \subseteq InMount(files, 2) \union {t \in {s} : f.path.mnt = 2}
    BY <1>2, Zenon DEF Given
  <2> QED BY <2>2, <2>3, <2>4
<1>8. ~Restart => ~stale' /\ \A t \in DOMAIN files' : files'[t] # ClosedFile => mounttable' = <<files'[t].path.mnt>>
  <2>1. SUFFICES ASSUME ~Restart, NEW t \in DOMAIN files, files'[t] # ClosedFile
                 PROVE  mounttable = <<files'[t].path.mnt>>
    BY <1>2a
  <2>2. CASE t = s
    BY <1>2a, <2>1, <2>2 DEF Reachable
  <2>3. CASE t # s
    <3>1. files[t] # ClosedFile /\ files'[t] = files[t]
      BY <1>2a, <2>1, <2>3
    <3> QED BY <2>1, <3>1 DEF NamesInv, IsOpen
  <2> QED BY <2>2, <2>3
<1> QED BY <1>1, <1>2a, <1>4, <1>5, <1>6, <1>7, <1>8 DEF NamesInv, IsOpen

-----------------------------------------------------------------------------
(* Every operation keeps the invariant. *)

LEMMA InitNames == NamesInit => NamesInv
<1> SUFFICES ASSUME NamesInit PROVE NamesInv
  OBVIOUS
<1>1. /\ mounttable = <<1>> /\ refs = [m \in Mounts |-> IF m = 1 THEN 1 ELSE 0]
      /\ files = [s \in Slots \union {Cwd} |-> ClosedFile] /\ leaked = [m \in Mounts |-> 0]
      /\ stale = FALSE
  BY DEF NamesInit
<1>2. files \in SlotsType /\ \A s \in DOMAIN files : files[s] = ClosedFile
  BY <1>1, NoFileFacts DEF SlotsType
<1>3. \A m \in Mounts : InMount(files, m) = {}
  BY <1>2, NoFileFacts DEF InMount
<1>4. MaxLeaks \in Nat
  BY NamesAssumption
<1>5. refs \in [Mounts -> Nat] /\ leaked \in [Mounts -> 0 .. MaxLeaks] /\ stale \in BOOLEAN
  <2>1. stale \in BOOLEAN
    BY <1>1
  <2>2. refs \in [Mounts -> Nat]
    BY <1>1
  <2>3. leaked \in [Mounts -> 0 .. MaxLeaks]
    BY <1>1, <1>4
  <2> QED BY <2>1, <2>2, <2>3
<1>6. ASSUME NEW m \in Mounts
      PROVE  refs[m] = (IF mounttable = <<m>> THEN 1 ELSE 0) + Cardinality(InMount(files, m)) + leaked[m]
  <2>1. Cardinality(InMount(files, m)) = 0
    BY <1>3, FS_EmptySet
  <2>2. mounttable = <<m>> <=> m = 1
    BY <1>1, MountFacts
  <2> QED BY <1>1, <2>1, <2>2
<1>7. leaked[2] = 0 /\ InMount(files, 2) = {}
  BY <1>1, <1>3, MountFacts
<1>8. \A s \in DOMAIN files : FileOK(files[s])
  BY <1>2, NoFileFacts
<1>9. ~stale /\ \A s \in DOMAIN files : ~IsOpen(s)
  BY <1>1, <1>2 DEF IsOpen
<1>10. mounttable \in {<<1>>, <<2>>}
  BY <1>1
<1> QED BY <1>2, <1>5, <1>6, <1>7, <1>8, <1>9, <1>10, Zenon DEF NamesInv

LEMMA OpensStep ==
  ASSUME NamesInv, NEW s \in DOMAIN files, ~IsOpen(s), NEW n \in PathnameType,
         NEW rel, rel = Empty \/ \E t \in DOMAIN files : rel = files[t].path, Opens(s, rel, n)
  PROVE  NamesInv'
<1> DEFINE f == Found(rel, n)
<1>1. /\ f # ClosedFile /\ files' = [files EXCEPT ![s] = f] /\ refs' = [refs EXCEPT ![f.path.mnt] = @ + 1]
      /\ mounttable' = mounttable /\ leaked' = leaked /\ stale' = stale
  BY DEF Opens
<1>2. f \in OpenType /\ FileOK(f) /\ Reachable(f.path.mnt)
  BY <1>1, FoundFile
<1> HIDE DEF f
<1>3. files[s].path.mnt \notin Mounts
  BY NoFileFacts DEF IsOpen
<1>4. refs \in [Mounts -> Nat] /\ stale \in BOOLEAN /\ (~Restart => ~stale)
  BY DEF NamesInv
<1>5. f.path.mnt \in Mounts
  BY <1>2 DEF Reachable
<1>6. /\ refs' \in [Mounts -> Int]
      /\ \A m \in Mounts : refs'[m] + (IF files[s].path.mnt = m THEN 1 ELSE 0)
                             = refs[m] + (IF f.path.mnt = m THEN 1 ELSE 0)
  BY <1>1, <1>3, <1>4, <1>5
<1> QED BY <1>1, <1>2, <1>4, <1>6, SlotChanges

\* Closing what a slot has, and giving it what it has already or something new.
LEMMA PutStep ==
  ASSUME NamesInv, NEW s \in DOMAIN files, IsOpen(s),
         NEW f \in OpenType, FileOK(f), f # ClosedFile => Reachable(f.path.mnt),
         files' = [files EXCEPT ![s] = f], Closes(files[s]),
         f = ClosedFile => refs' = PutMount(refs, files[s].path.mnt),
         f # ClosedFile => refs' = PutMount([refs EXCEPT ![f.path.mnt] = @ + 1], files[s].path.mnt)
  PROVE  NamesInv'
<1> DEFINE k == files[s].path.mnt
           j == f.path.mnt
<1>1. k \in Mounts /\ refs[k] \in Nat /\ refs[k] >= 1 /\ (~Restart => refs[k] >= 2)
  BY FileIsCounted
<1>2. refs \in [Mounts -> Nat] /\ stale \in BOOLEAN /\ (~Restart => ~stale)
  BY DEF NamesInv
<1>3. mounttable' = mounttable /\ leaked' = leaked /\ stale' \in BOOLEAN /\ (~Restart => ~stale')
  <2>1. mounttable' = mounttable /\ leaked' = leaked /\ stale' = (stale \/ refs[k] = 1)
    BY DEF Closes
  <2> HIDE DEF k
  <2> QED BY <1>1, <1>2, <2>1
<1>4. CASE f = ClosedFile
  <2>1. refs' = [refs EXCEPT ![k] = @ - 1] /\ j \notin Mounts
    BY <1>4, NoFileFacts DEF PutMount
  <2> HIDE DEF k, j
  <2>2. /\ refs' \in [Mounts -> Int]
        /\ \A m \in Mounts : refs'[m] + (IF k = m THEN 1 ELSE 0) = refs[m] + (IF j = m THEN 1 ELSE 0)
    BY <1>1, <1>2, <2>1
  <2> QED BY <1>3, <2>2, SlotChanges DEF k, j
<1>5. CASE f # ClosedFile
  <2>1. refs' = [[refs EXCEPT ![j] = @ + 1] EXCEPT ![k] = @ - 1] /\ j \in Mounts
    BY <1>5 DEF PutMount, Reachable
  <2> HIDE DEF k, j
  <2>2. /\ refs' \in [Mounts -> Int]
        /\ \A m \in Mounts : refs'[m] + (IF k = m THEN 1 ELSE 0) = refs[m] + (IF j = m THEN 1 ELSE 0)
    BY <1>1, <1>2, <2>1
  <2> QED BY <1>3, <1>5, <2>2, SlotChanges DEF k, j
<1> QED BY <1>4, <1>5

LEMMA CloseStep == ASSUME NamesInv, NEW s \in DOMAIN files, Close(s) PROVE NamesInv'
<1>1. /\ IsOpen(s) /\ files' = [files EXCEPT ![s] = ClosedFile]
      /\ refs' = PutMount(refs, files[s].path.mnt) /\ Closes(files[s])
  BY DEF Close
<1> QED BY <1>1, NoFileFacts, PutStep

LEMMA ChangeDirectoryStep ==
  ASSUME NamesInv, NEW n \in PathnameType, ChangeDirectory(n) PROVE NamesInv'
<1> DEFINE f == Found(files[Cwd].path, n)
<1>1. /\ IsOpen(Cwd) /\ f # ClosedFile /\ files' = [files EXCEPT ![Cwd] = f]
      /\ refs' = PutMount([refs EXCEPT ![f.path.mnt] = @ + 1], files[Cwd].path.mnt)
      /\ Closes(files[Cwd])
  BY DEF ChangeDirectory, InLinux
<1>2. Cwd \in DOMAIN files
  BY DEF NamesInv, SlotsType
<1>3. f \in OpenType /\ FileOK(f) /\ Reachable(f.path.mnt)
  BY <1>1, <1>2, FoundFile
<1> HIDE DEF f
<1> QED BY <1>1, <1>2, <1>3, PutStep

LEMMA OpenNameStep ==
  ASSUME NamesInv, NEW s \in Slots, NEW n \in PathnameType, OpenName(s, n) PROVE NamesInv'
<1>1. s \in DOMAIN files /\ Cwd \in DOMAIN files
  BY DEF NamesInv, SlotsType
<1> QED BY <1>1, OpensStep DEF OpenName

LEMMA StartStep == ASSUME NamesInv, Start PROVE NamesInv'
<1>1. Cwd \in DOMAIN files
  BY DEF NamesInv, SlotsType
<1>2. Pathname(TRUE, <<>>) \in PathnameType
  BY DEF Pathname, PathnameType
<1> QED BY <1>1, <1>2, OpensStep DEF Start

\* Nobody leaks before the switch.
LEMMA InLinuxFacts == NamesInv /\ InLinux => mounttable # <<1>> /\ Cwd \in DOMAIN files
<1> SUFFICES ASSUME NamesInv, InLinux PROVE mounttable # <<1>> /\ Cwd \in DOMAIN files
  OBVIOUS
<1>1. Cwd \in DOMAIN files /\ files[Cwd].path.mnt = 2
  BY DEF NamesInv, SlotsType, InLinux
<1>2. InMount(files, 2) # {}
  BY <1>1 DEF InMount
<1> QED BY <1>1, <1>2 DEF NamesInv

LEMMA LeakStep ==
  ASSUME NamesInv, InLinux, NEW m \in Mounts, Leak(m)
  PROVE  NamesInv'
<1>1. /\ leaked[m] < MaxLeaks
      /\ refs' = [refs EXCEPT ![m] = @ + 1] /\ leaked' = [leaked EXCEPT ![m] = @ + 1]
      /\ mounttable' = mounttable /\ files' = files /\ stale' = stale
  BY DEF Leak, MayLeak
<1>2. /\ mounttable \in {<<1>>, <<2>>} /\ refs \in [Mounts -> Nat] /\ leaked \in [Mounts -> 0 .. MaxLeaks]
      /\ stale \in BOOLEAN /\ files \in SlotsType /\ \A s \in DOMAIN files : FileOK(files[s])
      /\ ~Restart => ~stale /\ \A s \in DOMAIN files : IsOpen(s) => mounttable = <<files[s].path.mnt>>
  BY DEF NamesInv
<1>3. MaxLeaks \in Nat /\ mounttable # <<1>>
  BY NamesAssumption, InLinuxFacts
<1>4. refs' \in [Mounts -> Nat]
  BY <1>1, <1>2
<1>5. leaked' \in [Mounts -> 0 .. MaxLeaks]
  BY <1>1, <1>2, <1>3
<1>6. ASSUME NEW k \in Mounts
      PROVE  refs'[k] = (IF mounttable' = <<k>> THEN 1 ELSE 0) + Cardinality(InMount(files', k)) + leaked'[k]
  <2> DEFINE b == IF mounttable = <<k>> THEN 1 ELSE 0
             C == Cardinality(InMount(files, k))
  <2>1. refs[k] = b + C + leaked[k]
    BY DEF NamesInv
  <2>2. IsFiniteSet(DOMAIN files)
    <3>1. DOMAIN files = Slots \union {Cwd}
      BY <1>2 DEF SlotsType
    <3> QED BY <3>1, SlotsFinite
  <2>3. b \in Nat /\ C \in Nat
    <3>1. InMount(files, k) \subseteq DOMAIN files
      BY DEF InMount
    <3> QED BY <2>2, <3>1, FS_Subset, FS_CardinalityType
  <2>4. /\ b = IF mounttable' = <<k>> THEN 1 ELSE 0
        /\ C = Cardinality(InMount(files', k))
    BY <1>1
  <2> HIDE DEF b, C
  <2>5. refs'[k] = b + C + leaked'[k]
    BY <1>1, <1>2, <2>1, <2>3
  <2> QED BY <2>4, <2>5
<1>7. /\ ~Restart => ~stale' /\ \A s \in DOMAIN files' : files'[s] # ClosedFile => mounttable' = <<files'[s].path.mnt>>
      /\ mounttable' \in {<<1>>, <<2>>} /\ stale' \in BOOLEAN /\ files' \in SlotsType
      /\ \A s \in DOMAIN files' : FileOK(files'[s])
  BY <1>1, <1>2 DEF IsOpen
<1> QED BY <1>1, <1>3, <1>4, <1>5, <1>6, <1>7 DEF NamesInv, IsOpen

LEMMA OpenFailsStep == ASSUME NamesInv, NEW n \in PathnameType, OpenFails(n) PROVE NamesInv'
<1> DEFINE f == Found(files[Cwd].path, n)
<1>1. InLinux /\ f # ClosedFile /\ Leak(f.path.mnt)
  BY DEF OpenFails
<1>2. f.path.mnt \in Mounts
  BY <1>1, FoundFile, InLinuxFacts DEF Reachable
<1> HIDE DEF f
<1> QED BY <1>1, <1>2, LeakStep

LEMMA GetcwdStep == ASSUME NamesInv, Getcwd PROVE NamesInv'
<1>1. InLinux /\ files[Cwd].path.mnt \in Mounts /\ Leak(files[Cwd].path.mnt)
  BY MountFacts DEF Getcwd, InLinux
<1> QED BY <1>1, LeakStep

\* The file of a slot moves to a place that is not after its end.
LEMMA MovesStep ==
  ASSUME NamesInv, NEW s \in DOMAIN files, IsOpen(s), NEW pos \in Nat, pos <= Size(files[s]),
         files' = [files EXCEPT ![s].pos = pos], UNCHANGED <<mounttable, refs, leaked, stale>>
  PROVE  NamesInv'
<1> DEFINE f == [files[s] EXCEPT !.pos = pos]
<1>1. files[s] \in OpenType /\ Reachable(files[s].path.mnt) /\ FileOK(files[s])
  BY OpenFacts DEF NamesInv
<1>2. /\ f \in OpenType /\ f.path = files[s].path /\ f.ino = files[s].ino /\ f.pos = pos
      /\ files' = [files EXCEPT ![s] = f]
  BY <1>1 DEF OpenType
<1> HIDE DEF f
<1>3. Size(f) = Size(files[s])
  BY <1>2 DEF Size
<1>4. FileOK(f) /\ Reachable(f.path.mnt)
  BY <1>1, <1>2, <1>3 DEF FileOK, IsOpen
<1>5. /\ refs' \in [Mounts -> Int] /\ stale' \in BOOLEAN /\ (~Restart => ~stale')
      /\ \A m \in Mounts : refs'[m] = refs[m] /\ refs[m] \in Nat
  BY DEF NamesInv
<1>6. \A m \in Mounts : refs'[m] + (IF files[s].path.mnt = m THEN 1 ELSE 0)
                          = refs[m] + (IF f.path.mnt = m THEN 1 ELSE 0)
  BY <1>2, <1>5
<1> QED BY <1>2, <1>4, <1>5, <1>6, SlotChanges

LEMMA SizeType ==
  ASSUME NamesInv, NEW s \in DOMAIN files, IsOpen(s)
  PROVE  Size(files[s]) \in Nat /\ files[s].pos \in 0 .. Size(files[s])
<1>1. files[s] \in OpenType /\ FileOK(files[s])
  BY OpenFacts DEF NamesInv
<1>2. files[s].ino \in Inodes(files[s].path.mnt) /\ files[s].pos <= Size(files[s])
  BY <1>1 DEF FileOK, IsOpen
<1>3. Size(files[s]) \in Nat
  BY <1>2, EntryTypes DEF Size
<1>4. files[s].pos \in Nat
  BY <1>1 DEF OpenType
<1> QED BY <1>2, <1>3, <1>4

LEMMA SeekStep ==
  ASSUME NamesInv, NEW s \in Slots, NEW from \in {"set", "cur", "end"}, NEW offset \in Int, Seek(s, from, offset)
  PROVE  NamesInv'
<1> DEFINE f == files[s]
           at == CASE from = "set" -> 0 [] from = "cur" -> f.pos [] from = "end" -> Size(f)
           pos == offset + at
<1>1. /\ IsOpen(s) /\ pos >= 0 /\ pos < Size(f) /\ files' = [files EXCEPT ![s].pos = pos]
      /\ UNCHANGED <<mounttable, refs, leaked, stale>>
  BY DEF Seek, MayBeAt
<1>2. s \in DOMAIN files
  BY DEF NamesInv, SlotsType
<1>3. Size(f) \in Nat /\ f.pos \in 0 .. Size(f)
  BY <1>1, <1>2, SizeType
<1>4. at \in Int
  BY <1>3
<1> HIDE DEF at
<1>5. pos \in Nat /\ pos <= Size(f)
  BY <1>1, <1>3, <1>4
<1> HIDE DEF pos
<1> QED BY <1>1, <1>2, <1>5, MovesStep

LEMMA ReadStep ==
  ASSUME NamesInv, NEW s \in Slots, NEW nbytes \in Nat, Read(s, nbytes)
  PROVE  NamesInv'
<1> DEFINE f == files[s]
           left == (Size(f) - f.pos) % 65536
           n == IF nbytes > left THEN left ELSE nbytes
           pos == f.pos + n
<1>1. /\ IsOpen(s) /\ files' = [files EXCEPT ![s].pos = @ + n]
      /\ UNCHANGED <<mounttable, refs, leaked, stale>>
  BY DEF Read
<1>2. s \in DOMAIN files
  BY DEF NamesInv, SlotsType
<1>3. Size(f) \in Nat /\ f.pos \in 0 .. Size(f)
  BY <1>1, <1>2, SizeType
<1>4. left \in Nat /\ left <= Size(f) - f.pos
  <2>1. \A k \in Nat : k % 65536 \in Nat /\ k % 65536 <= k
    OBVIOUS
  <2>2. Size(f) - f.pos \in Nat
    BY <1>3
  <2> QED BY <2>1, <2>2
<1> HIDE DEF left
<1>5. n \in Nat /\ n <= left
  BY <1>4
<1> HIDE DEF n
<1>6. pos \in Nat /\ pos <= Size(f)
  BY <1>3, <1>4, <1>5
<1>7. files' = [files EXCEPT ![s].pos = pos]
  BY <1>1
<1> HIDE DEF pos
<1> QED BY <1>1, <1>2, <1>6, <1>7, MovesStep

LEMMA SwitchStep == ASSUME NamesInv, Switch PROVE NamesInv'
<1> DEFINE m == CheckMnt(root_path).mnt
<1>1. /\ mounttable = <<1>> /\ (Restart \/ \A s \in DOMAIN files : ~IsOpen(s))
      /\ refs' = [PutMount(refs, m) EXCEPT ![2] = 1]
      /\ files' = files /\ leaked' = leaked /\ stale' = stale
      /\ \E i \in DOMAIN mounttable :
           mounttable[i] = m /\ mounttable' = Append(RemoveAt(mounttable, i), 2)
  BY DEF Switch
<1> HIDE DEF m
<1>2. m = 1 /\ mounttable' = <<2>>
  <2>1. DOMAIN mounttable = {1} /\ mounttable[1] = 1
    BY <1>1
  <2>2. m = 1 /\ mounttable' = Append(RemoveAt(<<1>>, 1), 2)
    BY <1>1, <2>1
  <2>3. RemoveAt(<<1>>, 1) = <<>>
    BY DEF RemoveAt
  <2>4. Append(<<>>, 2) = <<2>>
    OBVIOUS
  <2> QED BY <2>2, <2>3, <2>4, Zenon
<1>3. /\ refs \in [Mounts -> Nat] /\ leaked \in [Mounts -> 0 .. MaxLeaks] /\ stale \in BOOLEAN
      /\ files \in SlotsType /\ \A s \in DOMAIN files : FileOK(files[s])
      /\ leaked[2] = 0 /\ InMount(files, 2) = {} /\ (~Restart => ~stale)
  BY <1>1 DEF NamesInv
<1>4. refs' = [[refs EXCEPT ![1] = @ - 1] EXCEPT ![2] = 1]
  BY <1>1, <1>2 DEF PutMount
<1> DEFINE C == Cardinality(InMount(files, 1))
<1>5. refs[1] = 1 + C + leaked[1] /\ C \in Nat /\ leaked[1] \in Nat
  <2>1. refs[1] = 1 + C + leaked[1]
    BY <1>1, MountFacts DEF NamesInv
  <2>2. IsFiniteSet(DOMAIN files)
    <3>1. DOMAIN files = Slots \union {Cwd}
      BY <1>3 DEF SlotsType
    <3> QED BY <3>1, SlotsFinite
  <2>3. C \in Nat
    <3>1. InMount(files, 1) \subseteq DOMAIN files
      BY DEF InMount
    <3> QED BY <2>2, <3>1, FS_Subset, FS_CardinalityType
  <2>4. leaked[1] \in Nat
    BY <1>3, MountFacts, NamesAssumption
  <2> QED BY <2>1, <2>3, <2>4
<1>6. C = Cardinality(InMount(files', 1))
  BY <1>1
<1> HIDE DEF C
<1>7. refs' \in [Mounts -> Nat] /\ refs'[1] = C + leaked'[1] /\ refs'[2] = 1
  <2>1. refs'[1] = refs[1] - 1 /\ refs'[2] = 1
    BY <1>3, <1>4, MountFacts
  <2>2. refs'[1] \in Nat
    BY <1>5, <2>1
  <2>3. refs' \in [Mounts -> Nat]
    BY <1>3, <1>4, <2>1, <2>2, MountFacts
  <2> QED BY <1>1, <1>5, <2>1, <2>3
<1>8. ASSUME NEW k \in Mounts
      PROVE  refs'[k] = (IF mounttable' = <<k>> THEN 1 ELSE 0) + Cardinality(InMount(files', k)) + leaked'[k]
  <2>1. CASE k = 1
    <3>1. mounttable' # <<k>>
      BY <1>2, <2>1, MountFacts
    <3> QED BY <1>1, <1>5, <1>6, <1>7, <2>1, <3>1
  <2>2. CASE k = 2
    <3>1. Cardinality(InMount(files', k)) = 0 /\ leaked'[k] = 0
      BY <1>1, <1>3, <2>2, FS_EmptySet
    <3> QED BY <1>2, <1>7, <2>2, <3>1
  <2> QED BY <2>1, <2>2, MountFacts
<1>9. mounttable' # <<1>>
  BY <1>2, MountFacts
<1>10. ~Restart => ~stale' /\ \A s \in DOMAIN files' : files'[s] = ClosedFile
  BY <1>1, <1>3 DEF IsOpen
<1> QED BY <1>1, <1>2, <1>3, <1>7, <1>8, <1>9, <1>10 DEF NamesInv, IsOpen

LEMMA NamesStep == NamesInv /\ [NamesNext]_namesvars => NamesInv'
<1> SUFFICES ASSUME NamesInv, [NamesNext]_namesvars PROVE NamesInv'
  OBVIOUS
<1>1. Called \subseteq PathnameType /\ Amounts \subseteq Nat
  BY NamesAssumption
<1>2. CASE Start
  BY <1>2, StartStep
<1>3. CASE Getcwd
  BY <1>3, GetcwdStep
<1>4. CASE Switch
  BY <1>4, SwitchStep
<1>5. CASE \E n \in Called : OpenFails(n) \/ ChangeDirectory(n) \/ \E s \in Slots : OpenName(s, n)
  BY <1>1, <1>5, OpenFailsStep, ChangeDirectoryStep, OpenNameStep
<1>6. CASE \E s \in DOMAIN files : Close(s)
  BY <1>6, CloseStep
<1>7. CASE \E s \in Slots, k \in Amounts :
             \/ Read(s, k)
             \/ \E from \in {"set", "cur", "end"}, offset \in {k, -k} : Seek(s, from, offset)
  <2>1. PICK s \in Slots, k \in Amounts :
               \/ Read(s, k)
               \/ \E from \in {"set", "cur", "end"}, offset \in {k, -k} : Seek(s, from, offset)
    BY <1>7
  <2>2. k \in Nat /\ -k \in Int
    BY <1>1
  <2>3. CASE Read(s, k)
    BY <2>2, <2>3, ReadStep
  <2>4. CASE \E from \in {"set", "cur", "end"}, offset \in {k, -k} : Seek(s, from, offset)
    BY <2>2, <2>4, SeekStep
  <2> QED BY <2>1, <2>3, <2>4
<1>8. CASE UNCHANGED namesvars
  BY <1>8 DEF namesvars, NamesInv, IsOpen
<1> QED BY <1>2, <1>3, <1>4, <1>5, <1>6, <1>7, <1>8 DEF NamesNext

LEMMA InvGivesNames == NamesInv => NamesTypeOK
<1> SUFFICES ASSUME NamesInv PROVE NamesTypeOK
  OBVIOUS
<1>1. /\ mounttable \in {<<1>>, <<2>>} /\ refs \in [Mounts -> Nat] /\ leaked \in [Mounts -> 0 .. MaxLeaks]
      /\ stale \in BOOLEAN /\ DOMAIN files = Slots \union {Cwd}
  BY DEF NamesInv, SlotsType
<1>2. ASSUME NEW s \in DOMAIN files, IsOpen(s)
      PROVE  /\ files[s].path.mnt \in Mounts /\ ~files[s].path.absolute
             /\ files[s].ino \in {RootIno} \union DOMAIN Entries(files[s].path.mnt)
             /\ files[s].pos \in 0 .. Size(files[s])
  <2>1. files[s].path \in PathsIn(Mounts) /\ files[s].path.mnt # NoMount
    BY <1>2, OpenFacts
  <2>2. FileOK(files[s])
    BY DEF NamesInv
  <2>3. files[s].path.mnt \in Mounts /\ files[s].ino \in Inodes(files[s].path.mnt)
    BY <1>2, <2>2 DEF FileOK, IsOpen
  <2>4. ~files[s].path.absolute
    BY <2>1 DEF PathsIn
  <2> QED BY <1>2, <2>3, <2>4, SizeType DEF Inodes
<1> QED BY <1>1, <1>2 DEF NamesTypeOK

\* The two ways to count the mounts of the table.
LEMMA TableCount ==
  ASSUME NEW m, NEW k, mounttable = <<k>>
  PROVE  Cardinality({i \in DOMAIN mounttable : mounttable[i] = m}) = IF mounttable = <<m>> THEN 1 ELSE 0
<1> DEFINE S == {i \in DOMAIN mounttable : mounttable[i] = m}
<1>1. DOMAIN mounttable = {1} /\ mounttable[1] = k
  OBVIOUS
<1>2. CASE m = k
  <2>1. S = {1}
    BY <1>1, <1>2
  <2>2. Cardinality({1}) = 1
    BY FS_Singleton
  <2> QED BY <1>2, <2>1, <2>2
<1>3. CASE m # k
  <2>1. S = {} /\ mounttable # <<m>>
    BY <1>1, <1>3, MountFacts
  <2>2. Cardinality({}) = 0
    BY FS_EmptySet
  <2> HIDE DEF S
  <2> QED BY <2>1, <2>2 DEF S
<1> QED BY <1>2, <1>3

LEMMA InvGivesHeld == NamesInv /\ ~Restart => MountHeld
<1> SUFFICES ASSUME NamesInv, ~Restart PROVE MountHeld
  OBVIOUS
<1>1. PICK k : mounttable = <<k>>
  BY DEF NamesInv
<1>2. ASSUME NEW m \in Mounts
      PROVE  refs[m] = Cardinality({i \in DOMAIN mounttable : mounttable[i] = m})
                       + Cardinality({s \in DOMAIN files : files[s].path.mnt = m}) + leaked[m]
  <2>1. refs[m] = (IF mounttable = <<m>> THEN 1 ELSE 0) + Cardinality(InMount(files, m)) + leaked[m]
    BY DEF NamesInv
  <2>2. Cardinality({i \in DOMAIN mounttable : mounttable[i] = m}) = IF mounttable = <<m>> THEN 1 ELSE 0
    BY <1>1, TableCount
  <2> QED BY <2>1, <2>2 DEF InMount
<1>3. ~stale
  BY DEF NamesInv
<1> QED BY <1>2, <1>3 DEF MountHeld

\* The mounts, their counts and what is open have their types.
THEOREM NamesTypes == NamesSpec => []NamesTypeOK
<1>1. NamesSpec => []NamesInv
  BY InitNames, NamesStep, PTL DEF NamesSpec
<1> QED BY <1>1, InvGivesNames, PTL

\* While no shell is being restarted when the root is switched, a mount is counted
\* once for the table, for each file in it and for each reference that was lost, and
\* no file is closed after the super block that it belongs to.
THEOREM MountsHeld == ASSUME Restart = FALSE PROVE NamesSpec => []MountHeld
<1>1. NamesSpec => []NamesInv
  BY InitNames, NamesStep, PTL DEF NamesSpec
<1>2. NamesInv => MountHeld
  BY InvGivesHeld
<1> QED BY <1>1, <1>2, PTL

(***************************************************************************)
(* The three components side by side.                                      *)
(***************************************************************************)

\* Whatever the other two have been doing, each keeps its types.
THEOREM TypesCorrect == ASSUME CardQuiet PROVE MCSpec => []TypesOK
<1> DEFINE Inv == CountInv /\ NamesInv /\ NetInv
<1>1. MCInit => Inv
  BY CountsAtFirst, InitNames, InitNet DEF MCInit
<1>2. ASSUME Inv, [MCNext]_<<filesvars, namesvars, netvars>> PROVE Inv'
  <2>1. [FilesNext]_filesvars /\ [NamesNext]_namesvars /\ [NetNext]_netvars
    BY <1>2, Zenon DEF MCNext
  <2> QED BY <1>2, <2>1, CountsNext, NamesStep, NetStep
<1>3. Inv => TypesOK
  BY InvGivesType, InvGivesNames, InvMeans DEF TypesOK
<1> QED BY <1>1, <1>2, <1>3, PTL DEF MCSpec

=============================================================================
