---------------------------- MODULE MemoryProofs ----------------------------
(***************************************************************************)
(* Theorems about memory, for any number of tasks, frames, pages and       *)
(* programs that lie apart from their large page: types; that counts are   *)
(* the numbers of users; that no frame is in use in both sizes; that no    *)
(* BUG is reached.                                                         *)
(*                                                                         *)
(* The proof has two levels.  Counted speaks of a memory as rows of        *)
(* frames, one for each directory, and the lemmas on it say how the counts *)
(* change when a cell or a row does.  Shape speaks of directories and      *)
(* tables, and Maps (by Flat) leads from one level to the other; Good has  *)
(* both.  The lemmas named ...Good and ...Maps say that an operator of     *)
(* paging.c keeps a memory Good and what it maps afterwards; those named   *)
(* ...Sound add what tasks, vidmaps and programs need; and those named     *)
(* ...Keeps put them together, one for each action.                        *)
(***************************************************************************)
EXTENDS Memory, FiniteSetTheorems, WellFoundedInduction, TLAPS

-----------------------------------------------------------------------------
(* Who maps what.  Here a memory is w, the frame (or NoFrame) at each address *)
(* of each directory; ph, the counts; O, the frames the kernel has given out *)
(* to itself; and V, the screen's frame.                                     *)

Cells == UserSlots \X Pages

Users(w, f) == {d \in DOMAIN w : \E a \in Cells : w[d][a] = f}

Usable(f) == f \in Frames /\ f >= Preallocated /\ InitPage[f] = UNUSED

Count(w, O, f) ==
  IF f \in O \/ f < Preallocated THEN KERNEL
  ELSE IF Users(w, f) = {} THEN InitPage[f] ELSE Cardinality(Users(w, f))

Counts(w, ph, O) == \A f \in Frames : ph[f] = Count(w, O, f)

Rows == [Cells -> Frames \union {NoFrame}]

\* What may be in a cell, and in a row.
CellOK(f, O, V) == f = NoFrame \/ f = V \/ (Usable(f) /\ f \notin O)

RowOK(v, O, V) ==
  /\ v \in Rows
  /\ \A a \in Cells : CellOK(v[a], O, V)
  /\ \A a, b \in Cells : v[a] \notin {NoFrame, V} /\ v[a] = v[b] => a = b

Counted(w, ph, O, V) ==
  /\ IsFiniteSet(DOMAIN w)
  /\ w \in [DOMAIN w -> Rows]
  /\ ph \in [Frames -> Int]
  /\ \A f \in O : Usable(f)
  /\ V \in O \union {Screen}
  /\ Counts(w, ph, O)
  /\ \A d \in DOMAIN w : RowOK(w[d], O, V)

Given(ph, F, n) == [i \in Frames |-> IF i \in F THEN n ELSE ph[i]]
Fewer(ph, F) == [i \in Frames |-> IF i \in F THEN ph[i] - 1 ELSE ph[i]]
More(ph, F) == [i \in Frames |-> IF i \in F THEN ph[i] + 1 ELSE ph[i]]

\* The same rows but for one.
RowSet(w, d, v) == [w EXCEPT ![d] = v]

LEMMA NumberFacts ==
  /\ NumEntries \in Nat \ {0} /\ NumLarge \in Nat \ {0} /\ Preallocated \in Nat \ {0}
  /\ Preallocated <= NumLarge
  /\ Frames \subseteq Nat /\ NoFrame \notin Frames
  /\ ~Usable(Screen) /\ ~Usable(NoFrame)
  /\ LargeFrame \subseteq Frames /\ SmallFrame \subseteq Frames
  /\ InitPage \in [Frames -> {UNUSED, KERNEL, UNAVAIL}]
  /\ UNUSED = 0 /\ KERNEL = -1 /\ UNAVAIL = -2
<1>1. /\ NumEntries \in Nat \ {0} /\ NumLarge \in Nat \ {0} /\ Preallocated \in Nat \ {0}
      /\ Preallocated <= NumLarge
  BY MemoryAssumption
<1>2. NumLarge * NumEntries \in Nat
  BY <1>1
<1>3. Frames \subseteq Nat /\ NoFrame \notin Frames
  BY <1>1, <1>2 DEF Frames, LargeFrame, SmallFrame, NoFrame
<1>4. InitPage \in [Frames -> {UNUSED, KERNEL, UNAVAIL}]
  BY DEF InitPage
<1>5. ~Usable(Screen) /\ ~Usable(NoFrame)
  BY <1>1 DEF Usable, Screen, NoFrame
<1> QED BY <1>1, <1>3, <1>4, <1>5 DEF Frames, UNUSED, KERNEL, UNAVAIL

LEMMA UsableFacts ==
  ASSUME NEW f, Usable(f)
  PROVE  f \in Frames /\ f \in Nat /\ f # NoFrame /\ ~(f < Preallocated) /\ InitPage[f] = 0
<1>1. f \in Frames /\ f >= Preallocated /\ InitPage[f] = UNUSED
  BY DEF Usable
<1> QED BY <1>1, NumberFacts

LEMMA UsersFinite ==
  ASSUME NEW w, IsFiniteSet(DOMAIN w), NEW f
  PROVE  /\ Users(w, f) \in SUBSET DOMAIN w
         /\ IsFiniteSet(Users(w, f)) /\ Cardinality(Users(w, f)) \in Nat
         /\ Cardinality(Users(w, f)) <= Cardinality(DOMAIN w)
         /\ Cardinality(Users(w, f)) = 0 <=> Users(w, f) = {}
<1>1. Users(w, f) \in SUBSET DOMAIN w
  BY DEF Users
<1> QED BY <1>1, FS_Subset, FS_CardinalityType, FS_EmptySet

\* A frame whose count is 0 is nobody's.
LEMMA FreshFrame ==
  ASSUME NEW w, NEW ph, NEW O, NEW V, Counted(w, ph, O, V),
         NEW f \in Frames, ph[f] = UNUSED
  PROVE  f \notin O /\ Usable(f) /\ Users(w, f) = {} /\ f # V /\ f # NoFrame
<1>1. Count(w, O, f) = 0
  BY NumberFacts DEF Counted, Counts
<1>2. f \notin O /\ f >= Preallocated
  BY <1>1, NumberFacts DEF Count
<1>3. Users(w, f) = {}
  BY <1>1, <1>2, UsersFinite, NumberFacts DEF Count, Counted
<1>4. InitPage[f] = UNUSED
  BY <1>1, <1>2, <1>3, NumberFacts DEF Count
<1>5. Usable(f)
  BY <1>2, <1>4 DEF Usable
<1> QED BY <1>2, <1>3, <1>5, NumberFacts DEF Counted

\* The kernel takes frames that nobody has.
LEMMA FramesOwned ==
  ASSUME NEW w, NEW ph, NEW O, NEW V, Counted(w, ph, O, V),
         NEW F \in SUBSET Frames, \A f \in F : ph[f] = UNUSED
  PROVE  Counted(w, Given(ph, F, KERNEL), O \union F, V)
<1>1. \A f \in F : f \notin O /\ Usable(f) /\ Users(w, f) = {} /\ f # V /\ f # NoFrame
  BY FreshFrame
<1>2. \A d \in DOMAIN w : \A a \in Cells : w[d][a] \notin F
  BY <1>1 DEF Users
<1>3. Given(ph, F, KERNEL) \in [Frames -> Int]
  BY NumberFacts DEF Counted, Given
<1>4. Counts(w, Given(ph, F, KERNEL), O \union F)
  BY DEF Counted, Counts, Count, Given
<1>5. \A d \in DOMAIN w : RowOK(w[d], O \union F, V)
  BY <1>2 DEF Counted, RowOK, CellOK
<1> QED BY <1>1, <1>3, <1>4, <1>5 DEF Counted

\* It gives them back.
LEMMA FramesGivenBack ==
  ASSUME NEW w, NEW ph, NEW O, NEW V, Counted(w, ph, O, V),
         NEW F \in SUBSET O, V \notin F
  PROVE  Counted(w, Given(ph, F, UNUSED), O \ F, V)
<1>1. \A f \in F : Usable(f) /\ f \in Frames /\ f >= Preallocated /\ InitPage[f] = UNUSED
  BY DEF Counted, Usable
<1>2. \A d \in DOMAIN w : \A a \in Cells : w[d][a] \notin F
  BY <1>1, NumberFacts DEF Counted, RowOK, CellOK
<1>3. \A f \in F : Users(w, f) = {}
  BY <1>2 DEF Users
<1>4. Given(ph, F, UNUSED) \in [Frames -> Int]
  BY NumberFacts DEF Counted, Given
<1>5. Counts(w, Given(ph, F, UNUSED), O \ F)
  <2> SUFFICES ASSUME NEW f \in Frames
               PROVE  Given(ph, F, UNUSED)[f] = Count(w, O \ F, f)
    BY DEF Counts
  <2>1. ph[f] = Count(w, O, f)
    BY DEF Counted, Counts
  <2>2. CASE f \in F
    <3>1. ~(f < Preallocated)
      BY <1>1, <2>2, NumberFacts
    <3> QED BY <1>1, <1>3, <2>2, <3>1 DEF Count, Given
  <2>3. CASE f \notin F
    BY <2>1, <2>3 DEF Count, Given
  <2> QED BY <2>2, <2>3
<1>6. \A d \in DOMAIN w : RowOK(w[d], O \ F, V)
  BY <1>2 DEF Counted, RowOK, CellOK
<1> QED BY <1>4, <1>5, <1>6 DEF Counted

\* A directory maps new frames where it had none.
LEMMA FramesMapped ==
  ASSUME NEW w, NEW ph, NEW O, NEW V, Counted(w, ph, O, V), NEW d \in DOMAIN w,
         NEW F \in SUBSET Frames, \A f \in F : ph[f] = UNUSED,
         NEW v \in Rows,
         \A a \in Cells : v[a] = w[d][a] \/ (w[d][a] = NoFrame /\ v[a] \in F),
         \A a, b \in Cells : v[a] \in F /\ v[a] = v[b] => a = b,
         \A f \in F : \E a \in Cells : v[a] = f
  PROVE  Counted(RowSet(w, d, v), Given(ph, F, 1), O, V)
<1> DEFINE u == RowSet(w, d, v)
<1>1. \A f \in F : f \notin O /\ Usable(f) /\ Users(w, f) = {} /\ f # V /\ f # NoFrame
  BY FreshFrame
<1>2. /\ DOMAIN u = DOMAIN w /\ u \in [DOMAIN u -> Rows] /\ u[d] = v
      /\ \A e \in DOMAIN w : e # d => u[e] = w[e]
  BY DEF Counted, RowSet
<1>3. \A a \in Cells : w[d][a] \notin F
  BY <1>1 DEF Users
<1> HIDE DEF u
<1>4. \A f \in F : Users(u, f) = {d}
  <2> TAKE f \in F
  <2>1. \E a \in Cells : u[d][a] = f
    BY <1>2
  <2>2. \A e \in DOMAIN w : e # d => ~\E a \in Cells : u[e][a] = f
    BY <1>1, <1>2 DEF Users
  <2> QED BY <1>2, <2>1, <2>2 DEF Users
<1>5. \A f \in Frames \ F : Users(u, f) = Users(w, f)
  <2> TAKE f \in Frames \ F
  <2>1. (\E a \in Cells : v[a] = f) <=> \E a \in Cells : w[d][a] = f
    BY NumberFacts
  <2> QED BY <1>2, <2>1 DEF Users
<1>6. \A x : Cardinality({x}) = 1
  BY FS_Singleton
<1>7. Counts(u, Given(ph, F, 1), O)
  <2> SUFFICES ASSUME NEW f \in Frames
               PROVE  Given(ph, F, 1)[f] = Count(u, O, f)
    BY DEF Counts
  <2>1. CASE f \in F
    <3>1. f \notin O /\ ~(f < Preallocated)
      BY <1>1, <2>1, NumberFacts DEF Usable
    <3>2. Count(u, O, f) = 1
      BY <1>4, <1>6, <2>1, <3>1 DEF Count
    <3> QED BY <2>1, <3>2 DEF Given
  <2>2. CASE f \notin F
    <3>1. ph[f] = Count(w, O, f)
      BY DEF Counted, Counts
    <3> QED BY <1>5, <2>2, <3>1 DEF Count, Given
  <2> QED BY <2>1, <2>2
<1>8. RowOK(v, O, V)
  <2>1. RowOK(w[d], O, V)
    BY DEF Counted
  <2>2. \A a \in Cells : CellOK(v[a], O, V)
    BY <1>1, <2>1 DEF RowOK, CellOK
  <2>3. ASSUME NEW a \in Cells, NEW b \in Cells, v[a] \notin {NoFrame, V}, v[a] = v[b]
        PROVE  a = b
    <3>1. CASE v[a] \in F
      BY <2>3, <3>1
    <3>2. CASE v[a] \notin F
      <4>1. v[a] = w[d][a] /\ v[b] = w[d][b]
        BY <2>3, <3>2
      <4> QED BY <2>1, <2>3, <4>1 DEF RowOK
    <3> QED BY <3>1, <3>2
  <2> QED BY <2>2, <2>3 DEF RowOK
<1>9. \A e \in DOMAIN u : RowOK(u[e], O, V)
  BY <1>2, <1>8 DEF Counted
<1>10. Given(ph, F, 1) \in [Frames -> Int]
  BY DEF Counted, Given
<1>11. Counted(u, Given(ph, F, 1), O, V)
  BY <1>2, <1>7, <1>9, <1>10 DEF Counted
<1> QED BY <1>11 DEF u

\* A directory maps some of its frames no more.
LEMMA FramesUnmapped ==
  ASSUME NEW w, NEW ph, NEW O, NEW V, Counted(w, ph, O, V), NEW d \in DOMAIN w,
         NEW A \in SUBSET Cells, \A a \in A : w[d][a] \notin {NoFrame, V}
  PROVE  /\ \A a \in A : w[d][a] \in Frames /\ ph[w[d][a]] > 0
         /\ Counted(RowSet(w, d, [a \in Cells |-> IF a \in A THEN NoFrame ELSE w[d][a]]),
                    Fewer(ph, {w[d][a] : a \in A}), O, V)
<1> DEFINE v == [a \in Cells |-> IF a \in A THEN NoFrame ELSE w[d][a]]
           u == RowSet(w, d, v)
           F == {w[d][a] : a \in A}
<1>0. w[d] \in Rows /\ RowOK(w[d], O, V)
  BY DEF Counted
<1>1. v \in Rows /\ \A a \in Cells : v[a] = IF a \in A THEN NoFrame ELSE w[d][a]
  BY <1>0, NumberFacts DEF Rows
<1>2. /\ DOMAIN u = DOMAIN w /\ u \in [DOMAIN u -> Rows] /\ u[d] = v
      /\ \A e \in DOMAIN w : e # d => u[e] = w[e]
  BY <1>1 DEF Counted, RowSet
<1>3. \A f \in F : f \in Frames /\ Usable(f) /\ f \notin O /\ f # NoFrame /\ f # V
  BY <1>0 DEF RowOK, CellOK, Usable
<1>4. \A a \in Cells : w[d][a] \in F => a \in A
  BY <1>0, <1>3 DEF RowOK
<1>5. \A f \in F : \E a \in A : w[d][a] = f
  OBVIOUS
<1> HIDE DEF u, v, F
<1>6. \A f \in F : d \in Users(w, f) /\ Users(u, f) = Users(w, f) \ {d}
  <2> TAKE f \in F
  <2>1. \E a \in Cells : w[d][a] = f
    BY <1>5
  <2>2. ~\E a \in Cells : v[a] = f
    BY <1>1, <1>3, <1>4
  <2> QED BY <1>2, <2>1, <2>2 DEF Users
<1>7. \A f \in Frames \ F : Users(u, f) = Users(w, f)
  <2> TAKE f \in Frames \ F
  <2>1. \A a \in A : w[d][a] \in F
    BY DEF F
  <2>2. (\E a \in Cells : v[a] = f) <=> \E a \in Cells : w[d][a] = f
    BY <1>1, <2>1, NumberFacts
  <2> QED BY <1>2, <2>2 DEF Users
<1>8. \A f \in F : /\ ph[f] = Cardinality(Users(w, f)) /\ ph[f] \in Nat \ {0}
                   /\ Cardinality(Users(u, f)) = ph[f] - 1
                   /\ f \notin O /\ ~(f < Preallocated) /\ InitPage[f] = 0
  <2> TAKE f \in F
  <2>1. f \notin O /\ f \in Frames /\ ~(f < Preallocated) /\ InitPage[f] = 0
    BY <1>3, UsableFacts
  <2>2. ph[f] = Cardinality(Users(w, f))
    BY <1>6, <2>1 DEF Counted, Counts, Count
  <2>3. Cardinality(Users(w, f)) \in Nat \ {0} /\ IsFiniteSet(Users(w, f))
    BY <1>6, UsersFinite DEF Counted
  <2>4. Cardinality(Users(w, f) \ {d}) = Cardinality(Users(w, f)) - 1
    BY <1>6, <2>3, FS_RemoveElement
  <2> QED BY <1>6, <2>1, <2>2, <2>3, <2>4
<1>9. Counts(u, Fewer(ph, F), O)
  <2> SUFFICES ASSUME NEW f \in Frames
               PROVE  Fewer(ph, F)[f] = Count(u, O, f)
    BY DEF Counts
  <2>1. CASE f \in F
    <3>1. Fewer(ph, F)[f] = ph[f] - 1
      BY <2>1 DEF Fewer
    <3>2. Cardinality(Users(u, f)) = 0 <=> Users(u, f) = {}
      BY <1>2, UsersFinite DEF Counted
    <3> QED BY <1>8, <2>1, <3>1, <3>2 DEF Count
  <2>2. CASE f \notin F
    <3>1. ph[f] = Count(w, O, f)
      BY DEF Counted, Counts
    <3> QED BY <1>7, <2>2, <3>1 DEF Count, Fewer
  <2> QED BY <2>1, <2>2
<1>10. RowOK(v, O, V)
  BY <1>0, <1>1 DEF RowOK, CellOK
<1>11. Fewer(ph, F) \in [Frames -> Int]
  BY DEF Counted, Fewer
<1>12. Counted(u, Fewer(ph, F), O, V)
  BY <1>2, <1>9, <1>10, <1>11 DEF Counted
<1>13. \A a \in A : w[d][a] \in Frames /\ ph[w[d][a]] > 0
  BY <1>3, <1>8 DEF F
<1> QED BY <1>12, <1>13 DEF u, v, F

\* A new directory, with nothing in it or with all that another one has.
LEMMA RowAdded ==
  ASSUME NEW w, NEW ph, NEW O, NEW V, Counted(w, ph, O, V), NEW n, n \notin DOMAIN w
  PROVE  Counted(Put(w, n, [a \in Cells |-> NoFrame]), ph, O, V)
<1> DEFINE v == [a \in Cells |-> NoFrame]
           u == Put(w, n, v)
<1>1. v \in Rows /\ \A a \in Cells : v[a] = NoFrame
  BY DEF Rows
<1>2. /\ DOMAIN u = DOMAIN w \union {n} /\ u[n] = v
      /\ \A e \in DOMAIN w : u[e] = w[e]
  BY DEF Put
<1>3. u \in [DOMAIN u -> Rows]
  BY <1>1 DEF Counted, Put
<1> HIDE DEF u, v
<1>4. \A f \in Frames : Users(u, f) = Users(w, f)
  BY <1>1, <1>2, NumberFacts DEF Users
<1>5. IsFiniteSet(DOMAIN u)
  BY <1>2, FS_AddElement DEF Counted
<1>6. Counts(u, ph, O)
  BY <1>4 DEF Counted, Counts, Count
<1>7. RowOK(v, O, V)
  BY <1>1 DEF RowOK, CellOK
<1>8. \A e \in DOMAIN u : RowOK(u[e], O, V)
  BY <1>2, <1>7 DEF Counted
<1>9. Counted(u, ph, O, V)
  BY <1>3, <1>5, <1>6, <1>8 DEF Counted
<1> QED BY <1>9 DEF u, v

LEMMA RowCopied ==
  ASSUME NEW w, NEW ph, NEW O, NEW V, Counted(w, ph, O, V), NEW n, n \notin DOMAIN w,
         NEW d \in DOMAIN w, \A a \in Cells : w[d][a] # V,
         NEW F, F = {w[d][a] : a \in Cells} \ {NoFrame}
  PROVE  /\ \A f \in F : f \in Frames /\ ph[f] > 0
         /\ Counted(Put(w, n, w[d]), More(ph, F), O, V)
<1> DEFINE u == Put(w, n, w[d])
<1>1. /\ DOMAIN u = DOMAIN w \union {n} /\ u[n] = w[d]
      /\ \A e \in DOMAIN w : u[e] = w[e]
  BY DEF Put
<1>2. u \in [DOMAIN u -> Rows]
  BY <1>1 DEF Counted, Put
<1>3. RowOK(w[d], O, V)
  BY DEF Counted
<1>4. \A f \in F : f \in Frames /\ Usable(f) /\ f \notin O
  BY <1>3 DEF RowOK, CellOK, Usable
<1> HIDE DEF u
<1>5. \A f \in F : d \in Users(w, f) /\ Users(u, f) = Users(w, f) \union {n}
  <2> TAKE f \in F
  <2>1. \E a \in Cells : w[d][a] = f
    OBVIOUS
  <2> QED BY <1>1, <2>1 DEF Users
<1>6. \A f \in Frames \ F : Users(u, f) = Users(w, f)
  <2> TAKE f \in Frames \ F
  <2>1. ~\E a \in Cells : w[d][a] = f
    BY NumberFacts
  <2> QED BY <1>1, <2>1 DEF Users
<1>7. \A f \in F : /\ ph[f] = Cardinality(Users(w, f)) /\ ph[f] \in Nat \ {0}
                   /\ Cardinality(Users(u, f)) = ph[f] + 1 /\ Users(u, f) # {}
                   /\ f \notin O /\ ~(f < Preallocated)
  <2> TAKE f \in F
  <2>1. f \notin O /\ f \in Frames /\ ~(f < Preallocated)
    BY <1>4, UsableFacts
  <2>2. ph[f] = Cardinality(Users(w, f))
    BY <1>5, <2>1 DEF Counted, Counts, Count
  <2>3. Cardinality(Users(w, f)) \in Nat \ {0} /\ IsFiniteSet(Users(w, f))
    BY <1>5, UsersFinite DEF Counted
  <2>4. n \notin Users(w, f)
    BY DEF Users
  <2>5. Cardinality(Users(w, f) \union {n}) = Cardinality(Users(w, f)) + 1
    BY <2>3, <2>4, FS_AddElement
  <2> QED BY <1>5, <2>1, <2>2, <2>3, <2>5
<1>8. Counts(u, More(ph, F), O)
  <2> SUFFICES ASSUME NEW f \in Frames
               PROVE  More(ph, F)[f] = Count(u, O, f)
    BY DEF Counts
  <2>1. CASE f \in F
    <3>1. More(ph, F)[f] = ph[f] + 1
      BY <2>1 DEF More
    <3> QED BY <1>7, <2>1, <3>1 DEF Count
  <2>2. CASE f \notin F
    <3>1. ph[f] = Count(w, O, f)
      BY DEF Counted, Counts
    <3> QED BY <1>6, <2>2, <3>1 DEF Count, More
  <2> QED BY <2>1, <2>2
<1>9. IsFiniteSet(DOMAIN u)
  BY <1>1, FS_AddElement DEF Counted
<1>10. \A e \in DOMAIN u : RowOK(u[e], O, V)
  BY <1>1, <1>3 DEF Counted
<1>11. More(ph, F) \in [Frames -> Int]
  BY DEF Counted, More
<1>12. Counted(u, More(ph, F), O, V)
  BY <1>2, <1>8, <1>9, <1>10, <1>11 DEF Counted
<1> QED BY <1>4, <1>7, <1>12 DEF u

\* A directory with nothing in it is no more.
LEMMA RowDropped ==
  ASSUME NEW w, NEW ph, NEW O, NEW V, Counted(w, ph, O, V), NEW d \in DOMAIN w,
         \A a \in Cells : w[d][a] = NoFrame
  PROVE  Counted(Without(w, {d}), ph, O, V)
<1> DEFINE u == Without(w, {d})
<1>1. DOMAIN u = DOMAIN w \ {d} /\ \A e \in DOMAIN u : u[e] = w[e]
  BY DEF Without
<1>2. u \in [DOMAIN u -> Rows]
  BY <1>1 DEF Counted, Without
<1> HIDE DEF u
<1>3. \A f \in Frames : Users(u, f) = Users(w, f)
  BY <1>1, NumberFacts DEF Users
<1>4. IsFiniteSet(DOMAIN u)
  BY <1>1, FS_RemoveElement DEF Counted
<1>5. Counts(u, ph, O)
  BY <1>3 DEF Counted, Counts, Count
<1>6. \A e \in DOMAIN u : RowOK(u[e], O, V)
  BY <1>1 DEF Counted
<1>7. Counted(u, ph, O, V)
  BY <1>2, <1>4, <1>5, <1>6 DEF Counted
<1> QED BY <1>7 DEF u

\* Where the screen is seen, and in which frame it is.
LEMMA ScreenMoved ==
  ASSUME NEW w, NEW ph, NEW O, NEW V, Counted(w, ph, O, V), NEW W \in O \union {Screen},
         NEW u, DOMAIN u = DOMAIN w, u \in [DOMAIN w -> Rows],
         \A d \in DOMAIN w : \A a \in Cells :
           \/ u[d][a] = w[d][a] /\ w[d][a] # V
           \/ w[d][a] \in {NoFrame, V} /\ u[d][a] \in {NoFrame, W}
  PROVE  Counted(u, ph, O, W)
<1>1. ~Usable(W) \/ W \in O
  BY NumberFacts
<1>2. ~Usable(V) \/ V \in O
  BY NumberFacts DEF Counted
<1>3. \A f \in Frames : f \notin O /\ f >= Preallocated => f # V /\ f # W
  BY NumberFacts DEF Counted, Usable, Screen
<1>4. \A f \in Frames : f \notin O /\ f >= Preallocated => Users(u, f) = Users(w, f)
  <2> TAKE f \in Frames
  <2> HAVE f \notin O /\ f >= Preallocated
  <2>1. f # V /\ f # W /\ f # NoFrame
    BY <1>3, NumberFacts
  <2>2. \A d \in DOMAIN w : \A a \in Cells : u[d][a] = f <=> w[d][a] = f
    BY <2>1
  <2> QED BY <2>2 DEF Users
<1>5. Counts(u, ph, O)
  <2> SUFFICES ASSUME NEW f \in Frames
               PROVE  ph[f] = Count(u, O, f)
    BY DEF Counts
  <2>1. ph[f] = Count(w, O, f)
    BY DEF Counted, Counts
  <2>2. f < Preallocated \/ f >= Preallocated
    BY NumberFacts
  <2> QED BY <1>4, <2>1, <2>2 DEF Count
<1>6. \A d \in DOMAIN u : RowOK(u[d], O, W)
  <2> TAKE d \in DOMAIN u
  <2>1. u[d] \in Rows /\ RowOK(w[d], O, V)
    BY DEF Counted
  <2>2. \A a \in Cells : CellOK(u[d][a], O, W)
    BY <2>1 DEF RowOK, CellOK
  <2>3. ASSUME NEW a \in Cells, NEW b \in Cells, u[d][a] \notin {NoFrame, W}, u[d][a] = u[d][b]
        PROVE  a = b
    <3>1. /\ u[d][a] = w[d][a] /\ w[d][a] \notin {NoFrame, V}
          /\ u[d][b] = w[d][b] /\ w[d][b] # V
      BY <2>3
    <3> QED BY <2>1, <2>3, <3>1 DEF RowOK
  <2> QED BY <2>1, <2>2, <2>3 DEF RowOK
<1> QED BY <1>5, <1>6 DEF Counted

-----------------------------------------------------------------------------
(* Frames of two sizes. *)

InUse(n) == n > 0 \/ n = KERNEL

Split(ph) == \A i \in SmallFrame : InUse(ph[i]) => ph[i \div NumEntries] = UNUSED

LEMMA LargeOfSmall ==
  ASSUME NEW i \in SmallFrame
  PROVE  /\ i \in Nat /\ i >= NumLarge
         /\ i \div NumEntries \in LargeFrame /\ i \div NumEntries < NumLarge
         /\ i \in (i \div NumEntries) * NumEntries .. (i \div NumEntries + 1) * NumEntries - 1
<1> DEFINE q == i \div NumEntries
<1>1. NumEntries \in Nat \ {0} /\ NumLarge \in Nat \ {0}
  BY NumberFacts
<1>2. NumLarge * NumEntries \in Nat
  BY <1>1
<1>3. i \in Nat /\ i >= NumLarge /\ i < NumLarge * NumEntries
  BY <1>1, <1>2 DEF SmallFrame
<1>4. q \in Nat /\ q * NumEntries <= i /\ i < q * NumEntries + NumEntries
  BY <1>1, <1>3
<1> HIDE DEF q
<1>5. q < NumLarge
  <2>1. SUFFICES ASSUME q >= NumLarge PROVE FALSE
    BY <1>1, <1>4
  <2>2. q * NumEntries >= NumLarge * NumEntries
    BY <1>1, <1>4, <2>1
  <2>3. q * NumEntries \in Nat
    BY <1>1, <1>4
  <2> QED BY <1>2, <1>3, <1>4, <2>2, <2>3
<1>6. (q + 1) * NumEntries = q * NumEntries + NumEntries /\ q * NumEntries \in Nat
  BY <1>1, <1>4
<1>7. i \in q * NumEntries .. (q + 1) * NumEntries - 1
  BY <1>1, <1>3, <1>4, <1>6
<1>8. q \in LargeFrame
  BY <1>1, <1>4, <1>5 DEF LargeFrame
<1> QED BY <1>3, <1>5, <1>7, <1>8 DEF q

LEMMA SplitSmall ==
  ASSUME NEW M, Split(M.phys), NEW F \in SUBSET FreeSmall(M), NEW n
  PROVE  Split(Given(M.phys, F, n))
<1> SUFFICES ASSUME NEW i \in SmallFrame, InUse(Given(M.phys, F, n)[i])
             PROVE  Given(M.phys, F, n)[i \div NumEntries] = UNUSED
  BY DEF Split
<1>1. i \div NumEntries \in Frames /\ i \div NumEntries \notin F /\ i \in Frames
  <2>1. i \div NumEntries \in LargeFrame /\ i \div NumEntries < NumLarge
    BY LargeOfSmall
  <2>2. \A j \in SmallFrame : j >= NumLarge
    BY LargeOfSmall
  <2>3. NumLarge \in Nat /\ i \div NumEntries \in Int
    BY <2>1, NumberFacts DEF LargeFrame
  <2>4. i \div NumEntries \notin SmallFrame
    BY <2>1, <2>2, <2>3
  <2> QED BY <2>1, <2>4, NumberFacts DEF FreeSmall
<1>2. M.phys[i \div NumEntries] = UNUSED
  <2>1. CASE i \in F
    BY <2>1 DEF FreeSmall
  <2>2. CASE i \notin F
    BY <1>1, <2>2 DEF Split, Given
  <2> QED BY <2>1, <2>2
<1> QED BY <1>1, <1>2 DEF Given

LEMMA SplitLarge ==
  ASSUME NEW M, Split(M.phys), NEW l \in FreeLarge(M), NEW n
  PROVE  Split(Given(M.phys, {l}, n))
<1> SUFFICES ASSUME NEW i \in SmallFrame, InUse(Given(M.phys, {l}, n)[i])
             PROVE  Given(M.phys, {l}, n)[i \div NumEntries] = UNUSED
  BY DEF Split
<1> DEFINE q == i \div NumEntries
<1>1. /\ q \in LargeFrame /\ q \in Frames /\ i \in Frames /\ i # l
      /\ i \in q * NumEntries .. (q + 1) * NumEntries - 1
  <2>1. i \notin LargeFrame
    BY LargeOfSmall, NumberFacts DEF LargeFrame
  <2> QED BY <2>1, LargeOfSmall, NumberFacts DEF FreeLarge
<1>2. InUse(M.phys[i])
  BY <1>1 DEF Given
<1>3. q # l
  <2>1. ASSUME q = l PROVE FALSE
    <3>1. M.phys[i] = UNUSED
      BY <1>1, <2>1 DEF FreeLarge
    <3> QED BY <1>2, <3>1 DEF InUse, UNUSED, KERNEL
  <2> QED BY <2>1
<1>4. M.phys[q] = UNUSED
  BY <1>2 DEF Split
<1> QED BY <1>1, <1>3, <1>4 DEF Given

\* No frame comes into use, and none that was free is anything else.
SameUse(ph, qh) ==
  \A f \in Frames : (InUse(qh[f]) => InUse(ph[f])) /\ (ph[f] = UNUSED => qh[f] = UNUSED)

LEMMA SplitSame ==
  ASSUME NEW ph, NEW qh, Split(ph), SameUse(ph, qh)
  PROVE  Split(qh)
<1> SUFFICES ASSUME NEW i \in SmallFrame, InUse(qh[i])
             PROVE  qh[i \div NumEntries] = UNUSED
  BY DEF Split
<1>1. i \div NumEntries \in Frames /\ i \in Frames
  BY LargeOfSmall, NumberFacts
<1>2. ph[i \div NumEntries] = UNUSED
  BY <1>1 DEF Split, SameUse
<1> QED BY <1>1, <1>2 DEF SameUse

-----------------------------------------------------------------------------
(* Directories and tables.  D and T are a memory's; Flat is what they map.   *)

IsTable(e) == e.frame # NoFrame /\ ~e.large

\* The frame at page p of slot s.
FrameAt(D, T, d, s, p) ==
  IF D[d][s].frame = NoFrame THEN NoFrame
  ELSE IF D[d][s].large THEN IF p = 0 THEN D[d][s].frame ELSE NoFrame
  ELSE T[D[d][s].frame][p].frame

Flat(D, T) == [d \in DOMAIN D |-> [a \in Cells |-> FrameAt(D, T, d, a[1], a[2])]]

\* Where a large page may be: not where the screen is.
BigFrame == LargeFrame \ {Screen}

DirsOK(D) ==
  /\ DOMAIN D \subseteq SmallFrame
  /\ D \in [DOMAIN D -> [UserSlots -> Entries]]
  /\ \A d \in DOMAIN D : \A s \in UserSlots : D[d][s].large => D[d][s].frame \in BigFrame

TablesOK(T) ==
  /\ DOMAIN T \subseteq SmallFrame
  /\ T \in [DOMAIN T -> [Pages -> Entries]]
  /\ \A f \in DOMAIN T : \A p \in Pages : ~T[f][p].large

\* Every table is in one place.
Placed(D, T) ==
  /\ \A d \in DOMAIN D : \A s \in UserSlots : IsTable(D[d][s]) => D[d][s].frame \in DOMAIN T
  /\ \A d, e \in DOMAIN D : \A s, r \in UserSlots :
       IsTable(D[d][s]) /\ IsTable(D[e][r]) /\ D[d][s].frame = D[e][r].frame => d = e /\ s = r
  /\ \A f \in DOMAIN T : \E d \in DOMAIN D : \E s \in UserSlots :
       IsTable(D[d][s]) /\ D[d][s].frame = f

Shape(D, T) == DirsOK(D) /\ TablesOK(T) /\ Placed(D, T)

LEMMA SamePlaces ==
  ASSUME NEW D, NEW T, Placed(D, T), NEW E, NEW U, DOMAIN E = DOMAIN D, DOMAIN U = DOMAIN T,
         \A d \in DOMAIN D : \A s \in UserSlots :
           /\ IsTable(E[d][s]) <=> IsTable(D[d][s])
           /\ IsTable(D[d][s]) => E[d][s].frame = D[d][s].frame
  PROVE  Placed(E, U)
<1>1. \A c \in DOMAIN E : \A r \in UserSlots : IsTable(E[c][r]) => E[c][r].frame \in DOMAIN U
  BY DEF Placed
<1>2. ASSUME NEW c \in DOMAIN E, NEW b \in DOMAIN E, NEW q \in UserSlots, NEW r \in UserSlots,
             IsTable(E[c][q]), IsTable(E[b][r]), E[c][q].frame = E[b][r].frame
      PROVE  c = b /\ q = r
  <2>1. IsTable(D[c][q]) /\ IsTable(D[b][r]) /\ D[c][q].frame = D[b][r].frame
    BY <1>2
  <2> QED BY <2>1 DEF Placed
<1>3. \A f \in DOMAIN U : \E c \in DOMAIN E : \E r \in UserSlots :
        IsTable(E[c][r]) /\ E[c][r].frame = f
  BY DEF Placed
<1> QED BY <1>1, <1>2, <1>3 DEF Placed

LEMMA EntryFacts ==
  /\ 0 \in Pages /\ Pages \subseteq Nat
  /\ Absent \in Entries /\ Absent.frame = NoFrame /\ ~Absent.large /\ ~IsTable(Absent)
  /\ \A e \in Entries : e.frame \in Frames \union {NoFrame} /\ e.rw \in BOOLEAN
                        /\ e.cow \in BOOLEAN /\ e.large \in BOOLEAN
<1>1. 0 \in Pages /\ Pages \subseteq Nat
  BY NumberFacts DEF Pages
<1>2. Absent \in Entries /\ Absent.frame = NoFrame /\ ~Absent.large
  BY DEF Absent, Entries
<1>3. \A e \in Entries : e.frame \in Frames \union {NoFrame} /\ e.rw \in BOOLEAN
                        /\ e.cow \in BOOLEAN /\ e.large \in BOOLEAN
  BY DEF Entries
<1> QED BY <1>1, <1>2, <1>3 DEF IsTable

LEMMA CellFacts ==
  /\ \A a \in Cells : a[1] \in UserSlots /\ a[2] \in Pages /\ a = <<a[1], a[2]>>
  /\ \A s \in UserSlots : \A p \in Pages : <<s, p>> \in Cells
BY DEF Cells

LEMMA FrameAtType ==
  ASSUME NEW D, NEW T, Shape(D, T), NEW d \in DOMAIN D, NEW s \in UserSlots, NEW p \in Pages
  PROVE  FrameAt(D, T, d, s, p) \in Frames \union {NoFrame}
<1>1. D[d][s] \in Entries
  BY DEF Shape, DirsOK
<1>2. CASE IsTable(D[d][s])
  <2>1. D[d][s].frame \in DOMAIN T
    BY <1>2 DEF Shape, Placed
  <2>2. T[D[d][s].frame][p] \in Entries
    BY <2>1 DEF Shape, TablesOK
  <2> QED BY <1>2, <2>2, EntryFacts DEF FrameAt, IsTable
<1>3. CASE ~IsTable(D[d][s])
  BY <1>1, <1>3, EntryFacts DEF FrameAt, IsTable
<1> QED BY <1>2, <1>3

LEMMA FlatFacts ==
  ASSUME NEW D, NEW T, Shape(D, T)
  PROVE  /\ DOMAIN Flat(D, T) = DOMAIN D
         /\ Flat(D, T) \in [DOMAIN D -> Rows]
         /\ \A d \in DOMAIN D : \A s \in UserSlots : \A p \in Pages :
              Flat(D, T)[d][<<s, p>>] = FrameAt(D, T, d, s, p)
<1>1. \A d \in DOMAIN D : \A s \in UserSlots : \A p \in Pages :
         FrameAt(D, T, d, s, p) \in Frames \union {NoFrame}
  BY FrameAtType
<1>2. \A d \in DOMAIN D : [a \in Cells |-> FrameAt(D, T, d, a[1], a[2])] \in Rows
  BY <1>1, CellFacts DEF Rows
<1>3. DOMAIN Flat(D, T) = DOMAIN D /\ Flat(D, T) \in [DOMAIN D -> Rows]
  BY <1>2 DEF Flat
<1>4. ASSUME NEW d \in DOMAIN D, NEW s \in UserSlots, NEW p \in Pages
      PROVE  Flat(D, T)[d][<<s, p>>] = FrameAt(D, T, d, s, p)
  <2>1. <<s, p>> \in Cells
    BY CellFacts
  <2> QED BY <2>1 DEF Flat
<1> QED BY <1>3, <1>4

\* Two ways to say what is mapped.
LEMMA FlatIs ==
  ASSUME NEW D, NEW T, Shape(D, T), NEW u \in [DOMAIN D -> Rows],
         \A d \in DOMAIN D : \A s \in UserSlots : \A p \in Pages :
           u[d][<<s, p>>] = FrameAt(D, T, d, s, p)
  PROVE  Flat(D, T) = u
<1>1. \A d \in DOMAIN D : \A a \in Cells : Flat(D, T)[d][a] = u[d][a]
  BY CellFacts, FlatFacts
<1>2. \A d \in DOMAIN D : Flat(D, T)[d] = u[d]
  <2> TAKE d \in DOMAIN D
  <2>1. Flat(D, T)[d] \in Rows /\ u[d] \in Rows
    BY FlatFacts
  <2> QED BY <1>1, <2>1 DEF Rows
<1> QED BY <1>2, FlatFacts

\* One slot of one directory, and one table, are written.
SlotSet(D, d, s, e) == [D EXCEPT ![d][s] = e]

LEMMA SlotSetFacts ==
  ASSUME NEW D, DirsOK(D), NEW d \in DOMAIN D, NEW s \in UserSlots, NEW e \in Entries,
         e.large => e.frame \in BigFrame
  PROVE  /\ DirsOK(SlotSet(D, d, s, e)) /\ DOMAIN SlotSet(D, d, s, e) = DOMAIN D
         /\ SlotSet(D, d, s, e)[d][s] = e
         /\ \A c \in DOMAIN D : \A r \in UserSlots :
              c # d \/ r # s => SlotSet(D, d, s, e)[c][r] = D[c][r]
<1>1. D \in [DOMAIN D -> [UserSlots -> Entries]]
  BY DEF DirsOK
<1>2. /\ DOMAIN SlotSet(D, d, s, e) = DOMAIN D
      /\ SlotSet(D, d, s, e) \in [DOMAIN D -> [UserSlots -> Entries]]
  BY <1>1 DEF SlotSet
<1>3. SlotSet(D, d, s, e)[d][s] = e
  BY <1>1 DEF SlotSet
<1>4. \A c \in DOMAIN D : \A r \in UserSlots :
        c # d \/ r # s => SlotSet(D, d, s, e)[c][r] = D[c][r]
  BY <1>1 DEF SlotSet
<1>5. ASSUME NEW c \in DOMAIN D, NEW r \in UserSlots
      PROVE  SlotSet(D, d, s, e)[c][r].large => SlotSet(D, d, s, e)[c][r].frame \in BigFrame
  <2>1. CASE c = d /\ r = s
    BY <1>3, <2>1
  <2>2. CASE c # d \/ r # s
    BY <1>4, <2>2 DEF DirsOK
  <2> QED BY <2>1, <2>2
<1> QED BY <1>2, <1>3, <1>4, <1>5 DEF DirsOK

\* What a table's directory maps when the table is written.
RowOfTable(v, s, g) == [a \in Cells |-> IF a[1] = s THEN g[a[2]].frame ELSE v[a]]

\* t is the table of slot s of directory d, and g a table; what there is when g
\* takes its place.
TableFor(D, T, d, s, t, g) ==
  /\ Shape(D, T) /\ d \in DOMAIN D /\ s \in UserSlots
  /\ IsTable(D[d][s]) /\ t = D[d][s].frame
  /\ g \in [Pages -> Entries] /\ \A p \in Pages : ~g[p].large

TableStep(D, T, d, s, t, g) ==
  /\ t \in DOMAIN T
  /\ Shape(D, [T EXCEPT ![t] = g])
  /\ Flat(D, [T EXCEPT ![t] = g]) = RowSet(Flat(D, T), d, RowOfTable(Flat(D, T)[d], s, g))

LEMMA TableWritten ==
  ASSUME NEW D, NEW T, NEW d, NEW s, NEW t, NEW g, TableFor(D, T, d, s, t, g)
  PROVE  TableStep(D, T, d, s, t, g)
<1> USE DEF TableFor
<1> DEFINE U == [T EXCEPT ![t] = g]
           w == Flat(D, T)
           v == RowOfTable(w[d], s, g)
           u == RowSet(w, d, v)
<1>1. t \in DOMAIN T
  BY DEF Shape, Placed
<1>2. /\ DOMAIN U = DOMAIN T /\ U \in [DOMAIN U -> [Pages -> Entries]]
      /\ U[t] = g /\ \A f \in DOMAIN T : f # t => U[f] = T[f]
  BY <1>1 DEF Shape, TablesOK
<1>3. w \in [DOMAIN D -> Rows] /\ DOMAIN w = DOMAIN D
  BY FlatFacts
<1>4. \A r \in UserSlots : \A p \in Pages :
        v[<<r, p>>] = IF r = s THEN g[p].frame ELSE w[d][<<r, p>>]
  BY CellFacts DEF RowOfTable
<1>5. v \in Rows
  <2>1. \A p \in Pages : g[p].frame \in Frames \union {NoFrame}
    BY EntryFacts
  <2>2. \A a \in Cells : w[d][a] \in Frames \union {NoFrame} /\ a[2] \in Pages
    BY <1>3, CellFacts DEF Rows
  <2> QED BY <2>1, <2>2 DEF Rows, RowOfTable
<1> HIDE DEF U, w, v
<1>6. u \in [DOMAIN D -> Rows] /\ u[d] = v /\ \A c \in DOMAIN D : c # d => u[c] = w[c]
  BY <1>3, <1>5 DEF RowSet
<1> HIDE DEF u
<1>7. TablesOK(U)
  BY <1>2 DEF Shape, TablesOK
<1>8. Shape(D, U)
  BY <1>2, <1>7 DEF Shape, Placed
<1>9. ASSUME NEW c \in DOMAIN D, NEW r \in UserSlots, NEW p \in Pages
      PROVE  u[c][<<r, p>>] = FrameAt(D, U, c, r, p)
  <2>1. w[c][<<r, p>>] = FrameAt(D, T, c, r, p)
    BY FlatFacts DEF w
  <2>2. CASE c = d /\ r = s
    <3>1. u[c][<<r, p>>] = g[p].frame
      BY <1>4, <1>6, <2>2
    <3> QED BY <1>2, <2>2, <3>1 DEF FrameAt, IsTable
  <2>3. CASE ~(c = d /\ r = s)
    <3>1. u[c][<<r, p>>] = w[c][<<r, p>>]
      BY <1>4, <1>6, <2>3
    <3>2. IsTable(D[c][r]) => D[c][r].frame # t /\ D[c][r].frame \in DOMAIN T
      BY <2>3 DEF Shape, Placed
    <3>3. FrameAt(D, U, c, r, p) = FrameAt(D, T, c, r, p)
      BY <1>2, <3>2 DEF FrameAt, IsTable
    <3> QED BY <2>1, <3>1, <3>3
  <2> QED BY <2>2, <2>3
<1>10. Flat(D, U) = u
  BY <1>6, <1>8, <1>9, FlatIs
<1> QED BY <1>1, <1>8, <1>10, Zenon DEF U, u, v, w, TableStep

\* A large page is mapped where there was none, or another frame for one.
LEMMA LargeWritten ==
  ASSUME NEW D, NEW T, Shape(D, T), NEW d \in DOMAIN D, NEW s \in UserSlots, ~IsTable(D[d][s]),
         NEW e \in Entries, e.large, e.frame \in BigFrame
  PROVE  /\ Shape(SlotSet(D, d, s, e), T)
         /\ Flat(SlotSet(D, d, s, e), T)
              = RowSet(Flat(D, T), d, [Flat(D, T)[d] EXCEPT ![<<s, 0>>] = e.frame])
<1> DEFINE E == SlotSet(D, d, s, e)
           w == Flat(D, T)
           v == [w[d] EXCEPT ![<<s, 0>>] = e.frame]
           u == RowSet(w, d, v)
<1>1. /\ DirsOK(E) /\ DOMAIN E = DOMAIN D /\ E[d][s] = e
      /\ \A c \in DOMAIN D : \A r \in UserSlots : c # d \/ r # s => E[c][r] = D[c][r]
  BY SlotSetFacts DEF Shape
<1>2. w \in [DOMAIN D -> Rows] /\ DOMAIN w = DOMAIN D
  BY FlatFacts
<1>3. v \in Rows /\ \A r \in UserSlots : \A p \in Pages :
        v[<<r, p>>] = IF r = s /\ p = 0 THEN e.frame ELSE w[d][<<r, p>>]
  <2>1. w[d] \in [Cells -> Frames \union {NoFrame}]
    BY <1>2 DEF Rows
  <2>2. e.frame \in Frames \union {NoFrame}
    BY EntryFacts
  <2>3. \A r \in UserSlots : \A p \in Pages : <<r, p>> = <<s, 0>> <=> r = s /\ p = 0
    OBVIOUS
  <2> QED BY <2>1, <2>2, <2>3, CellFacts DEF Rows
<1> HIDE DEF E, w, v
<1>4. u \in [DOMAIN D -> Rows] /\ u[d] = v /\ \A c \in DOMAIN D : c # d => u[c] = w[c]
  BY <1>2, <1>3 DEF RowSet
<1> HIDE DEF u
<1>5. \A c \in DOMAIN D : \A r \in UserSlots :
        /\ IsTable(E[c][r]) <=> IsTable(D[c][r])
        /\ IsTable(D[c][r]) => E[c][r] = D[c][r]
  <2>1. ~IsTable(e)
    BY DEF IsTable
  <2> QED BY <1>1, <2>1
<1>6. Shape(E, T)
  <2>1. Placed(E, T)
    BY <1>1, <1>5, SamePlaces DEF Shape
  <2> QED BY <1>1, <2>1 DEF Shape
<1>7. ASSUME NEW c \in DOMAIN D, NEW r \in UserSlots, NEW p \in Pages
      PROVE  u[c][<<r, p>>] = FrameAt(E, T, c, r, p)
  <2>1. w[c][<<r, p>>] = FrameAt(D, T, c, r, p)
    BY FlatFacts DEF w
  <2>2. CASE c = d /\ r = s
    <3>1. p # 0 => w[d][<<r, p>>] = NoFrame
      BY <2>1, <2>2 DEF FrameAt, IsTable
    <3>2. u[c][<<r, p>>] = IF p = 0 THEN e.frame ELSE NoFrame
      BY <1>3, <1>4, <2>2, <3>1
    <3>3. e.frame # NoFrame
      BY NumberFacts DEF BigFrame
    <3> QED BY <1>1, <2>2, <3>2, <3>3 DEF FrameAt
  <2>3. CASE ~(c = d /\ r = s)
    <3>1. u[c][<<r, p>>] = w[c][<<r, p>>]
      BY <1>3, <1>4, <2>3
    <3>2. E[c][r] = D[c][r]
      BY <1>1, <2>3
    <3> QED BY <2>1, <3>1, <3>2 DEF FrameAt
  <2> QED BY <2>2, <2>3
<1>8. Flat(E, T) = u
  BY <1>1, <1>4, <1>6, <1>7, FlatIs
<1> QED BY <1>6, <1>8 DEF E, u, v, w

\* mk_user_table maps nothing.
LEMMA TableMade ==
  ASSUME NEW D, NEW T, Shape(D, T), NEW d \in DOMAIN D, NEW s \in UserSlots,
         D[d][s].frame = NoFrame, NEW f \in SmallFrame, f \notin DOMAIN T,
         NEW e \in Entries, e.frame = f, ~e.large
  PROVE  /\ Shape(SlotSet(D, d, s, e), Put(T, f, [p \in Pages |-> Absent]))
         /\ Flat(SlotSet(D, d, s, e), Put(T, f, [p \in Pages |-> Absent])) = Flat(D, T)
<1> DEFINE E == SlotSet(D, d, s, e)
           U == Put(T, f, [p \in Pages |-> Absent])
           w == Flat(D, T)
<1>1. /\ DirsOK(E) /\ DOMAIN E = DOMAIN D /\ E[d][s] = e
      /\ \A c \in DOMAIN D : \A r \in UserSlots : c # d \/ r # s => E[c][r] = D[c][r]
  BY SlotSetFacts DEF Shape
<1>2. /\ DOMAIN U = DOMAIN T \union {f} /\ \A p \in Pages : U[f][p] = Absent
      /\ \A g \in DOMAIN T : U[g] = T[g]
      /\ U \in [DOMAIN U -> [Pages -> Entries]]
  BY EntryFacts DEF Put, Shape, TablesOK
<1>3. w \in [DOMAIN D -> Rows] /\ DOMAIN w = DOMAIN D
  BY FlatFacts
<1>4. f # NoFrame /\ IsTable(e) /\ ~IsTable(D[d][s])
  BY NumberFacts DEF IsTable
<1> HIDE DEF E, U, w
<1>5. TablesOK(U)
  BY <1>2, EntryFacts DEF Shape, TablesOK
<1>6. \A c \in DOMAIN D : \A r \in UserSlots :
        IsTable(D[c][r]) => E[c][r] = D[c][r] /\ D[c][r].frame # f /\ D[c][r].frame \in DOMAIN T
  BY <1>1, <1>4 DEF Shape, Placed
<1>7. Placed(E, U)
  <2>1. \A c \in DOMAIN D : \A r \in UserSlots :
          IsTable(E[c][r]) => \/ c = d /\ r = s /\ E[c][r].frame = f
                              \/ IsTable(D[c][r]) /\ E[c][r] = D[c][r]
    BY <1>1
  <2>2. \A c \in DOMAIN E : \A r \in UserSlots : IsTable(E[c][r]) => E[c][r].frame \in DOMAIN U
    BY <1>1, <1>2, <1>6, <2>1
  <2>3. \A c, b \in DOMAIN E : \A q, r \in UserSlots :
          IsTable(E[c][q]) /\ IsTable(E[b][r]) /\ E[c][q].frame = E[b][r].frame => c = b /\ q = r
    <3> SUFFICES ASSUME NEW c \in DOMAIN D, NEW b \in DOMAIN D,
                        NEW q \in UserSlots, NEW r \in UserSlots,
                        IsTable(E[c][q]), IsTable(E[b][r]), E[c][q].frame = E[b][r].frame
                 PROVE  c = b /\ q = r
      BY <1>1
    <3>1. IsTable(D[c][q]) /\ IsTable(D[b][r]) /\ D[c][q].frame = D[b][r].frame => c = b /\ q = r
      BY DEF Shape, Placed
    <3>2. \/ c = d /\ q = s /\ E[c][q].frame = f
          \/ IsTable(D[c][q]) /\ E[c][q] = D[c][q] /\ D[c][q].frame # f
      BY <1>6, <2>1
    <3>3. \/ b = d /\ r = s /\ E[b][r].frame = f
          \/ IsTable(D[b][r]) /\ E[b][r] = D[b][r] /\ D[b][r].frame # f
      BY <1>6, <2>1
    <3> QED BY <3>1, <3>2, <3>3
  <2>4. \A g \in DOMAIN U : \E c \in DOMAIN E : \E r \in UserSlots :
          IsTable(E[c][r]) /\ E[c][r].frame = g
    <3> TAKE g \in DOMAIN U
    <3>1. CASE g = f
      BY <1>1, <1>4, <3>1
    <3>2. CASE g # f
      BY <1>1, <1>2, <1>6, <3>2 DEF Shape, Placed
    <3> QED BY <3>1, <3>2
  <2> QED BY <2>2, <2>3, <2>4 DEF Placed
<1>8. Shape(E, U)
  BY <1>1, <1>5, <1>7 DEF Shape
<1>9. ASSUME NEW c \in DOMAIN D, NEW r \in UserSlots, NEW p \in Pages
      PROVE  w[c][<<r, p>>] = FrameAt(E, U, c, r, p)
  <2>1. w[c][<<r, p>>] = FrameAt(D, T, c, r, p)
    BY FlatFacts DEF w
  <2>2. CASE c = d /\ r = s
    <3>1. FrameAt(D, T, c, r, p) = NoFrame
      BY <2>2 DEF FrameAt
    <3>2. FrameAt(E, U, c, r, p) = NoFrame
      BY <1>1, <1>2, <1>4, <2>2, EntryFacts DEF FrameAt
    <3> QED BY <2>1, <3>1, <3>2
  <2>3. CASE ~(c = d /\ r = s)
    BY <1>1, <1>2, <1>6, <2>1, <2>3 DEF FrameAt, IsTable
  <2> QED BY <2>2, <2>3
<1>10. Flat(E, U) = w
  BY <1>1, <1>3, <1>8, <1>9, FlatIs
<1> QED BY <1>8, <1>10 DEF E, U, w

\* Only flags are changed: pages become copy-on-write.
LEMMA FlagsChanged ==
  ASSUME NEW D, NEW T, Shape(D, T), NEW E, NEW U,
         E \in [DOMAIN D -> [UserSlots -> Entries]], U \in [DOMAIN T -> [Pages -> Entries]],
         \A d \in DOMAIN D : \A s \in UserSlots :
           E[d][s].frame = D[d][s].frame /\ E[d][s].large = D[d][s].large,
         \A f \in DOMAIN T : \A p \in Pages :
           U[f][p].frame = T[f][p].frame /\ U[f][p].large = T[f][p].large
  PROVE  Shape(E, U) /\ Flat(E, U) = Flat(D, T)
<1>1. DOMAIN E = DOMAIN D /\ DOMAIN U = DOMAIN T
  OBVIOUS
<1>2. DirsOK(E) /\ TablesOK(U)
  BY <1>1 DEF Shape, DirsOK, TablesOK
<1>3. \A d \in DOMAIN D : \A s \in UserSlots : IsTable(E[d][s]) <=> IsTable(D[d][s])
  BY DEF IsTable
<1>4. Placed(E, U)
  BY <1>1, <1>3, SamePlaces DEF Shape
<1>5. Shape(E, U)
  BY <1>2, <1>4 DEF Shape
<1>6. ASSUME NEW c \in DOMAIN D, NEW r \in UserSlots, NEW p \in Pages
      PROVE  Flat(D, T)[c][<<r, p>>] = FrameAt(E, U, c, r, p)
  <2>1. Flat(D, T)[c][<<r, p>>] = FrameAt(D, T, c, r, p)
    BY FlatFacts
  <2>2. IsTable(D[c][r]) => D[c][r].frame \in DOMAIN T
    BY DEF Shape, Placed
  <2>3. FrameAt(E, U, c, r, p) = FrameAt(D, T, c, r, p)
    BY <2>2 DEF FrameAt, IsTable
  <2> QED BY <2>1, <2>3
<1>7. Flat(D, T) \in [DOMAIN E -> Rows]
  BY <1>1, FlatFacts
<1>8. Flat(E, U) = Flat(D, T)
  BY <1>1, <1>5, <1>6, <1>7, FlatIs
<1> QED BY <1>5, <1>8

\* The tables' pages are written, and nothing else.
LEMMA TablesRewritten ==
  ASSUME NEW D, NEW T, Shape(D, T), NEW U, TablesOK(U), DOMAIN U = DOMAIN T
  PROVE  /\ Shape(D, U)
         /\ \A d \in DOMAIN D : \A s \in UserSlots : \A p \in Pages :
              Flat(D, U)[d][<<s, p>>] =
                IF IsTable(D[d][s]) THEN U[D[d][s].frame][p].frame ELSE Flat(D, T)[d][<<s, p>>]
<1>1. Shape(D, U)
  BY DEF Shape, Placed
<1>2. ASSUME NEW d \in DOMAIN D, NEW s \in UserSlots, NEW p \in Pages
      PROVE  Flat(D, U)[d][<<s, p>>] =
               IF IsTable(D[d][s]) THEN U[D[d][s].frame][p].frame ELSE Flat(D, T)[d][<<s, p>>]
  <2>1. Flat(D, U)[d][<<s, p>>] = FrameAt(D, U, d, s, p)
    BY <1>1, FlatFacts
  <2>2. Flat(D, T)[d][<<s, p>>] = FrameAt(D, T, d, s, p)
    BY FlatFacts
  <2> QED BY <2>1, <2>2 DEF FrameAt, IsTable
<1> QED BY <1>1, <1>2

\* A directory is added, with tables of its own.
LEMMA DirAdded ==
  ASSUME NEW D, NEW T, Shape(D, T), NEW n \in SmallFrame, n \notin DOMAIN D,
         NEW row \in [UserSlots -> Entries],
         \A s \in UserSlots : row[s].large => row[s].frame \in BigFrame,
         NEW U, TablesOK(U), DOMAIN T \subseteq DOMAIN U, \A f \in DOMAIN T : U[f] = T[f],
         \A s \in UserSlots : IsTable(row[s]) => row[s].frame \in DOMAIN U \ DOMAIN T,
         \A s, r \in UserSlots :
           IsTable(row[s]) /\ IsTable(row[r]) /\ row[s].frame = row[r].frame => s = r,
         \A f \in DOMAIN U \ DOMAIN T : \E s \in UserSlots : IsTable(row[s]) /\ row[s].frame = f,
         NEW v \in Rows,
         \A s \in UserSlots : \A p \in Pages : v[<<s, p>>] = FrameAt(Put(D, n, row), U, n, s, p)
  PROVE  /\ Shape(Put(D, n, row), U)
         /\ Flat(Put(D, n, row), U) = Put(Flat(D, T), n, v)
<1> DEFINE E == Put(D, n, row)
           w == Flat(D, T)
           u == Put(w, n, v)
<1>1. /\ DOMAIN E = DOMAIN D \union {n} /\ E[n] = row /\ \A d \in DOMAIN D : E[d] = D[d]
      /\ E \in [DOMAIN E -> [UserSlots -> Entries]]
  BY DEF Put, Shape, DirsOK
<1>2. w \in [DOMAIN D -> Rows] /\ DOMAIN w = DOMAIN D
  BY FlatFacts
<1>3. /\ DOMAIN u = DOMAIN E /\ u[n] = v /\ \A d \in DOMAIN D : u[d] = w[d]
      /\ u \in [DOMAIN E -> Rows]
  BY <1>1, <1>2 DEF Put
<1> HIDE DEF E, w, u
<1>4. DirsOK(E)
  BY <1>1 DEF Shape, DirsOK
<1>5. Placed(D, T)
  BY DEF Shape
<1>6. Placed(E, U)
  <2>1. \A c \in DOMAIN E : \A r \in UserSlots : IsTable(E[c][r]) => E[c][r].frame \in DOMAIN U
    BY <1>1, <1>5 DEF Placed
  <2>2. ASSUME NEW c \in DOMAIN E, NEW b \in DOMAIN E, NEW q \in UserSlots, NEW r \in UserSlots,
               IsTable(E[c][q]), IsTable(E[b][r]), E[c][q].frame = E[b][r].frame
        PROVE  c = b /\ q = r
    <3>1. c \in DOMAIN D => E[c][q].frame \in DOMAIN T
      BY <1>1, <1>5, <2>2 DEF Placed
    <3>2. b \in DOMAIN D => E[b][r].frame \in DOMAIN T
      BY <1>1, <1>5, <2>2 DEF Placed
    <3>3. CASE c \in DOMAIN D /\ b \in DOMAIN D
      BY <1>1, <1>5, <2>2, <3>3 DEF Placed
    <3>4. CASE c = n /\ b = n
      BY <1>1, <2>2, <3>4
    <3>5. CASE c = n /\ b \in DOMAIN D
      BY <1>1, <2>2, <3>2, <3>5
    <3>6. CASE c \in DOMAIN D /\ b = n
      BY <1>1, <2>2, <3>1, <3>6
    <3> QED BY <1>1, <3>3, <3>4, <3>5, <3>6
  <2>3. \A f \in DOMAIN U : \E c \in DOMAIN E : \E r \in UserSlots :
          IsTable(E[c][r]) /\ E[c][r].frame = f
    <3> TAKE f \in DOMAIN U
    <3>1. CASE f \in DOMAIN T
      BY <1>1, <1>5, <3>1 DEF Placed
    <3>2. CASE f \notin DOMAIN T
      BY <1>1, <3>2
    <3> QED BY <3>1, <3>2
  <2> QED BY <2>1, <2>2, <2>3 DEF Placed
<1>7. Shape(E, U)
  BY <1>4, <1>6 DEF Shape
<1>8. ASSUME NEW c \in DOMAIN E, NEW r \in UserSlots, NEW p \in Pages
      PROVE  u[c][<<r, p>>] = FrameAt(E, U, c, r, p)
  <2>1. CASE c \in DOMAIN D
    <3>1. w[c][<<r, p>>] = FrameAt(D, T, c, r, p)
      BY <2>1, FlatFacts DEF w
    <3>2. IsTable(D[c][r]) => D[c][r].frame \in DOMAIN T
      BY <1>5, <2>1 DEF Placed
    <3>3. FrameAt(E, U, c, r, p) = FrameAt(D, T, c, r, p)
      BY <1>1, <2>1, <3>2 DEF FrameAt, IsTable
    <3> QED BY <1>3, <2>1, <3>1, <3>3
  <2>2. CASE c = n
    BY <1>3, <2>2 DEF E
  <2> QED BY <1>1, <2>1, <2>2
<1>9. Flat(E, U) = u
  BY <1>3, <1>7, <1>8, FlatIs
<1> QED BY <1>7, <1>9 DEF E, u, w

\* The frames of a directory's tables.
TablesOf(D, d) == {D[d][s].frame : s \in {s \in UserSlots : IsTable(D[d][s])}}

\* A directory goes, with its tables.
LEMMA DirDropped ==
  ASSUME NEW D, NEW T, Shape(D, T), NEW d \in DOMAIN D
  PROVE  /\ TablesOf(D, d) \subseteq DOMAIN T
         /\ Shape(Without(D, {d}), Without(T, TablesOf(D, d)))
         /\ Flat(Without(D, {d}), Without(T, TablesOf(D, d))) = Without(Flat(D, T), {d})
<1> DEFINE G == TablesOf(D, d)
           E == Without(D, {d})
           U == Without(T, G)
           w == Flat(D, T)
           u == Without(w, {d})
<1>1. Placed(D, T)
  BY DEF Shape
<1>2. /\ DOMAIN E = DOMAIN D \ {d} /\ \A c \in DOMAIN E : E[c] = D[c]
      /\ E \in [DOMAIN E -> [UserSlots -> Entries]]
  BY DEF Without, Shape, DirsOK
<1>3. /\ DOMAIN U = DOMAIN T \ G /\ \A f \in DOMAIN U : U[f] = T[f]
      /\ U \in [DOMAIN U -> [Pages -> Entries]]
  BY DEF Without, Shape, TablesOK
<1>4. /\ \A f \in G : \E s \in UserSlots : IsTable(D[d][s]) /\ D[d][s].frame = f
      /\ \A s \in UserSlots : IsTable(D[d][s]) => D[d][s].frame \in G
  BY DEF TablesOf
<1>5. w \in [DOMAIN D -> Rows] /\ DOMAIN w = DOMAIN D
  BY FlatFacts
<1>6. u \in [DOMAIN E -> Rows] /\ \A c \in DOMAIN E : u[c] = w[c]
  BY <1>2, <1>5 DEF Without
<1> HIDE DEF G, E, U, w, u
<1>7. G \subseteq DOMAIN T
  BY <1>1, <1>4 DEF Placed
<1>8. DirsOK(E) /\ TablesOK(U)
  BY <1>2, <1>3 DEF Shape, DirsOK, TablesOK
<1>9. \A c \in DOMAIN E : \A r \in UserSlots :
        IsTable(E[c][r]) => IsTable(D[c][r]) /\ D[c][r].frame \in DOMAIN T \ G
  BY <1>1, <1>2, <1>4 DEF Placed
<1>10. Placed(E, U)
  <2>1. \A c \in DOMAIN E : \A r \in UserSlots : IsTable(E[c][r]) => E[c][r].frame \in DOMAIN U
    BY <1>2, <1>3, <1>9
  <2>2. ASSUME NEW c \in DOMAIN E, NEW b \in DOMAIN E, NEW q \in UserSlots, NEW r \in UserSlots,
               IsTable(E[c][q]), IsTable(E[b][r]), E[c][q].frame = E[b][r].frame
        PROVE  c = b /\ q = r
    BY <1>1, <1>2, <2>2 DEF Placed
  <2>3. \A f \in DOMAIN U : \E c \in DOMAIN E : \E r \in UserSlots :
          IsTable(E[c][r]) /\ E[c][r].frame = f
    <3> TAKE f \in DOMAIN U
    <3>1. PICK c \in DOMAIN D, r \in UserSlots : IsTable(D[c][r]) /\ D[c][r].frame = f
      BY <1>1, <1>3 DEF Placed
    <3>2. c # d
      BY <1>3, <1>4, <3>1
    <3> QED BY <1>2, <3>1, <3>2
  <2> QED BY <2>1, <2>2, <2>3 DEF Placed
<1>11. Shape(E, U)
  BY <1>8, <1>10 DEF Shape
<1>12. ASSUME NEW c \in DOMAIN E, NEW r \in UserSlots, NEW p \in Pages
       PROVE  u[c][<<r, p>>] = FrameAt(E, U, c, r, p)
  <2>1. w[c][<<r, p>>] = FrameAt(D, T, c, r, p)
    BY <1>2, FlatFacts DEF w
  <2>2. FrameAt(E, U, c, r, p) = FrameAt(D, T, c, r, p)
    BY <1>2, <1>3, <1>9 DEF FrameAt, IsTable
  <2> QED BY <1>6, <2>1, <2>2
<1>13. Flat(E, U) = u
  BY <1>6, <1>11, <1>12, FlatIs
<1> QED BY <1>7, <1>11, <1>13 DEF G, E, U, u, w

\* What is left of a directory and of the tables when the pages at A go.
DirLess(D, d, A) ==
  [D EXCEPT ![d] = [s \in UserSlots |->
     IF D[d][s].large /\ <<s, 0>> \in A THEN Absent ELSE D[d][s]]]

TablesLess(D, T, d, A) ==
  [f \in DOMAIN T |-> [p \in Pages |->
     IF \E a \in A : a[2] = p /\ D[d][a[1]].frame = f THEN Absent ELSE T[f][p]]]

LEMMA PagesGone ==
  ASSUME NEW D, NEW T, Shape(D, T), NEW d \in DOMAIN D, NEW A \in SUBSET Cells,
         \A a \in A : Flat(D, T)[d][a] # NoFrame
  PROVE  /\ Shape(DirLess(D, d, A), TablesLess(D, T, d, A))
         /\ Flat(DirLess(D, d, A), TablesLess(D, T, d, A))
              = RowSet(Flat(D, T), d, [a \in Cells |-> IF a \in A THEN NoFrame ELSE Flat(D, T)[d][a]])
         /\ TablesOf(DirLess(D, d, A), d) = TablesOf(D, d)
<1> DEFINE E == DirLess(D, d, A)
           U == TablesLess(D, T, d, A)
           w == Flat(D, T)
           v == [a \in Cells |-> IF a \in A THEN NoFrame ELSE w[d][a]]
           u == RowSet(w, d, v)
<1>1. D \in [DOMAIN D -> [UserSlots -> Entries]]
  BY DEF Shape, DirsOK
<1>2. /\ DOMAIN E = DOMAIN D /\ \A c \in DOMAIN D : c # d => E[c] = D[c]
      /\ \A s \in UserSlots : E[d][s] = IF D[d][s].large /\ <<s, 0>> \in A THEN Absent ELSE D[d][s]
      /\ E \in [DOMAIN E -> [UserSlots -> Entries]]
  BY <1>1, EntryFacts DEF DirLess
<1>3. /\ DOMAIN U = DOMAIN T
      /\ \A f \in DOMAIN T : \A p \in Pages :
           U[f][p] = IF \E a \in A : a[2] = p /\ D[d][a[1]].frame = f THEN Absent ELSE T[f][p]
      /\ U \in [DOMAIN U -> [Pages -> Entries]]
  BY EntryFacts DEF TablesLess, Shape, TablesOK
<1>4. w \in [DOMAIN D -> Rows] /\ DOMAIN w = DOMAIN D
  BY FlatFacts
<1>5. v \in Rows /\ \A a \in Cells : v[a] = IF a \in A THEN NoFrame ELSE w[d][a]
  BY <1>4 DEF Rows
<1> HIDE DEF E, U, w, v
<1>6. u \in [DOMAIN D -> Rows] /\ u[d] = v /\ \A c \in DOMAIN D : c # d => u[c] = w[c]
  BY <1>4, <1>5 DEF RowSet
<1> HIDE DEF u
<1>7. \A c \in DOMAIN D : \A r \in UserSlots :
        /\ IsTable(E[c][r]) <=> IsTable(D[c][r])
        /\ IsTable(D[c][r]) => E[c][r] = D[c][r]
  <2> SUFFICES ASSUME NEW c \in DOMAIN D, NEW r \in UserSlots
               PROVE  /\ IsTable(E[c][r]) <=> IsTable(D[c][r])
                      /\ IsTable(D[c][r]) => E[c][r] = D[c][r]
    OBVIOUS
  <2>1. CASE c = d /\ D[d][r].large /\ <<r, 0>> \in A
    BY <1>2, <2>1, EntryFacts DEF IsTable
  <2>2. CASE ~(c = d /\ D[d][r].large /\ <<r, 0>> \in A)
    BY <1>2, <2>2
  <2> QED BY <2>1, <2>2
<1>8. DirsOK(E)
  <2>1. ASSUME NEW c \in DOMAIN D, NEW r \in UserSlots, E[c][r].large
        PROVE  E[c][r].frame \in BigFrame
    <3>1. CASE c = d /\ D[d][r].large /\ <<r, 0>> \in A
      BY <1>2, <2>1, <3>1, EntryFacts
    <3>2. CASE ~(c = d /\ D[d][r].large /\ <<r, 0>> \in A)
      <4>1. E[c][r] = D[c][r]
        BY <1>2, <3>2
      <4> QED BY <2>1, <4>1 DEF Shape, DirsOK
    <3> QED BY <3>1, <3>2
  <2> QED BY <1>2, <2>1 DEF Shape, DirsOK
<1>9. TablesOK(U)
  <2>1. \A f \in DOMAIN T : \A p \in Pages : ~T[f][p].large /\ ~Absent.large
    BY EntryFacts DEF Shape, TablesOK
  <2>2. \A f \in DOMAIN T : \A p \in Pages : ~U[f][p].large
    BY <1>3, <2>1
  <2> QED BY <1>3, <2>2 DEF Shape, TablesOK
<1>10. Placed(D, T)
  BY DEF Shape
<1>11. Placed(E, U)
  BY <1>2, <1>3, <1>7, <1>10, SamePlaces
<1>12. Shape(E, U)
  BY <1>8, <1>9, <1>11 DEF Shape
<1>13. \A c \in DOMAIN D : \A r \in UserSlots : \A p \in Pages :
         w[c][<<r, p>>] = FrameAt(D, T, c, r, p)
  BY FlatFacts DEF w
<1>14. \A a \in A : a[1] \in UserSlots /\ a[2] \in Pages /\ a = <<a[1], a[2]>>
  BY CellFacts
<1>15. \A f \in DOMAIN T : f \notin LargeFrame /\ f # NoFrame
  <2>1. DOMAIN T \subseteq SmallFrame
    BY DEF Shape, TablesOK
  <2>2. \A i \in LargeFrame : i \in Int /\ i < NumLarge
    BY NumberFacts DEF LargeFrame
  <2>3. \A i \in SmallFrame : i \in Nat /\ i >= NumLarge
    BY LargeOfSmall
  <2>4. NumLarge \in Nat
    BY NumberFacts
  <2>5. \A i \in SmallFrame : i \notin LargeFrame
    BY <2>2, <2>3, <2>4
  <2>6. NoFrame \notin SmallFrame
    BY NumberFacts
  <2> QED BY <2>1, <2>5, <2>6
\* A page of a table is in A by its own address only.
<1>16. ASSUME NEW c \in DOMAIN D, NEW r \in UserSlots, NEW p \in Pages, IsTable(D[c][r])
       PROVE  (\E a \in A : a[2] = p /\ D[d][a[1]].frame = D[c][r].frame) <=> (c = d /\ <<r, p>> \in A)
  <2>1. CASE c = d /\ <<r, p>> \in A
    BY <2>1
  <2>2. ASSUME NEW a \in A, a[2] = p, D[d][a[1]].frame = D[c][r].frame
        PROVE  c = d /\ <<r, p>> \in A
    <3>1. D[c][r].frame \in DOMAIN T
      BY <1>10, <1>16 DEF Placed
    <3>2. D[d][a[1]].frame \notin LargeFrame /\ D[d][a[1]].frame # NoFrame
      BY <1>15, <2>2, <3>1
    <3>3. IsTable(D[d][a[1]])
      BY <1>14, <3>2 DEF IsTable, Shape, DirsOK, BigFrame
    <3>4. c = d /\ r = a[1]
      BY <1>10, <1>14, <1>16, <2>2, <3>3 DEF Placed
    <3> QED BY <1>14, <2>2, <3>4
  <2> QED BY <2>1, <2>2
<1>17. ASSUME NEW c \in DOMAIN D, NEW r \in UserSlots, NEW p \in Pages
       PROVE  u[c][<<r, p>>] = FrameAt(E, U, c, r, p)
  <2>1. <<r, p>> \in Cells
    BY CellFacts
  <2>2. u[c][<<r, p>>] = IF c = d /\ <<r, p>> \in A THEN NoFrame ELSE w[c][<<r, p>>]
    BY <1>5, <1>6, <2>1
  <2>3. CASE IsTable(D[c][r])
    <3>1. E[c][r] = D[c][r] /\ D[c][r].frame \in DOMAIN T
      BY <1>7, <1>10, <2>3 DEF Placed
    <3>2. FrameAt(E, U, c, r, p) = U[D[c][r].frame][p].frame
      BY <2>3, <3>1 DEF FrameAt, IsTable
    <3>3. U[D[c][r].frame][p] = IF c = d /\ <<r, p>> \in A THEN Absent ELSE T[D[c][r].frame][p]
      BY <1>3, <1>16, <2>3, <3>1
    <3>4. w[c][<<r, p>>] = T[D[c][r].frame][p].frame
      BY <1>13, <2>3 DEF FrameAt, IsTable
    <3> QED BY <2>2, <3>2, <3>3, <3>4, EntryFacts
  <2>4. CASE ~IsTable(D[c][r]) /\ c = d /\ D[d][r].large /\ <<r, 0>> \in A
    <3>1. FrameAt(E, U, c, r, p) = NoFrame
      BY <1>2, <2>4, EntryFacts DEF FrameAt
    <3>2. p # 0 => w[c][<<r, p>>] = NoFrame
      BY <1>13, <2>4 DEF FrameAt
    <3> QED BY <2>2, <2>4, <3>1, <3>2
  <2>5. CASE ~IsTable(D[c][r]) /\ ~(c = d /\ D[d][r].large /\ <<r, 0>> \in A)
    <3>1. E[c][r] = D[c][r]
      BY <1>2, <2>5
    <3>2. FrameAt(E, U, c, r, p) = w[c][<<r, p>>]
      BY <1>13, <2>5, <3>1 DEF FrameAt, IsTable
    <3>3. c = d /\ <<r, p>> \in A => FALSE
      <4>1. SUFFICES ASSUME c = d, <<r, p>> \in A PROVE FALSE
        OBVIOUS
      <4>2. w[d][<<r, p>>] # NoFrame
        BY <4>1 DEF w
      <4>3. D[d][r].large /\ p = 0
        BY <1>13, <2>5, <4>1, <4>2 DEF FrameAt, IsTable
      <4> QED BY <2>5, <4>1, <4>3
    <3> QED BY <2>2, <3>2, <3>3
  <2> QED BY <2>3, <2>4, <2>5
<1>18. Flat(E, U) = u
  BY <1>2, <1>6, <1>12, <1>17, FlatIs
<1>19. TablesOf(E, d) = TablesOf(D, d)
  BY <1>7 DEF TablesOf
<1> QED BY <1>12, <1>18, <1>19 DEF E, U, u, v, w

-----------------------------------------------------------------------------
(* What the operations do to a memory that is in order: X are the frames the *)
(* kernel holds beside directories and tables, V is the screen's.            *)

Maps(M) == Flat(M.dir, M.table)

Held(M, X) == DOMAIN M.dir \union DOMAIN M.table \union X

Fields(M) ==
  M = [phys |-> M.phys, dir |-> M.dir, table |-> M.table, content |-> M.content, panic |-> M.panic]

Good(M, X, V) ==
  /\ Fields(M)
  /\ Shape(M.dir, M.table)
  /\ Counted(Maps(M), M.phys, Held(M, X), V)
  /\ Split(M.phys)
  /\ DOMAIN M.dir \intersect DOMAIN M.table = {}
  /\ X \intersect (DOMAIN M.dir \union DOMAIN M.table) = {}
  /\ V \in X \union {Screen}
  /\ M.content \in [Frames -> Values]

LEMMA MappedFacts ==
  ASSUME NEW M, Shape(M.dir, M.table), NEW d \in DOMAIN M.dir
  PROVE  /\ Mapped(M, d) \in SUBSET Cells
         /\ \A a \in Cells : a \in Mapped(M, d) <=> Maps(M)[d][a] # NoFrame
         /\ \A a \in Mapped(M, d) : Entry(M, d, a).frame = Maps(M)[d][a]
<1>1. ASSUME NEW a \in Cells
      PROVE  /\ a \in Mapped(M, d) <=> Maps(M)[d][a] # NoFrame
             /\ a \in Mapped(M, d) => Entry(M, d, a).frame = Maps(M)[d][a]
  <2>1. a[1] \in UserSlots /\ a[2] \in Pages /\ a = <<a[1], a[2]>>
    BY CellFacts
  <2>2. Maps(M)[d][a] = FrameAt(M.dir, M.table, d, a[1], a[2])
    BY <2>1, FlatFacts DEF Maps
  <2>3. a \in Mapped(M, d) <=> Entry(M, d, a).frame # NoFrame /\ (Entry(M, d, a).large => a[2] = 0)
    BY Zenon DEF Mapped, Cells
  <2>4. CASE IsTable(M.dir[d][a[1]])
    <3>1. Entry(M, d, a) = M.table[M.dir[d][a[1]].frame][a[2]]
      BY <2>4, Zenon DEF Entry, IsTable
    <3>2. FrameAt(M.dir, M.table, d, a[1], a[2]) = M.table[M.dir[d][a[1]].frame][a[2]].frame
      BY <2>4 DEF FrameAt, IsTable
    <3>3. M.dir[d][a[1]].frame \in DOMAIN M.table
      BY <2>1, <2>4 DEF Shape, Placed
    <3>4. ~M.table[M.dir[d][a[1]].frame][a[2]].large
      <4>1. \A f \in DOMAIN M.table : \A p \in Pages : ~M.table[f][p].large
        BY Zenon DEF Shape, TablesOK
      <4> QED BY <2>1, <3>3, <4>1, Zenon
    <3> QED BY <2>2, <2>3, <3>1, <3>2, <3>4, Zenon
  <2>5. CASE ~IsTable(M.dir[d][a[1]])
    <3>1. Entry(M, d, a) = M.dir[d][a[1]]
      BY <2>5 DEF Entry, IsTable
    <3> QED BY <2>2, <2>3, <2>5, <3>1, Zenon DEF FrameAt, IsTable
  <2> QED BY <2>4, <2>5
<1>2. Mapped(M, d) \in SUBSET Cells
  BY DEF Mapped, Cells
<1> QED BY <1>1, <1>2

LEMMA MarkFacts ==
  ASSUME NEW M, Fields(M), NEW F, NEW n
  PROVE  /\ Fields(Mark(M, F, n)) /\ Mark(M, F, n).phys = Given(M.phys, F, n)
         /\ Mark(M, F, n).dir = M.dir /\ Mark(M, F, n).table = M.table
         /\ Mark(M, F, n).content = M.content /\ Mark(M, F, n).panic = M.panic
<1> DEFINE N == [phys |-> Given(M.phys, F, n), dir |-> M.dir, table |-> M.table,
                 content |-> M.content, panic |-> M.panic]
<1>1. Mark(M, F, n) = N
  BY DEF Fields, Mark, Given
<1> QED BY <1>1 DEF Fields

LEMMA PanicsFacts ==
  ASSUME NEW M, Fields(M), NEW why
  PROVE  /\ Fields(Panics(M, why)) /\ Panics(M, why).phys = M.phys
         /\ Panics(M, why).dir = M.dir /\ Panics(M, why).table = M.table
         /\ Panics(M, why).content = M.content
         /\ Panics(M, why).panic = IF M.panic = "no" THEN why ELSE M.panic
<1> DEFINE N == [phys |-> M.phys, dir |-> M.dir, table |-> M.table, content |-> M.content,
                 panic |-> IF M.panic = "no" THEN why ELSE M.panic]
<1>1. Panics(M, why) = N
  BY DEF Fields, Panics
<1> QED BY <1>1 DEF Fields

LEMMA LeastExists ==
  ASSUME NEW S \in SUBSET Nat, S # {}
  PROVE  \E x \in S : \A y \in S : x <= y
<1>1. PICK x \in S : \A y \in S : ~ (<<y, x>> \in OpToRel(<, Nat))
  BY NatLessThanWellFounded, WFMin, Zenon
<1>2. \A y \in S : ~(y < x)
  BY <1>1 DEF OpToRel
<1> QED BY <1>2

LEMMA MinFacts ==
  ASSUME NEW S \in SUBSET Nat, S # {}
  PROVE  Min(S) \in S /\ \A y \in S : Min(S) <= y
BY LeastExists DEF Min

LEMMA FreeSmallFacts ==
  ASSUME NEW M
  PROVE  /\ FreeSmall(M) \in SUBSET SmallFrame /\ FreeSmall(M) \in SUBSET Frames
         /\ FreeSmall(M) \in SUBSET Nat /\ IsFiniteSet(FreeSmall(M))
         /\ \A f \in FreeSmall(M) : M.phys[f] = UNUSED
         /\ FreeSmall(M) # {} => Min(FreeSmall(M)) \in FreeSmall(M)
<1>1. FreeSmall(M) \in SUBSET SmallFrame /\ \A f \in FreeSmall(M) : M.phys[f] = UNUSED
  BY DEF FreeSmall
<1>2. FreeSmall(M) \in SUBSET Frames /\ FreeSmall(M) \in SUBSET Nat
  BY <1>1, NumberFacts
<1>3. IsFiniteSet(SmallFrame)
  BY NumberFacts, FS_Interval DEF SmallFrame
<1>4. IsFiniteSet(FreeSmall(M))
  BY <1>1, <1>3, FS_Subset
<1> QED BY <1>1, <1>2, <1>4, MinFacts

\* A frame the kernel has none of and no directory maps.
LEMMA FreeIsNobodys ==
  ASSUME NEW M, NEW X, NEW V, Good(M, X, V), NEW f \in FreeSmall(M)
  PROVE  /\ f \in SmallFrame /\ f \in Frames /\ f # NoFrame /\ f # V
         /\ f \notin DOMAIN M.dir /\ f \notin DOMAIN M.table /\ f \notin X
<1>1. f \in Frames /\ M.phys[f] = UNUSED /\ f \in SmallFrame
  BY FreeSmallFacts
<1>2. f \notin Held(M, X) /\ f # V /\ f # NoFrame
  BY <1>1, FreshFrame DEF Good
<1> QED BY <1>1, <1>2 DEF Held

TableEntry(f) == [Absent EXCEPT !.frame = f, !.rw = TRUE]

LEMMA TableEntryFacts ==
  ASSUME NEW f \in Frames
  PROVE  /\ TableEntry(f) \in Entries /\ TableEntry(f).frame = f /\ ~TableEntry(f).large
         /\ IsTable(TableEntry(f))
<1>1. TableEntry(f) \in Entries /\ TableEntry(f).frame = f /\ ~TableEntry(f).large
  BY DEF TableEntry, Absent, Entries
<1> QED BY <1>1, NumberFacts DEF IsTable

\* N is M with a new table in slot s of d, which maps nothing.
TableAdded(M, N, X, V, d, s) ==
  /\ Good(N, X, V) /\ Maps(N) = Maps(M) /\ DOMAIN N.dir = DOMAIN M.dir
  /\ N.panic = M.panic /\ N.content = M.content
  /\ IsTable(N.dir[d][s])
  /\ \A c \in DOMAIN M.dir : \A r \in UserSlots : c # d \/ r # s => N.dir[c][r] = M.dir[c][r]

LEMMA MakeTableFacts ==
  ASSUME NEW M, NEW X, NEW V, Good(M, X, V), NEW d \in DOMAIN M.dir, NEW s \in UserSlots,
         M.dir[d][s].frame = NoFrame, FreeSmall(M) # {}
  PROVE  TableAdded(M, MakeTable(M, d, s), X, V, d, s)
<1> DEFINE f == Min(FreeSmall(M))
           D == SlotSet(M.dir, d, s, TableEntry(f))
           T == Put(M.table, f, [p \in Pages |-> Absent])
           ph == Given(M.phys, {f}, KERNEL)
           N == MakeTable(M, d, s)
<1>1. /\ N = [phys |-> ph, dir |-> D, table |-> T, content |-> M.content, panic |-> M.panic]
      /\ Fields(M)
  <2>1. /\ Fields(Mark(M, {f}, KERNEL)) /\ Mark(M, {f}, KERNEL).phys = ph
        /\ Mark(M, {f}, KERNEL).dir = M.dir /\ Mark(M, {f}, KERNEL).table = M.table
        /\ Mark(M, {f}, KERNEL).content = M.content /\ Mark(M, {f}, KERNEL).panic = M.panic
    BY MarkFacts DEF Good
  <2> DEFINE K == Mark(M, {f}, KERNEL)
  <2>2. N = [K EXCEPT !.table = Put(M.table, f, [p \in Pages |-> Absent]),
                      !.dir[d][s] = TableEntry(f)]
    BY DEF MakeTable, TableEntry
  <2>3. K = [phys |-> ph, dir |-> M.dir, table |-> M.table, content |-> M.content,
             panic |-> M.panic]
    BY <2>1 DEF Fields
  <2>4. D = [M.dir EXCEPT ![d][s] = TableEntry(f)]
    BY DEF SlotSet
  <2> HIDE DEF K, f, ph, D
  <2> QED BY <2>2, <2>3, <2>4 DEF Good
<1>2. f \in FreeSmall(M)
  BY FreeSmallFacts
<1> HIDE DEF f, D, T, ph, N
<1>3. /\ f \in SmallFrame /\ f \in Frames /\ f # NoFrame /\ f # V
      /\ f \notin DOMAIN M.dir /\ f \notin DOMAIN M.table /\ f \notin X
  BY <1>2, FreeIsNobodys
<1>4. Fields(N) /\ N.phys = ph /\ N.dir = D /\ N.table = T
      /\ N.content = M.content /\ N.panic = M.panic
  BY <1>1 DEF Fields
<1>5. Shape(M.dir, M.table)
  BY DEF Good
<1>6. Shape(D, T) /\ Flat(D, T) = Maps(M)
  BY <1>3, <1>5, TableEntryFacts, TableMade DEF D, T, Maps
<1>7. /\ DOMAIN D = DOMAIN M.dir /\ D[d][s] = TableEntry(f)
      /\ \A c \in DOMAIN M.dir : \A r \in UserSlots : c # d \/ r # s => D[c][r] = M.dir[c][r]
  <2>1. TableEntry(f) \in Entries /\ ~TableEntry(f).large
    BY <1>3, TableEntryFacts, Zenon
  <2>2. DirsOK(M.dir) /\ D = SlotSet(M.dir, d, s, TableEntry(f))
    BY <1>5, Zenon DEF D, Shape
  <2> QED BY <2>1, <2>2, SlotSetFacts, SMTT(30)
<1>8. DOMAIN T = DOMAIN M.table \union {f}
  BY DEF T, Put
<1>9. Held(N, X) = Held(M, X) \union {f}
  BY <1>4, <1>7, <1>8 DEF Held
<1>10. Counted(Maps(N), N.phys, Held(N, X), V)
  <2>1. {f} \in SUBSET Frames /\ \A g \in {f} : M.phys[g] = UNUSED
    BY <1>2, FreeSmallFacts
  <2>2. Counted(Maps(M), Given(M.phys, {f}, KERNEL), Held(M, X) \union {f}, V)
    BY <2>1, FramesOwned DEF Good
  <2> QED BY <1>4, <1>6, <1>9, <2>2 DEF Maps, ph
<1>11. Split(N.phys)
  <2>1. {f} \in SUBSET FreeSmall(M) /\ Split(M.phys)
    BY <1>2 DEF Good
  <2> QED BY <1>4, <2>1, SplitSmall DEF ph
<1>12. Good(N, X, V)
  <2>1. N.dir = D /\ DOMAIN N.dir = DOMAIN M.dir /\ DOMAIN N.table = DOMAIN M.table \union {f}
    BY <1>4, <1>7, <1>8
  <2>2. /\ DOMAIN N.dir \intersect DOMAIN N.table = {}
        /\ X \intersect (DOMAIN N.dir \union DOMAIN N.table) = {}
    BY <1>3, <2>1 DEF Good
  <2>3. Shape(N.dir, N.table) /\ N.content \in [Frames -> Values] /\ V \in X \union {Screen}
    BY <1>4, <1>6 DEF Good
  <2> QED BY <1>4, <1>10, <1>11, <2>2, <2>3 DEF Good
<1>13. IsTable(TableEntry(f))
  BY <1>3, TableEntryFacts
<1>14. TableAdded(M, N, X, V, d, s)
  BY <1>4, <1>6, <1>7, <1>12, <1>13 DEF TableAdded, Maps
<1> QED BY <1>14 DEF N

-----------------------------------------------------------------------------
(* The free frames, in order. *)

Rank(S, i) == Cardinality({j \in S : j < i})

LEMMA RankFacts ==
  ASSUME NEW S \in SUBSET Nat, IsFiniteSet(S)
  PROVE  /\ Cardinality(S) \in Nat
         /\ \A i \in S : Rank(S, i) \in 0 .. Cardinality(S) - 1
         /\ \A i, j \in S : Rank(S, i) = Rank(S, j) => i = j
         /\ \A k \in 0 .. Cardinality(S) - 1 : \E i \in S : Rank(S, i) = k
<1> DEFINE n == Cardinality(S)
           r == [i \in S |-> Rank(S, i)]
<1>1. n \in Nat
  BY FS_CardinalityType
<1>2. ASSUME NEW i \in S
      PROVE  Rank(S, i) \in Nat /\ Rank(S, i) < n
  <2> DEFINE B == {j \in S : j < i}
  <2>1. B \in SUBSET S /\ i \notin B
    OBVIOUS
  <2>2. IsFiniteSet(B) /\ Cardinality(B) <= n /\ Cardinality(B) # n
    BY <2>1, FS_Subset
  <2>3. Cardinality(B) \in Nat
    BY <2>2, FS_CardinalityType
  <2> QED BY <1>1, <2>2, <2>3 DEF Rank
<1>3. ASSUME NEW i \in S, NEW j \in S, i < j
      PROVE  Rank(S, i) < Rank(S, j)
  <2> DEFINE B == {k \in S : k < i}
             C == {k \in S : k < j}
  <2>0. i \in Nat /\ j \in Nat /\ \A k \in S : k \in Nat
    OBVIOUS
  <2>1. C \in SUBSET S /\ i \in C /\ i \notin B
    BY <1>3, <2>0
  <2>2. \A k \in S : k < i => k < j
    BY <1>3, <2>0
  <2>3. B \in SUBSET C
    BY <2>2
  <2>4. IsFiniteSet(C)
    BY <2>1, FS_Subset
  <2>5. Cardinality(B) <= Cardinality(C) /\ (Cardinality(C) = Cardinality(B) => C = B)
    BY <2>3, <2>4, FS_Subset
  <2>6. Cardinality(B) \in Nat /\ Cardinality(C) \in Nat /\ Cardinality(B) # Cardinality(C)
    BY <1>2, <2>1, <2>5 DEF Rank
  <2> QED BY <2>5, <2>6 DEF Rank
<1>4. ASSUME NEW i \in S, NEW j \in S, Rank(S, i) = Rank(S, j)
      PROVE  i = j
  <2>1. i \in Nat /\ j \in Nat
    OBVIOUS
  <2>2. Rank(S, i) \in Nat /\ Rank(S, j) \in Nat
    BY <1>2
  <2>3. ~(Rank(S, i) < Rank(S, j)) /\ ~(Rank(S, j) < Rank(S, i))
    BY <1>4, <2>2
  <2>4. ~(i < j) /\ ~(j < i)
    BY <1>3, <2>3
  <2> QED BY <2>1, <2>4
<1>5. r \in Injection(S, 0 .. n - 1)
  <2>1. r \in [S -> 0 .. n - 1]
    BY <1>1, <1>2
  <2>2. \A i, j \in S : r[i] = r[j] => i = j
    BY <1>4
  <2> QED BY <2>1, <2>2 DEF Injection, IsInjective
<1>6. IsFiniteSet(0 .. n - 1) /\ Cardinality(0 .. n - 1) = n
  <2> HIDE DEF n
  <2>1. 0 \in Int /\ n - 1 \in Int
    BY <1>1
  <2>2. IsFiniteSet(0 .. n - 1) /\ Cardinality(0 .. n - 1) = IF 0 > n - 1 THEN 0 ELSE n - 1 - 0 + 1
    BY <2>1, FS_Interval
  <2> QED BY <1>1, <2>2
<1>7. r \in Surjection(S, 0 .. n - 1)
  BY <1>5, <1>6, FS_Injection
<1>8. \A k \in 0 .. n - 1 : \E i \in S : Rank(S, i) = k
  BY <1>7 DEF Surjection
<1>9. \A i \in S : Rank(S, i) \in 0 .. n - 1
  BY <1>1, <1>2
<1> QED BY <1>1, <1>4, <1>8, <1>9

LEMMA SmallAfterFacts ==
  ASSUME NEW M
  PROVE  /\ Cardinality(FreeSmall(M)) \in Nat
         /\ \A k \in 0 .. Cardinality(FreeSmall(M)) - 1 :
              SmallAfter(M, k) \in FreeSmall(M) /\ Rank(FreeSmall(M), SmallAfter(M, k)) = k
         /\ \A f \in FreeSmall(M) : /\ Rank(FreeSmall(M), f) \in 0 .. Cardinality(FreeSmall(M)) - 1
                                    /\ SmallAfter(M, Rank(FreeSmall(M), f)) = f
         /\ \A n : FirstSmall(M, n) = {f \in FreeSmall(M) : Rank(FreeSmall(M), f) < n}
<1> DEFINE S == FreeSmall(M)
<1>1. S \in SUBSET Nat /\ IsFiniteSet(S)
  BY FreeSmallFacts
<1>2. \A k : SmallAfter(M, k) = CHOOSE i \in S : Rank(S, i) = k
  BY DEF SmallAfter, Rank
<1>3. \A n : FirstSmall(M, n) = {f \in S : Rank(S, f) < n}
  BY DEF FirstSmall, Rank
<1> HIDE DEF S
<1>4. /\ Cardinality(S) \in Nat
      /\ \A i \in S : Rank(S, i) \in 0 .. Cardinality(S) - 1
      /\ \A i, j \in S : Rank(S, i) = Rank(S, j) => i = j
      /\ \A k \in 0 .. Cardinality(S) - 1 : \E i \in S : Rank(S, i) = k
  BY <1>1, RankFacts
<1>5. \A k \in 0 .. Cardinality(S) - 1 : SmallAfter(M, k) \in S /\ Rank(S, SmallAfter(M, k)) = k
  BY <1>2, <1>4
<1>6. \A f \in S : SmallAfter(M, Rank(S, f)) = f
  BY <1>4, <1>5
<1> QED BY <1>3, <1>4, <1>5, <1>6 DEF S

-----------------------------------------------------------------------------
(* Pages are requested. *)

LargeIn(M, d) == {s \in UserSlots : M.dir[d][s].large}

\* N is M with more pages in slot s of directory d, none of them the screen.
Grown(M, N, d, s, V) ==
  /\ DOMAIN N.dir = DOMAIN M.dir /\ N.content = M.content /\ N.panic = M.panic
  /\ \A c \in DOMAIN M.dir : \A a \in Cells :
       \/ Maps(N)[c][a] = Maps(M)[c][a]
       \/ c = d /\ a[1] = s /\ Maps(M)[c][a] = NoFrame /\ Maps(N)[c][a] \notin {NoFrame, V}

SameLarge(M, N) == \A c \in DOMAIN M.dir : LargeIn(N, c) = LargeIn(M, c)

NewPage(f, rw) == [frame |-> f, rw |-> rw, cow |-> FALSE, large |-> FALSE]

FilledTable(M, t, first, n, rw) ==
  [p \in Pages |-> IF p \in first .. first + n - 1 THEN NewPage(SmallAfter(M, p - first), rw)
                   ELSE M.table[t][p]]

Filled(M, t, first, n, rw) ==
  [Mark(M, FirstSmall(M, n), 1) EXCEPT !.table[t] = FilledTable(M, t, first, n, rw)]

\* There is room in the table of frame t and in memory for n pages from first on.
Fillable(M, t, first, n, rw) ==
  /\ Shape(M.dir, M.table) /\ t \in DOMAIN M.table
  /\ first \in Nat /\ n \in Nat /\ first + n < NumEntries
  /\ n <= Cardinality(FreeSmall(M)) /\ rw \in BOOLEAN

\* The table g is that of frame t with the frames F put at the pages I, each at one.
IsFilled(M, t, I, F, g) ==
  /\ g \in [Pages -> Entries] /\ \A p \in Pages : ~g[p].large
  /\ \A p \in Pages : p \notin I => g[p] = M.table[t][p]
  /\ \A p \in Pages : p \in I => g[p].frame \in F
  /\ \A p, q \in Pages : p \in I /\ q \in I /\ g[p].frame = g[q].frame => p = q
  /\ \A f \in F : \E p \in Pages : p \in I /\ g[p].frame = f

LEMMA FilledTableFacts ==
  ASSUME NEW M, NEW t, NEW first, NEW n, NEW rw, Fillable(M, t, first, n, rw),
         NEW g, g = FilledTable(M, t, first, n, rw)
  PROVE  IsFilled(M, t, first .. first + n - 1, FirstSmall(M, n), g)
<1> USE DEF Fillable
<1> DEFINE I == first .. first + n - 1
           F == FirstSmall(M, n)
           k(p) == p - first
<1>1. /\ \A p \in I : k(p) \in 0 .. Cardinality(FreeSmall(M)) - 1 /\ k(p) < n
      /\ \A p, q \in I : k(p) = k(q) => p = q
  BY SmallAfterFacts
<1>2. \A p \in I : SmallAfter(M, k(p)) \in F /\ Rank(FreeSmall(M), SmallAfter(M, k(p))) = k(p)
  BY <1>1, SmallAfterFacts
<1>3. F \in SUBSET Frames
  BY SmallAfterFacts, FreeSmallFacts
<1>4. \A f \in Frames : NewPage(f, rw) \in Entries /\ NewPage(f, rw).frame = f
                        /\ ~NewPage(f, rw).large
  BY DEF NewPage, Entries
<1>5. \A p \in Pages : /\ p \in I => g[p] = NewPage(SmallAfter(M, k(p)), rw)
                       /\ p \notin I => g[p] = M.table[t][p]
  BY DEF FilledTable
<1>6. M.table[t] \in [Pages -> Entries] /\ \A p \in Pages : ~M.table[t][p].large
  BY DEF Shape, TablesOK
<1> HIDE DEF I, F, k
<1>7. \A p \in Pages : p \in I => g[p].frame = SmallAfter(M, k(p)) /\ g[p].frame \in F
  BY <1>2, <1>3, <1>4, <1>5
<1>8. \A p \in Pages : g[p] \in Entries /\ ~g[p].large
  BY <1>2, <1>3, <1>4, <1>5, <1>6
<1>9. g \in [Pages -> Entries]
  <2>1. \A p \in Pages : FilledTable(M, t, first, n, rw)[p] \in Entries
    BY <1>8
  <2> QED BY <2>1 DEF FilledTable
<1>10. ASSUME NEW p \in Pages, NEW q \in Pages, p \in I, q \in I, g[p].frame = g[q].frame
       PROVE  p = q
  <2>1. k(p) = k(q)
    BY <1>2, <1>7, <1>10
  <2> QED BY <1>1, <1>10, <2>1
<1>11. ASSUME NEW f \in F
       PROVE  \E p \in Pages : p \in I /\ g[p].frame = f
  <2> DEFINE r == Rank(FreeSmall(M), f)
  <2>1. f \in FreeSmall(M) /\ r < n
    BY SmallAfterFacts DEF F
  <2>2. r \in 0 .. Cardinality(FreeSmall(M)) - 1 /\ SmallAfter(M, r) = f
    BY <2>1, SmallAfterFacts
  <2> HIDE DEF r
  <2>3. Cardinality(FreeSmall(M)) \in Nat /\ r \in Nat
    BY <2>2, SmallAfterFacts
  <2>4. first + r \in I /\ first + r \in Pages /\ k(first + r) = r
    BY <2>1, <2>3, NumberFacts DEF I, k, Pages
  <2> QED BY <1>7, <2>2, <2>4
<1>12. \A p \in Pages : /\ p \notin I => g[p] = M.table[t][p]
                        /\ p \in I => g[p].frame \in F
  BY <1>5, <1>7
<1>13. \A p \in Pages : ~g[p].large
  BY <1>8
<1>14. IsFilled(M, t, I, F, g)
  BY <1>9, <1>10, <1>11, <1>12, <1>13 DEF IsFilled
<1> QED BY <1>14 DEF I, F

\* One table is written.
Tabled(K, t, g) == [K EXCEPT !.table[t] = g]
TableSet(T, t, g) == [T EXCEPT ![t] = g]

LEMMA TabledFacts ==
  ASSUME NEW K, Fields(K), NEW t, NEW g, NEW N, N = Tabled(K, t, g)
  PROVE  /\ Fields(N) /\ N.phys = K.phys /\ N.dir = K.dir /\ N.table = TableSet(K.table, t, g)
         /\ N.content = K.content /\ N.panic = K.panic
<1> DEFINE T == TableSet(K.table, t, g)
<1>1. N = [K EXCEPT !.table = T]
  BY DEF Tabled, TableSet
<1> HIDE DEF T
<1>2. N = [phys |-> K.phys, dir |-> K.dir, table |-> T, content |-> K.content, panic |-> K.panic]
  BY <1>1 DEF Fields
<1>3. Fields(N)
  BY <1>2 DEF Fields
<1> QED BY <1>2, <1>3 DEF T

LEMMA FilledFacts ==
  ASSUME NEW M, NEW X, NEW V, Good(M, X, V), NEW d \in DOMAIN M.dir, NEW s \in UserSlots,
         IsTable(M.dir[d][s]), NEW t, t = M.dir[d][s].frame,
         NEW first \in Nat, NEW n \in Nat, first + n < NumEntries,
         n <= Cardinality(FreeSmall(M)), NEW rw \in BOOLEAN,
         \A p \in Pages : p \in first .. first + n - 1 => M.table[t][p].frame = NoFrame
  PROVE  /\ Good(Filled(M, t, first, n, rw), X, V)
         /\ Grown(M, Filled(M, t, first, n, rw), d, s, V)
         /\ Filled(M, t, first, n, rw).dir = M.dir
<1> DEFINE g == FilledTable(M, t, first, n, rw)
           F == FirstSmall(M, n)
           N == Filled(M, t, first, n, rw)
           T == [M.table EXCEPT ![t] = g]
           ph == Given(M.phys, F, 1)
           w == Maps(M)
           v == RowOfTable(w[d], s, g)
           I == first .. first + n - 1
<1>1. Shape(M.dir, M.table) /\ t \in DOMAIN M.table
  BY Zenon DEF Good, Shape, Placed
<1>2. /\ g \in [Pages -> Entries] /\ \A p \in Pages : ~g[p].large
      /\ \A p \in Pages : p \notin I => g[p] = M.table[t][p]
      /\ \A p \in Pages : p \in I => g[p].frame \in F
      /\ \A p, q \in Pages : p \in I /\ q \in I /\ g[p].frame = g[q].frame => p = q
      /\ \A f \in F : \E p \in Pages : p \in I /\ g[p].frame = f
  <2>1. Fillable(M, t, first, n, rw)
    BY <1>1 DEF Fillable
  <2>2. IsFilled(M, t, first .. first + n - 1, FirstSmall(M, n), FilledTable(M, t, first, n, rw))
    BY <2>1, FilledTableFacts, Zenon
  <2>3. IsFilled(M, t, I, F, g)
    BY <2>2, Zenon
  <2> HIDE DEF g, F, I
  <2> QED BY <2>3, Zenon DEF IsFilled
<1>3. /\ F \in SUBSET FreeSmall(M) /\ F \in SUBSET Frames /\ \A f \in F : M.phys[f] = UNUSED
  BY SmallAfterFacts, FreeSmallFacts
<1>4. /\ Fields(N) /\ N.phys = ph /\ N.dir = M.dir /\ N.table = T
      /\ N.content = M.content /\ N.panic = M.panic
  <2> DEFINE K == Mark(M, F, 1)
  <2>1. /\ Fields(K) /\ K.phys = ph /\ K.dir = M.dir /\ K.table = M.table
        /\ K.content = M.content /\ K.panic = M.panic
    BY MarkFacts DEF Good
  <2>2. N = Tabled(K, t, g)
    BY DEF Filled, Tabled
  <2> HIDE DEF K, N, g, F, ph
  <2>3. /\ Fields(N) /\ N.phys = K.phys /\ N.dir = K.dir /\ N.table = TableSet(K.table, t, g)
        /\ N.content = K.content /\ N.panic = K.panic
    BY <2>1, <2>2, TabledFacts
  <2>4. N.table = T
    BY <2>1, <2>3 DEF T, TableSet
  <2> HIDE DEF T
  <2> QED BY <2>1, <2>3, <2>4
<1>5. Shape(M.dir, T) /\ Flat(M.dir, T) = RowSet(w, d, v)
  <2>1. TableFor(M.dir, M.table, d, s, t, g)
    BY <1>1, <1>2, Zenon DEF TableFor
  <2>2. TableStep(M.dir, M.table, d, s, t, g)
    BY <2>1, TableWritten, Zenon
  <2> QED BY <2>2, Zenon DEF TableStep, Maps
<1>6. w \in [DOMAIN M.dir -> Rows] /\ DOMAIN w = DOMAIN M.dir
  <2>1. w = Flat(M.dir, M.table) /\ Shape(M.dir, M.table)
    BY <1>1, Zenon DEF Maps
  <2> HIDE DEF w
  <2> QED BY <2>1, FlatFacts
<1>7. \A a \in Cells : /\ a[1] \in UserSlots /\ a[2] \in Pages /\ a = <<a[1], a[2]>>
                       /\ v[a] = IF a[1] = s THEN g[a[2]].frame ELSE w[d][a]
                       /\ a[1] = s => w[d][a] = M.table[t][a[2]].frame
  <2> TAKE a \in Cells
  <2>1. a[1] \in UserSlots /\ a[2] \in Pages /\ a = <<a[1], a[2]>>
    BY CellFacts
  <2>2. v[a] = IF a[1] = s THEN g[a[2]].frame ELSE w[d][a]
    BY DEF RowOfTable
  <2>3. w[d][a] = FrameAt(M.dir, M.table, d, a[1], a[2])
    BY <1>1, <2>1, FlatFacts DEF Maps
  <2> QED BY <2>1, <2>2, <2>3, Zenon DEF FrameAt, IsTable
<1> HIDE DEF g, F, N, T, ph, w, I
<1>8. v \in Rows
  <2>1. \A p \in Pages : g[p].frame \in Frames \union {NoFrame}
    BY <1>2, EntryFacts, Zenon
  <2>2. \A a \in Cells : v[a] \in Frames \union {NoFrame}
    <3> TAKE a \in Cells
    <3>1. a[2] \in Pages /\ v[a] = IF a[1] = s THEN g[a[2]].frame ELSE w[d][a]
      BY <1>7, Zenon
    <3>2. w[d][a] \in Frames \union {NoFrame}
      BY <1>6 DEF Rows
    <3> QED BY <2>1, <3>1, <3>2, Zenon
  <2> QED BY <2>2 DEF Rows, RowOfTable
<1> HIDE DEF v
<1>9. Counted(w, M.phys, Held(M, X), V)
  BY DEF Good, w
<1>10. \A f \in F : f \notin Held(M, X) /\ f # V /\ f # NoFrame
                    /\ \A c \in DOMAIN w : \A a \in Cells : w[c][a] # f
  <2> TAKE f \in F
  <2>1. f \in Frames /\ M.phys[f] = UNUSED
    BY <1>3
  <2>2. f \notin Held(M, X) /\ f # V /\ f # NoFrame /\ Users(w, f) = {}
    BY <1>9, <2>1, FreshFrame
  <2> QED BY <2>2 DEF Users
<1>11. \A a \in Cells : \/ v[a] = w[d][a] /\ ~(a[1] = s /\ a[2] \in I)
                        \/ a[1] = s /\ a[2] \in I /\ w[d][a] = NoFrame /\ v[a] \in F
  <2> TAKE a \in Cells
  <2>1. CASE a[1] # s
    BY <1>7, <2>1, Zenon
  <2>2. CASE a[1] = s /\ a[2] \notin I
    <3>1. a[2] \in Pages /\ v[a] = g[a[2]].frame /\ w[d][a] = M.table[t][a[2]].frame
      BY <1>7, <2>2, Zenon
    <3>2. \A p \in Pages : p \notin I => g[p] = M.table[t][p]
      BY <1>2, Zenon
    <3> QED BY <2>2, <3>1, <3>2, Zenon
  <2>3. CASE a[1] = s /\ a[2] \in I
    <3>0. a[2] \in Pages
      BY <1>7, Zenon
    <3>1. g[a[2]].frame \in F
      <4>1. \A p \in Pages : p \in I => g[p].frame \in F
        BY <1>2, Zenon
      <4> QED BY <2>3, <3>0, <4>1, Zenon
    <3>2. M.table[t][a[2]].frame = NoFrame
      <4>1. \A p \in Pages : p \in I => M.table[t][p].frame = NoFrame
        BY Zenon DEF I
      <4> QED BY <2>3, <3>0, <4>1, Zenon
    <3>3. w[d][a] = NoFrame
      BY <1>7, <2>3, <3>2, Zenon
    <3>4. v[a] \in F
      BY <1>7, <2>3, <3>1, Zenon
    <3> QED BY <2>3, <3>3, <3>4
  <2> QED BY <2>1, <2>2, <2>3
<1>12. \A a, b \in Cells : v[a] \in F /\ v[a] = v[b] => a = b
  <2> SUFFICES ASSUME NEW a \in Cells, NEW b \in Cells, v[a] \in F, v[a] = v[b]
               PROVE  a = b
    OBVIOUS
  <2>1. w[d][a] \notin F /\ w[d][b] \notin F
    BY <1>6, <1>10
  <2>2. a[1] = s /\ a[2] \in I /\ b[1] = s /\ b[2] \in I
    BY <1>11, <2>1
  <2>3. a[2] = b[2]
    <3>1. /\ a[2] \in Pages /\ v[a] = g[a[2]].frame
          /\ b[2] \in Pages /\ v[b] = g[b[2]].frame
      BY <1>7, <2>2, Zenon
    <3>2. \A p, q \in Pages : p \in I /\ q \in I /\ g[p].frame = g[q].frame => p = q
      BY <1>2, Zenon
    <3> QED BY <2>2, <3>1, <3>2, Zenon
  <2>4. a = <<a[1], a[2]>> /\ b = <<b[1], b[2]>>
    BY <1>7, Zenon
  <2> QED BY <2>2, <2>3, <2>4, Zenon
<1>13. \A f \in F : \E a \in Cells : v[a] = f
  <2> TAKE f \in F
  <2>1. PICK p \in Pages : p \in I /\ g[p].frame = f
    BY <1>2, Zenon
  <2>2. <<s, p>> \in Cells /\ <<s, p>>[1] = s /\ <<s, p>>[2] = p
    BY CellFacts
  <2> QED BY <1>7, <2>1, <2>2, Zenon
<1>14. Counted(RowSet(w, d, v), ph, Held(M, X), V)
  BY <1>3, <1>6, <1>8, <1>9, <1>11, <1>12, <1>13, FramesMapped DEF ph
<1>15. Split(ph)
  BY <1>3, SplitSmall DEF Good, ph
<1>16. Held(N, X) = Held(M, X) /\ DOMAIN T = DOMAIN M.table
  BY <1>4 DEF Held, T
<1>17. Good(N, X, V)
  <2>1. Shape(N.dir, N.table) /\ Maps(N) = RowSet(w, d, v)
    BY <1>4, <1>5 DEF Maps
  <2>2. Counted(Maps(N), N.phys, Held(N, X), V) /\ Split(N.phys)
    BY <1>4, <1>14, <1>15, <1>16, <2>1
  <2>3. /\ N.dir = M.dir /\ DOMAIN N.table = DOMAIN M.table /\ N.content = M.content /\ Fields(N)
    BY <1>4, <1>16
  <2> QED BY <2>1, <2>2, <2>3 DEF Good
<1>18. Grown(M, N, d, s, V)
  <2>1. Maps(N) = RowSet(w, d, v)
    BY <1>4, <1>5 DEF Maps
  <2>2. /\ \A c \in DOMAIN M.dir : c # d => Maps(N)[c] = w[c]
        /\ Maps(N)[d] = v
    BY <1>6, <2>1 DEF RowSet
  <2>3. \A a \in Cells : \/ v[a] = w[d][a]
                         \/ a[1] = s /\ w[d][a] = NoFrame /\ v[a] \notin {NoFrame, V}
    BY <1>10, <1>11
  <2> QED BY <1>4, <2>2, <2>3 DEF Grown, w
<1> QED BY <1>4, <1>17, <1>18, Zenon DEF N

\* What a request for small pages can do: its pages or some of the way to them,
\* and a panic where the entry is a large page's.
Asked(M, r, d, s, X, V) ==
  \/ Good(r.M, X, V) /\ Grown(M, r.M, d, s, V) /\ SameLarge(M, r.M) /\ r.ok \in BOOLEAN
  \/ ~r.ok /\ r.M = Panics(M, "bug") /\ s \in UserSlots /\ M.dir[d][s].large

LEMMA TableAddedGrown ==
  ASSUME NEW M, NEW X, NEW V, Good(M, X, V), NEW N, NEW d \in DOMAIN M.dir, NEW s \in UserSlots,
         M.dir[d][s].frame = NoFrame, TableAdded(M, N, X, V, d, s)
  PROVE  Good(N, X, V) /\ Grown(M, N, d, s, V) /\ SameLarge(M, N)
<1>1. ~M.dir[d][s].large
  BY NumberFacts DEF Good, Shape, DirsOK, BigFrame
<1>2. ~N.dir[d][s].large
  BY DEF TableAdded, IsTable
<1>3. \A c \in DOMAIN M.dir : \A r \in UserSlots : N.dir[c][r].large <=> M.dir[c][r].large
  BY <1>1, <1>2 DEF TableAdded
<1>4. SameLarge(M, N)
  BY <1>3 DEF SameLarge, LargeIn
<1> QED BY <1>4 DEF TableAdded, Grown

LEMMA GrownTwice ==
  ASSUME NEW M, NEW K, NEW N, NEW d, NEW s, NEW V,
         Grown(M, K, d, s, V), Grown(K, N, d, s, V), SameLarge(M, K), N.dir = K.dir
  PROVE  Grown(M, N, d, s, V) /\ SameLarge(M, N)
<1>1. DOMAIN N.dir = DOMAIN M.dir /\ DOMAIN K.dir = DOMAIN M.dir
      /\ N.content = M.content /\ N.panic = M.panic
  BY DEF Grown
<1>2. ASSUME NEW c \in DOMAIN M.dir, NEW a \in Cells
      PROVE  \/ Maps(N)[c][a] = Maps(M)[c][a]
             \/ c = d /\ a[1] = s /\ Maps(M)[c][a] = NoFrame /\ Maps(N)[c][a] \notin {NoFrame, V}
  <2>1. \/ Maps(K)[c][a] = Maps(M)[c][a]
        \/ c = d /\ a[1] = s /\ Maps(M)[c][a] = NoFrame /\ Maps(K)[c][a] \notin {NoFrame, V}
    BY DEF Grown
  <2>2. \/ Maps(N)[c][a] = Maps(K)[c][a]
        \/ c = d /\ a[1] = s /\ Maps(K)[c][a] = NoFrame /\ Maps(N)[c][a] \notin {NoFrame, V}
    BY <1>1 DEF Grown
  <2> QED BY <2>1, <2>2
<1>3. SameLarge(M, N)
  BY DEF SameLarge, LargeIn
<1> QED BY <1>1, <1>2, <1>3 DEF Grown

LEMMA RequestSmallFacts ==
  ASSUME NEW M, NEW X, NEW V, Good(M, X, V), NEW d \in DOMAIN M.dir,
         NEW i \in Nat, NEW n \in Nat, NEW rw \in BOOLEAN
  PROVE  Asked(M, RequestSmall(M, d, i, n, rw), d, i \div NumEntries, X, V)
<1> DEFINE first == i % NumEntries
           s == i \div NumEntries
           r  == RequestSmall(M, d, i, n, rw)
           M1 == IF M.dir[d][s].frame = NoFrame /\ FreeSmall(M) # {} THEN MakeTable(M, d, s) ELSE M
           t  == M1.dir[d][s].frame
<1>1. first \in Nat
  BY NumberFacts
<1>2. NumEntries \in Nat
  BY NumberFacts
<1>3. r = IF first + n >= NumEntries \/ s \notin UserSlots THEN [ok |-> FALSE, M |-> M]
          ELSE IF M.dir[d][s].large THEN [ok |-> FALSE, M |-> Panics(M, "bug")]
          ELSE IF t = NoFrame THEN [ok |-> FALSE, M |-> M]
          ELSE IF \E p \in first .. first + n - 1 : M1.table[t][p].frame # NoFrame
            THEN [ok |-> FALSE, M |-> M]
          ELSE IF Cardinality(FreeSmall(M1)) < n THEN [ok |-> FALSE, M |-> M1]
          ELSE [ok |-> TRUE, M |-> Filled(M1, t, first, n, rw)]
  BY DEF RequestSmall, Filled, FilledTable, NewPage
<1> HIDE DEF first, s, r
<1>4. Good(M, X, V) /\ Grown(M, M, d, s, V) /\ SameLarge(M, M)
  BY DEF Grown, SameLarge
<1>5. ASSUME s \in UserSlots
      PROVE  /\ Good(M1, X, V) /\ Grown(M, M1, d, s, V) /\ SameLarge(M, M1)
             /\ ~M.dir[d][s].large => ~M1.dir[d][s].large
  <2>1. CASE M.dir[d][s].frame = NoFrame /\ FreeSmall(M) # {}
    <3>1. M1 = MakeTable(M, d, s)
      BY <2>1
    <3>2. TableAdded(M, MakeTable(M, d, s), X, V, d, s)
      BY <1>5, <2>1, MakeTableFacts
    <3> HIDE DEF M1
    <3> QED BY <1>5, <2>1, <3>1, <3>2, TableAddedGrown DEF TableAdded, IsTable
  <2>2. CASE ~(M.dir[d][s].frame = NoFrame /\ FreeSmall(M) # {})
    <3>1. M1 = M
      BY <2>2
    <3> QED BY <1>4, <3>1
  <2> QED BY <2>1, <2>2

<1> HIDE DEF M1, t
<1>6. ASSUME /\ s \in UserSlots /\ ~M.dir[d][s].large
             /\ ~(first + n >= NumEntries) /\ t # NoFrame
             /\ ~\E p \in first .. first + n - 1 : M1.table[t][p].frame # NoFrame
             /\ ~(Cardinality(FreeSmall(M1)) < n)
      PROVE  LET N == Filled(M1, t, first, n, rw) IN
             Good(N, X, V) /\ Grown(M, N, d, s, V) /\ SameLarge(M, N)
  <2> DEFINE N == Filled(M1, t, first, n, rw)
  <2>1. first + n < NumEntries
    BY <1>1, <1>2, <1>6
  <2>2. n <= Cardinality(FreeSmall(M1))
    BY <1>6, SmallAfterFacts
  <2>3. s \in UserSlots /\ ~M.dir[d][s].large /\ t # NoFrame
    BY <1>6
  <2>4. /\ Good(M1, X, V) /\ Grown(M, M1, d, s, V) /\ SameLarge(M, M1) /\ ~M1.dir[d][s].large
    BY <1>5, <2>3
  <2>5. d \in DOMAIN M1.dir
    BY <2>4 DEF Grown
  <2>6. t = M1.dir[d][s].frame
    BY DEF t
  <2>7. IsTable(M1.dir[d][s])
    BY <2>3, <2>4, <2>6 DEF IsTable
  <2>8. \A p \in Pages : p \in first .. first + n - 1 => M1.table[t][p].frame = NoFrame
    BY <1>6
  <2>9. Good(N, X, V) /\ Grown(M1, N, d, s, V) /\ N.dir = M1.dir
    <3> HIDE <1>6
    <3> QED BY <1>1, <2>1, <2>2, <2>3, <2>4, <2>5, <2>6, <2>7, <2>8, FilledFacts
  <2> HIDE DEF N
  <2>10. Grown(M, N, d, s, V) /\ SameLarge(M, N)
    BY <2>4, <2>9, GrownTwice
  <2> QED BY <2>9, <2>10 DEF N
<1>7. Asked(M, r, d, s, X, V)
  <2>1. CASE r = [ok |-> FALSE, M |-> M]
    BY <1>4, <2>1 DEF Asked
  <2>2. CASE r = [ok |-> FALSE, M |-> Panics(M, "bug")] /\ s \in UserSlots /\ M.dir[d][s].large
    BY <2>2 DEF Asked
  <2>3. CASE r = [ok |-> FALSE, M |-> M1] /\ s \in UserSlots
    BY <1>5, <2>3 DEF Asked
  <2>4. CASE /\ r = [ok |-> TRUE, M |-> Filled(M1, t, first, n, rw)]
             /\ s \in UserSlots /\ ~M.dir[d][s].large
             /\ ~(first + n >= NumEntries) /\ t # NoFrame
             /\ ~\E p \in first .. first + n - 1 : M1.table[t][p].frame # NoFrame
             /\ ~(Cardinality(FreeSmall(M1)) < n)
    BY <1>6, <2>4 DEF Asked
  <2> QED BY <1>3, <2>1, <2>2, <2>3, <2>4
<1> QED BY <1>7 DEF r, s

LEMMA FreeLargeFacts ==
  ASSUME NEW M
  PROVE  /\ FreeLarge(M) \in SUBSET LargeFrame /\ FreeLarge(M) \in SUBSET Frames
         /\ \A f \in FreeLarge(M) : M.phys[f] = UNUSED
         /\ FreeLarge(M) # {} => Min(FreeLarge(M)) \in FreeLarge(M)
<1>1. FreeLarge(M) \in SUBSET LargeFrame /\ \A f \in FreeLarge(M) : M.phys[f] = UNUSED
  BY DEF FreeLarge
<1>2. FreeLarge(M) \in SUBSET Frames /\ FreeLarge(M) \in SUBSET Nat
  BY <1>1, NumberFacts
<1> QED BY <1>1, <1>2, MinFacts

LargePage(f) == [frame |-> f, rw |-> TRUE, cow |-> FALSE, large |-> TRUE]

LargeMade(M, d, s, f) == [Mark(M, {f}, 1) EXCEPT !.dir[d][s] = LargePage(f)]

\* What a request for a large page can do.
AskedLarge(M, r, d, s, X, V) ==
  /\ Good(r.M, X, V) /\ Grown(M, r.M, d, s, V) /\ r.ok \in BOOLEAN
  /\ \A c \in DOMAIN M.dir : LargeIn(r.M, c) \subseteq LargeIn(M, c) \union {s}
  /\ \A c \in DOMAIN M.dir : c # d => LargeIn(r.M, c) = LargeIn(M, c)

LEMMA LargeMadeFacts ==
  ASSUME NEW M, NEW X, NEW V, Good(M, X, V), NEW d \in DOMAIN M.dir, NEW s \in UserSlots,
         M.dir[d][s].frame = NoFrame, NEW f \in FreeLarge(M),
         NEW N, N = LargeMade(M, d, s, f)
  PROVE  /\ Good(N, X, V) /\ Grown(M, N, d, s, V)
         /\ \A c \in DOMAIN M.dir : LargeIn(N, c) \subseteq LargeIn(M, c) \union {s}
         /\ \A c \in DOMAIN M.dir : c # d => LargeIn(N, c) = LargeIn(M, c)
<1> DEFINE e == LargePage(f)
           D == SlotSet(M.dir, d, s, e)
           ph == Given(M.phys, {f}, 1)
           w == Maps(M)
           v == [w[d] EXCEPT ![<<s, 0>>] = f]
<1>1. /\ f \in LargeFrame /\ f \in Frames /\ M.phys[f] = UNUSED
  BY FreeLargeFacts
<1>2. Shape(M.dir, M.table) /\ DirsOK(M.dir) /\ Fields(M) /\ Counted(w, M.phys, Held(M, X), V)
  BY DEF Good, Shape
<1>3. /\ f \notin Held(M, X) /\ f # V /\ f # NoFrame /\ Usable(f) /\ Users(w, f) = {}
  BY <1>1, <1>2, FreshFrame
<1>4. f \in BigFrame
  BY <1>1, <1>3, NumberFacts DEF BigFrame
<1>5. e \in Entries /\ e.large /\ e.frame = f
  BY <1>1 DEF LargePage, Entries
<1>6. /\ Fields(N) /\ N.phys = ph /\ N.dir = D /\ N.table = M.table
      /\ N.content = M.content /\ N.panic = M.panic
  <2> DEFINE K == Mark(M, {f}, 1)
  <2>1. /\ Fields(K) /\ K.phys = ph /\ K.dir = M.dir /\ K.table = M.table
        /\ K.content = M.content /\ K.panic = M.panic
    BY <1>2, MarkFacts
  <2>2. N = [K EXCEPT !.dir[d][s] = e]
    BY DEF LargeMade
  <2> HIDE DEF K, e, ph
  <2>3. K = [phys |-> ph, dir |-> M.dir, table |-> M.table, content |-> M.content, panic |-> M.panic]
    BY <2>1 DEF Fields
  <2>4. N = [phys |-> ph, dir |-> [M.dir EXCEPT ![d][s] = e], table |-> M.table,
             content |-> M.content, panic |-> M.panic]
    BY <2>2, <2>3
  <2>5. D = [M.dir EXCEPT ![d][s] = e]
    BY DEF SlotSet
  <2> HIDE DEF D
  <2> QED BY <2>4, <2>5 DEF Fields
<1> HIDE DEF e, D, ph, w
<1>7. ~IsTable(M.dir[d][s])
  BY DEF IsTable
<1>8. /\ Shape(D, M.table) /\ Flat(D, M.table) = RowSet(w, d, v)
      /\ DOMAIN D = DOMAIN M.dir /\ D[d][s] = e
      /\ \A c \in DOMAIN M.dir : \A r \in UserSlots : c # d \/ r # s => D[c][r] = M.dir[c][r]
  <2>1. /\ Shape(SlotSet(M.dir, d, s, e), M.table)
        /\ Flat(SlotSet(M.dir, d, s, e), M.table)
             = RowSet(Flat(M.dir, M.table), d, [Flat(M.dir, M.table)[d] EXCEPT ![<<s, 0>>] = e.frame])
    BY <1>2, <1>4, <1>5, <1>7, LargeWritten
  <2>2. /\ DOMAIN SlotSet(M.dir, d, s, e) = DOMAIN M.dir /\ SlotSet(M.dir, d, s, e)[d][s] = e
        /\ \A c \in DOMAIN M.dir : \A r \in UserSlots :
             c # d \/ r # s => SlotSet(M.dir, d, s, e)[c][r] = M.dir[c][r]
    BY <1>2, <1>4, <1>5, SlotSetFacts, SMTT(30)
  <2> QED BY <1>5, <2>1, <2>2, Zenon DEF w, D, Maps
<1>9. w \in [DOMAIN M.dir -> Rows] /\ DOMAIN w = DOMAIN M.dir
  BY <1>2, FlatFacts DEF Maps, w
<1>10. <<s, 0>> \in Cells
  BY CellFacts, EntryFacts
<1>11. w[d][<<s, 0>>] = NoFrame
  BY <1>2, FlatFacts, EntryFacts DEF w, Maps, FrameAt
<1>12. /\ v \in Rows /\ v[<<s, 0>>] = f
       /\ \A a \in Cells : a # <<s, 0>> => v[a] = w[d][a]
  BY <1>1, <1>9, <1>10 DEF Rows
<1>13. \A a \in Cells : w[d][a] # f
  BY <1>3, <1>9 DEF Users
<1> HIDE DEF v
<1>14. Counted(RowSet(w, d, v), ph, Held(M, X), V)
  <2>1. \A a \in Cells : v[a] = w[d][a] \/ (w[d][a] = NoFrame /\ v[a] \in {f})
    BY <1>11, <1>12
  <2>2. \A a, b \in Cells : v[a] \in {f} /\ v[a] = v[b] => a = b
    BY <1>12, <1>13
  <2>3. \A g \in {f} : \E a \in Cells : v[a] = g
    BY <1>10, <1>12
  <2>4. d \in DOMAIN w /\ {f} \in SUBSET Frames /\ \A g \in {f} : M.phys[g] = UNUSED
    BY <1>1, <1>9
  <2> QED BY <1>2, <1>12, <2>1, <2>2, <2>3, <2>4, FramesMapped DEF ph
<1>15. Split(ph)
  BY SplitLarge DEF Good, ph
<1>16. Held(N, X) = Held(M, X) /\ Maps(N) = RowSet(w, d, v)
  BY <1>6, <1>8 DEF Held, Maps
<1>17. Good(N, X, V)
  <2>1. Shape(N.dir, N.table) /\ Counted(Maps(N), N.phys, Held(N, X), V) /\ Split(N.phys)
    BY <1>6, <1>8, <1>14, <1>15, <1>16
  <2>2. DOMAIN N.dir = DOMAIN M.dir /\ N.table = M.table /\ N.content = M.content /\ Fields(N)
    BY <1>6, <1>8
  <2> QED BY <2>1, <2>2 DEF Good
<1>18. Grown(M, N, d, s, V)
  <2>1. /\ \A c \in DOMAIN M.dir : c # d => Maps(N)[c] = w[c]
        /\ Maps(N)[d] = v
    BY <1>9, <1>16 DEF RowSet
  <2>2. \A a \in Cells : \/ v[a] = w[d][a]
                         \/ a[1] = s /\ w[d][a] = NoFrame /\ v[a] \notin {NoFrame, V}
    BY <1>3, <1>11, <1>12
  <2> QED BY <1>6, <1>8, <2>1, <2>2 DEF Grown, w
<1>19. \A c \in DOMAIN M.dir : \A r \in UserSlots :
         c # d \/ r # s => (N.dir[c][r].large <=> M.dir[c][r].large)
  BY <1>6, <1>8
<1> QED BY <1>17, <1>18, <1>19 DEF LargeIn

LEMMA RequestLargeFacts ==
  ASSUME NEW M, NEW X, NEW V, Good(M, X, V), NEW d \in DOMAIN M.dir, NEW s \in UserSlots
  PROVE  AskedLarge(M, RequestLarge(M, d, s), d, s, X, V)
<1> DEFINE r == RequestLarge(M, d, s)
           f == Min(FreeLarge(M))
           N == LargeMade(M, d, s, f)
<1>1. r = IF M.dir[d][s].frame # NoFrame \/ FreeLarge(M) = {} THEN [ok |-> FALSE, M |-> M]
          ELSE [ok |-> TRUE, M |-> N]
  BY DEF RequestLarge, LargeMade, LargePage
<1> HIDE DEF r, f, N
<1>2. AskedLarge(M, r, d, s, X, V)
  <2>1. CASE r = [ok |-> FALSE, M |-> M]
    BY <2>1 DEF AskedLarge, Grown
  <2>2. CASE r = [ok |-> TRUE, M |-> N] /\ M.dir[d][s].frame = NoFrame /\ FreeLarge(M) # {}
    <3>1. f \in FreeLarge(M)
      BY <2>2, FreeLargeFacts DEF f
    <3>2. /\ Good(N, X, V) /\ Grown(M, N, d, s, V)
          /\ \A c \in DOMAIN M.dir : LargeIn(N, c) \subseteq LargeIn(M, c) \union {s}
          /\ \A c \in DOMAIN M.dir : c # d => LargeIn(N, c) = LargeIn(M, c)
      BY <2>2, <3>1, LargeMadeFacts DEF N
    <3> QED BY <2>2, <3>2 DEF AskedLarge
  <2> QED BY <1>1, <2>1, <2>2
<1> QED BY <1>2 DEF r

-----------------------------------------------------------------------------
(* Pages are released. *)

\* N is M without the pages at the addresses A of directory d.
Released(M, N, d, A, X, V) ==
  /\ Good(N, X, V)
  /\ Maps(N) = RowSet(Maps(M), d, [a \in Cells |-> IF a \in A THEN NoFrame ELSE Maps(M)[d][a]])
  /\ DOMAIN N.dir = DOMAIN M.dir /\ DOMAIN N.table = DOMAIN M.table /\ N.panic = M.panic
  /\ TablesOf(N.dir, d) = TablesOf(M.dir, d)
  /\ \A c \in DOMAIN M.dir : LargeIn(N, c) \subseteq LargeIn(M, c)

\* The counts without the users that those cells of a directory are.
FewerUsers(M, d, A) ==
  [i \in Frames |-> M.phys[i] - Cardinality({a \in A : Entry(M, d, a).frame = i})]

\* The frames that lose a user lose one.
LEMMA OneFewer ==
  ASSUME NEW M, NEW X, NEW V, Good(M, X, V), NEW d \in DOMAIN M.dir,
         NEW A \in SUBSET Mapped(M, d), \A a \in A : Maps(M)[d][a] # V
  PROVE  FewerUsers(M, d, A) = Fewer(M.phys, {Maps(M)[d][a] : a \in A})
<1> DEFINE w == Maps(M)
           F == {w[d][a] : a \in A}
           S(i) == {a \in A : Entry(M, d, a).frame = i}
<1>1. /\ Shape(M.dir, M.table) /\ M.phys \in [Frames -> Int]
      /\ w \in [DOMAIN M.dir -> Rows] /\ DOMAIN w = DOMAIN M.dir
  BY FlatFacts DEF Good, Maps, Counted
<1>2. \A a \in A : a \in Cells /\ w[d][a] \notin {NoFrame, V} /\ Entry(M, d, a).frame = w[d][a]
  BY <1>1, MappedFacts
<1>3. \A a, b \in Cells : w[d][a] \notin {NoFrame, V} /\ w[d][a] = w[d][b] => a = b
  BY <1>1 DEF Good, Counted, RowOK
<1>4. ASSUME NEW i \in Frames
      PROVE  Cardinality(S(i)) = IF i \in F THEN 1 ELSE 0
  <2>1. CASE i \in F
    <3>1. PICK a \in A : w[d][a] = i
      BY <2>1
    <3>2. S(i) = {a}
      BY <1>2, <1>3, <3>1
    <3> QED BY <2>1, <3>2, FS_Singleton
  <2>2. CASE i \notin F
    <3>1. S(i) = {}
      BY <1>2, <2>2
    <3> QED BY <2>2, <3>1, FS_EmptySet
  <2> QED BY <2>1, <2>2
<1> HIDE DEF S
<1>5. \A i \in Frames : M.phys[i] - Cardinality(S(i)) = IF i \in F THEN M.phys[i] - 1 ELSE M.phys[i]
  BY <1>1, <1>4
<1>6. [i \in Frames |-> M.phys[i] - Cardinality(S(i))] = Fewer(M.phys, F)
  BY <1>5 DEF Fewer
<1> QED BY <1>6 DEF S, FewerUsers

LEMMA FewerSplit ==
  ASSUME NEW ph \in [Frames -> Int], NEW F, \A f \in F : f \in Frames /\ ph[f] > 0, Split(ph)
  PROVE  Split(Fewer(ph, F))
<1>1. ASSUME NEW f \in Frames
      PROVE  /\ InUse(Fewer(ph, F)[f]) => InUse(ph[f])
             /\ ph[f] = UNUSED => Fewer(ph, F)[f] = UNUSED
  <2>1. CASE f \in F
    BY <2>1, NumberFacts DEF InUse
  <2>2. CASE f \notin F
    BY <2>2 DEF Fewer
  <2> QED BY <2>1, <2>2
<1>2. SameUse(ph, Fewer(ph, F))
  BY <1>1 DEF SameUse
<1> QED BY <1>2, SplitSame

LEMMA ReleaseFacts ==
  ASSUME NEW M, NEW X, NEW V, Good(M, X, V), NEW d \in DOMAIN M.dir,
         NEW A \in SUBSET Mapped(M, d), \A a \in A : Maps(M)[d][a] # V,
         NEW N, N = Release(M, d, A)
  PROVE  Released(M, N, d, A, X, V)
<1> DEFINE w == Maps(M)
           F == {w[d][a] : a \in A}
           v == [a \in Cells |-> IF a \in A THEN NoFrame ELSE w[d][a]]
           D == DirLess(M.dir, d, A)
           T == TablesLess(M.dir, M.table, d, A)
           ph == [i \in Frames |-> M.phys[i] - Cardinality({a \in A : Entry(M, d, a).frame = i})]
           ct == [i \in Frames |-> IF M.phys[i] > 0 /\ ph[i] = 0 THEN 0 ELSE M.content[i]]
<1>1. /\ Shape(M.dir, M.table) /\ Counted(w, M.phys, Held(M, X), V) /\ Fields(M)
      /\ Split(M.phys) /\ M.phys \in [Frames -> Int] /\ M.content \in [Frames -> Values]
  BY DEF Good, Counted
<1>2. w \in [DOMAIN M.dir -> Rows] /\ DOMAIN w = DOMAIN M.dir
  BY <1>1, FlatFacts DEF Maps
<1>3. A \in SUBSET Cells /\ \A a \in A : w[d][a] # NoFrame /\ Entry(M, d, a).frame = w[d][a]
  BY <1>1, MappedFacts
<1>4. ph = Fewer(M.phys, F)
  <2>1. FewerUsers(M, d, A) = Fewer(M.phys, F)
    BY OneFewer, Z3
  <2> QED BY <2>1 DEF FewerUsers
<1> HIDE DEF ph, w
<1>5. /\ \A a \in A : w[d][a] \in Frames /\ M.phys[w[d][a]] > 0
      /\ Counted(RowSet(w, d, v), Fewer(M.phys, F), Held(M, X), V)
  <2>1. \A a \in A : w[d][a] \notin {NoFrame, V}
    BY <1>3 DEF w
  <2>2. Counted(w, M.phys, Held(M, X), V) /\ d \in DOMAIN w /\ A \in SUBSET Cells
    BY <1>1, <1>2, <1>3
  <2> QED BY <2>1, <2>2, FramesUnmapped, SMTT(30)
<1>6. N = [M EXCEPT !.phys = ph, !.content = ct, !.dir[d] = DirLess(M.dir, d, A)[d], !.table = T]
  <2>1. ~\E a \in A : M.phys[Entry(M, d, a).frame] <= 0
    BY <1>1, <1>3, <1>5
  <2>2. DirLess(M.dir, d, A)[d] = [s \in UserSlots |->
          IF M.dir[d][s].large /\ <<s, 0>> \in A THEN Absent ELSE M.dir[d][s]]
    BY DEF DirLess
  <2> QED BY <2>1, <2>2 DEF Release, TablesLess, ph
<1>7. /\ Fields(N) /\ N.phys = ph /\ N.dir = D /\ N.table = T
      /\ N.content = ct /\ N.panic = M.panic
  <2>1. M = [phys |-> M.phys, dir |-> M.dir, table |-> M.table, content |-> M.content, panic |-> M.panic]
    BY <1>1 DEF Fields
  <2>2. D = [M.dir EXCEPT ![d] = DirLess(M.dir, d, A)[d]]
    BY DEF DirLess
  <2> HIDE DEF D, T, ct
  <2>3. N = [phys |-> ph, dir |-> D, table |-> T, content |-> ct, panic |-> M.panic]
    BY <1>6, <2>1, <2>2
  <2> QED BY <2>3 DEF Fields
<1>8. ct \in [Frames -> Values]
  BY <1>1, MemoryAssumption
<1>9. /\ Shape(D, T) /\ Flat(D, T) = RowSet(w, d, v) /\ TablesOf(D, d) = TablesOf(M.dir, d)
  <2>1. \A a \in A : Flat(M.dir, M.table)[d][a] # NoFrame
    BY <1>3 DEF w, Maps
  <2> QED BY <1>1, <1>3, <2>1, PagesGone DEF w, Maps
<1>10. DOMAIN D = DOMAIN M.dir /\ DOMAIN T = DOMAIN M.table
  BY DEF DirLess, TablesLess
<1>11. \A c \in DOMAIN M.dir : LargeIn(N, c) \subseteq LargeIn(M, c)
  <2>1. ASSUME NEW c \in DOMAIN M.dir, NEW s \in UserSlots, D[c][s].large
        PROVE  M.dir[c][s].large
    <3>1. CASE c = d
      <4>1. D[c] = [r \in UserSlots |->
              IF M.dir[d][r].large /\ <<r, 0>> \in A THEN Absent ELSE M.dir[d][r]]
        BY <3>1 DEF DirLess
      <4> QED BY <2>1, <3>1, <4>1, EntryFacts
    <3>2. CASE c # d
      BY <2>1, <3>2 DEF DirLess
    <3> QED BY <3>1, <3>2
  <2> HIDE DEF D
  <2> QED BY <1>7, <2>1 DEF LargeIn
<1> HIDE DEF F, v, D, T, ct
<1>12. Split(ph)
  <2>1. \A f \in F : f \in Frames /\ M.phys[f] > 0
    BY <1>5 DEF F
  <2> QED BY <1>1, <1>4, <2>1, FewerSplit
<1>13. Good(N, X, V)
  <2>1. Held(N, X) = Held(M, X) /\ Maps(N) = RowSet(w, d, v)
    BY <1>7, <1>9, <1>10 DEF Held, Maps
  <2>2. Shape(N.dir, N.table) /\ Counted(Maps(N), N.phys, Held(N, X), V) /\ Split(N.phys)
    BY <1>4, <1>5, <1>7, <1>9, <1>12, <2>1
  <2>3. DOMAIN N.dir = DOMAIN M.dir /\ DOMAIN N.table = DOMAIN M.table /\ Fields(N)
        /\ N.content \in [Frames -> Values]
    BY <1>7, <1>8, <1>10
  <2> QED BY <2>2, <2>3 DEF Good
<1> QED BY <1>7, <1>9, <1>10, <1>11, <1>13 DEF Released, Maps, w, v

LEMMA FreePagesFacts ==
  ASSUME NEW M, NEW X, NEW V, Good(M, X, V), NEW d \in DOMAIN M.dir,
         \A a \in Cells : Maps(M)[d][a] # V, NEW I, NEW N, N = FreePages(M, d, I)
  PROVE  \E A \in SUBSET Cells : Released(M, N, d, A, X, V)
<1> DEFINE A == {a \in Mapped(M, d) : a[1] * NumEntries + a[2] \in I /\ ~Entry(M, d, a).large}
<1>1. A \in SUBSET Mapped(M, d)
  OBVIOUS
<1>2. N = Release(M, d, A)
  BY DEF FreePages
<1> HIDE DEF A
<1>3. A \in SUBSET Cells
  BY <1>1, MappedFacts DEF Good
<1>4. \A a \in A : Maps(M)[d][a] # V
  BY <1>3
<1>5. Released(M, N, d, A, X, V)
  BY <1>1, <1>2, <1>4, ReleaseFacts
<1> QED BY <1>3, <1>5

\* The kernel gives back frames that are its own.
LEMMA GivenBackFacts ==
  ASSUME NEW M, NEW X, NEW V, Good(M, X, V), NEW F \in SUBSET Held(M, X), V \notin F
  PROVE  /\ FreeKernel(M, F) = Mark(M, F, UNUSED)
         /\ Counted(Maps(M), Given(M.phys, F, UNUSED), Held(M, X) \ F, V)
         /\ Split(Given(M.phys, F, UNUSED))
         /\ F \in SUBSET Frames
<1>1. /\ Counted(Maps(M), M.phys, Held(M, X), V) /\ Split(M.phys)
  BY DEF Good
<1>2. \A f \in F : f \in Frames /\ M.phys[f] = KERNEL
  <2> TAKE f \in F
  <2>1. f \in Frames
    BY <1>1 DEF Counted, Usable
  <2> QED BY <1>1, <2>1 DEF Counted, Counts, Count
<1>3. FreeKernel(M, F) = Mark(M, F, UNUSED)
  BY <1>2 DEF FreeKernel
<1>4. Counted(Maps(M), Given(M.phys, F, UNUSED), Held(M, X) \ F, V)
  BY <1>1, FramesGivenBack
<1>5. SameUse(M.phys, Given(M.phys, F, UNUSED))
  <2>1. ~InUse(UNUSED)
    BY NumberFacts DEF InUse
  <2> QED BY <2>1 DEF SameUse, Given
<1>6. Split(Given(M.phys, F, UNUSED))
  BY <1>1, <1>5, SplitSame
<1> QED BY <1>2, <1>3, <1>4, <1>6

\* N is M without directory d.
Freed(M, N, d, X, V) ==
  /\ Good(N, X, V) /\ Maps(N) = Without(Maps(M), {d})
  /\ DOMAIN N.dir = DOMAIN M.dir \ {d} /\ N.panic = M.panic
  /\ \A c \in DOMAIN N.dir : LargeIn(N, c) \subseteq LargeIn(M, c)

LEMMA FreeDirectoryFacts ==
  ASSUME NEW M, NEW X, NEW V, Good(M, X, V), NEW d \in DOMAIN M.dir,
         \A a \in Cells : Maps(M)[d][a] # V, NEW N, N = FreeDirectory(M, d)
  PROVE  Freed(M, N, d, X, V)
<1> DEFINE A == Mapped(M, d)
           K == Release(M, d, A)
           tables == TablesOf(M.dir, d)
           F == tables \union {d}
           ph == Given(K.phys, F, UNUSED)
           D == Without(K.dir, {d})
           T == Without(K.table, tables)
<1>1. A \in SUBSET Cells /\ (\A a \in A : Maps(M)[d][a] # V)
      /\ \A a \in Cells : a \in A <=> Maps(M)[d][a] # NoFrame
  BY MappedFacts DEF Good
<1>2. Released(M, K, d, A, X, V)
  BY <1>1, ReleaseFacts
<1>3. Tables(M, d) = tables
  BY DEF Tables, TablesOf, IsTable
<1>4. N = [FreeKernel(K, F) EXCEPT !.dir = D, !.table = T]
  BY <1>3 DEF FreeDirectory
<1> HIDE DEF K, A, D, T, ph, tables
<1>5. /\ Good(K, X, V) /\ Shape(K.dir, K.table) /\ Fields(K) /\ d \in DOMAIN K.dir
      /\ DOMAIN K.dir = DOMAIN M.dir /\ TablesOf(K.dir, d) = tables /\ K.panic = M.panic
  BY <1>2 DEF Released, Good, tables
<1>6. /\ tables \subseteq DOMAIN K.table /\ Shape(D, T)
      /\ Flat(D, T) = Without(Maps(K), {d})
  BY <1>5, DirDropped DEF D, T, Maps
<1>7. F \in SUBSET Held(K, X) /\ V \notin F
  <2>1. F \in SUBSET (DOMAIN K.dir \union DOMAIN K.table)
    BY <1>5, <1>6
  <2>2. /\ V \in X \union {Screen} /\ X \intersect (DOMAIN K.dir \union DOMAIN K.table) = {}
        /\ \A f \in Held(K, X) : Usable(f)
    BY <1>5 DEF Good, Counted
  <2> QED BY <2>1, <2>2, NumberFacts DEF Held
<1> HIDE DEF F
<1>8. /\ FreeKernel(K, F) = Mark(K, F, UNUSED) /\ Split(ph)
      /\ Counted(Maps(K), ph, Held(K, X) \ F, V)
  BY <1>5, <1>7, GivenBackFacts DEF ph
<1>9. /\ Fields(N) /\ N.phys = ph /\ N.dir = D /\ N.table = T
      /\ N.content = K.content /\ N.panic = K.panic
  <2>1. /\ Fields(FreeKernel(K, F)) /\ FreeKernel(K, F).phys = ph
        /\ FreeKernel(K, F).content = K.content /\ FreeKernel(K, F).panic = K.panic
    BY <1>5, <1>8, MarkFacts DEF ph
  <2>2. N = [phys |-> ph, dir |-> D, table |-> T, content |-> K.content, panic |-> K.panic]
    BY <1>4, <2>1 DEF Fields
  <2> QED BY <2>2 DEF Fields
<1>10. DOMAIN Maps(K) = DOMAIN K.dir
  BY <1>5, FlatFacts DEF Maps
<1>11. \A a \in Cells : Maps(K)[d][a] = NoFrame
  <2>1. DOMAIN Maps(M) = DOMAIN M.dir
    BY FlatFacts DEF Maps, Good
  <2>2. \A a \in Cells : Maps(K)[d][a] = IF a \in A THEN NoFrame ELSE Maps(M)[d][a]
    BY <1>2, <2>1 DEF Released, RowSet
  <2> QED BY <1>1, <2>2
<1>12. Counted(Without(Maps(K), {d}), ph, Held(K, X) \ F, V)
  BY <1>5, <1>8, <1>10, <1>11, RowDropped
<1>13. DOMAIN D = DOMAIN K.dir \ {d} /\ DOMAIN T = DOMAIN K.table \ tables
       /\ \A c \in DOMAIN D : D[c] = K.dir[c]
  BY DEF D, T, Without
<1>14. Held(N, X) = Held(K, X) \ F
  <2>1. /\ DOMAIN K.dir \intersect DOMAIN K.table = {}
        /\ X \intersect (DOMAIN K.dir \union DOMAIN K.table) = {}
    BY <1>5 DEF Good
  <2> QED BY <1>5, <1>6, <1>9, <1>13, <2>1 DEF Held, F
<1>15. Good(N, X, V)
  <2>1. Shape(N.dir, N.table) /\ Counted(Maps(N), N.phys, Held(N, X), V) /\ Split(N.phys)
    BY <1>6, <1>8, <1>9, <1>12, <1>14 DEF Maps
  <2>2. DOMAIN N.dir \subseteq DOMAIN K.dir /\ DOMAIN N.table \subseteq DOMAIN K.table
        /\ Fields(N) /\ N.content = K.content
    BY <1>9, <1>13
  <2>3. /\ DOMAIN N.dir \intersect DOMAIN N.table = {}
        /\ X \intersect (DOMAIN N.dir \union DOMAIN N.table) = {}
    BY <1>5, <2>2 DEF Good
  <2> QED BY <1>5, <2>1, <2>2, <2>3 DEF Good
<1>16. Without(Maps(K), {d}) = Without(Maps(M), {d})
  <2>1. DOMAIN Maps(M) = DOMAIN M.dir
    BY FlatFacts DEF Maps, Good
  <2>2. \A c \in DOMAIN M.dir \ {d} : Maps(K)[c] = Maps(M)[c]
    BY <1>2, <2>1 DEF Released, RowSet
  <2> QED BY <1>5, <1>10, <2>1, <2>2 DEF Without
<1>17. \A c \in DOMAIN N.dir : LargeIn(N, c) \subseteq LargeIn(M, c)
  <2>1. \A c \in DOMAIN N.dir : LargeIn(N, c) = LargeIn(K, c) /\ c \in DOMAIN M.dir
    BY <1>5, <1>9, <1>13 DEF LargeIn
  <2>2. \A c \in DOMAIN M.dir : LargeIn(K, c) \subseteq LargeIn(M, c)
    BY <1>2 DEF Released
  <2> QED BY <2>1, <2>2
<1>18. Maps(N) = Without(Maps(M), {d}) /\ DOMAIN N.dir = DOMAIN M.dir \ {d} /\ N.panic = M.panic
  BY <1>5, <1>6, <1>9, <1>13, <1>16 DEF Maps
<1> QED BY <1>15, <1>17, <1>18 DEF Freed

-----------------------------------------------------------------------------
(* A directory is made. *)

\* N is M with a new directory n, in which v is mapped.
Born(M, N, n, v, X, V) ==
  /\ Good(N, X, V) /\ Maps(N) = Put(Maps(M), n, v)
  /\ n \notin DOMAIN M.dir /\ n \in SmallFrame
  /\ DOMAIN N.dir = DOMAIN M.dir \union {n} /\ N.panic = M.panic
  /\ \A c \in DOMAIN M.dir : LargeIn(N, c) = LargeIn(M, c)

NoPages == [a \in Cells |-> NoFrame]
NoEntries == [s \in UserSlots |-> Absent]

LEMMA NewDirectoryFacts ==
  ASSUME NEW M, NEW X, NEW V, Good(M, X, V), FreeSmall(M) # {},
         NEW n, n = Min(FreeSmall(M)), NEW N, N = NewDirectory(M)
  PROVE  Born(M, N, n, NoPages, X, V) /\ LargeIn(N, n) = {}
<1> DEFINE D == Put(M.dir, n, NoEntries)
           ph == Given(M.phys, {n}, KERNEL)
<1>1. n \in FreeSmall(M)
  BY FreeSmallFacts
<1>2. /\ n \in SmallFrame /\ n \in Frames /\ n # NoFrame /\ n # V
      /\ n \notin DOMAIN M.dir /\ n \notin DOMAIN M.table /\ n \notin X
  BY <1>1, FreeIsNobodys
<1>3. Shape(M.dir, M.table) /\ Fields(M)
  BY DEF Good
<1>4. /\ Fields(N) /\ N.phys = ph /\ N.dir = D /\ N.table = M.table
      /\ N.content = M.content /\ N.panic = M.panic
  <2> DEFINE K == Mark(M, {n}, KERNEL)
  <2>1. /\ Fields(K) /\ K.phys = ph /\ K.dir = M.dir /\ K.table = M.table
        /\ K.content = M.content /\ K.panic = M.panic
    BY <1>3, MarkFacts
  <2>2. N = [K EXCEPT !.dir = D]
    BY DEF NewDirectory, NoEntries
  <2> HIDE DEF K, D, ph
  <2>3. N = [phys |-> ph, dir |-> D, table |-> M.table, content |-> M.content, panic |-> M.panic]
    BY <2>1, <2>2 DEF Fields
  <2> QED BY <2>3 DEF Fields
<1>5. DOMAIN D = DOMAIN M.dir \union {n} /\ D[n] = NoEntries
      /\ \A c \in DOMAIN M.dir : D[c] = M.dir[c]
  BY <1>2 DEF Put
<1>6. /\ NoEntries \in [UserSlots -> Entries]
      /\ \A s \in UserSlots : NoEntries[s] = Absent /\ ~NoEntries[s].large /\ ~IsTable(NoEntries[s])
                              /\ NoEntries[s].frame = NoFrame
  BY EntryFacts DEF NoEntries
<1>7. NoPages \in Rows /\ \A s \in UserSlots : \A p \in Pages : NoPages[<<s, p>>] = NoFrame
  BY CellFacts DEF NoPages, Rows
<1> HIDE DEF D, ph
<1>8. \A s \in UserSlots : \A p \in Pages : NoPages[<<s, p>>] = FrameAt(D, M.table, n, s, p)
  BY <1>5, <1>6, <1>7 DEF FrameAt
<1>9. Shape(D, M.table) /\ Flat(D, M.table) = Put(Maps(M), n, NoPages)
  <2>1. TablesOK(M.table)
    BY <1>3 DEF Shape
  <2>2. /\ \A s \in UserSlots : ~NoEntries[s].large /\ ~IsTable(NoEntries[s])
    BY <1>6
  <2> QED BY <1>2, <1>3, <1>6, <1>7, <1>8, <2>1, <2>2, DirAdded DEF D, Maps
<1>10. Counted(Put(Maps(M), n, NoPages), ph, Held(M, X) \union {n}, V)
  <2>1. {n} \in SUBSET Frames /\ \A f \in {n} : M.phys[f] = UNUSED
    BY <1>1, FreeSmallFacts
  <2>2. Counted(Maps(M), ph, Held(M, X) \union {n}, V)
    BY <2>1, FramesOwned DEF Good, ph
  <2>3. n \notin DOMAIN Maps(M)
    BY <1>2, <1>3, FlatFacts DEF Maps
  <2> QED BY <2>2, <2>3, RowAdded DEF NoPages
<1>11. Split(ph)
  <2>1. {n} \in SUBSET FreeSmall(M) /\ Split(M.phys)
    BY <1>1 DEF Good
  <2> QED BY <2>1, SplitSmall DEF ph
<1>12. Held(N, X) = Held(M, X) \union {n} /\ Maps(N) = Put(Maps(M), n, NoPages)
  BY <1>4, <1>5, <1>9 DEF Held, Maps
<1>13. Good(N, X, V)
  <2>1. Shape(N.dir, N.table) /\ Counted(Maps(N), N.phys, Held(N, X), V) /\ Split(N.phys)
    BY <1>4, <1>9, <1>10, <1>11, <1>12
  <2>2. DOMAIN N.dir = DOMAIN M.dir \union {n} /\ N.table = M.table /\ N.content = M.content
    BY <1>4, <1>5
  <2>3. /\ DOMAIN N.dir \intersect DOMAIN N.table = {}
        /\ X \intersect (DOMAIN N.dir \union DOMAIN N.table) = {}
    BY <1>2, <2>2 DEF Good
  <2> QED BY <1>4, <2>1, <2>2, <2>3 DEF Good
<1>14. /\ LargeIn(N, n) = {}
       /\ \A c \in DOMAIN M.dir : LargeIn(N, c) = LargeIn(M, c)
  BY <1>4, <1>5, <1>6 DEF LargeIn
<1> QED BY <1>2, <1>4, <1>5, <1>12, <1>13, <1>14 DEF Born

CopyOf(M, full) == [s \in full |-> SmallAfter(M, 1 + Rank(full, s))]

\* The frames for the copies of the tables are different, and none is new's.
LEMMA CopyFacts ==
  ASSUME NEW M, NEW full \in SUBSET UserSlots, ~(Cardinality(FreeSmall(M)) <= Cardinality(full)),
         NEW copy, copy = CopyOf(M, full), NEW n, n = Min(FreeSmall(M))
  PROVE  /\ DOMAIN copy = full /\ n \in FreeSmall(M)
         /\ \A s \in full : copy[s] \in FreeSmall(M) /\ copy[s] # n
         /\ \A s, r \in full : copy[s] = copy[r] => s = r
<1> DEFINE S == FreeSmall(M)
           k(s) == 1 + Rank(full, s)
<1>1. full \in SUBSET Nat /\ IsFiniteSet(full)
  <2>1. UserSlots \subseteq 0 .. NumLarge - 1 /\ NumLarge \in Nat
    BY MemoryAssumption
  <2>2. IsFiniteSet(0 .. NumLarge - 1)
    BY <2>1, FS_Interval
  <2>3. full \in SUBSET (0 .. NumLarge - 1)
    BY <2>1
  <2>4. IsFiniteSet(full)
    BY <2>2, <2>3, FS_Subset
  <2> QED BY <2>1, <2>3, <2>4
<1>2. /\ Cardinality(full) \in Nat
      /\ \A s \in full : Rank(full, s) \in 0 .. Cardinality(full) - 1
      /\ \A s, r \in full : Rank(full, s) = Rank(full, r) => s = r
  BY <1>1, RankFacts
<1>3. /\ Cardinality(S) \in Nat
      /\ \A i \in 0 .. Cardinality(S) - 1 : SmallAfter(M, i) \in S /\ Rank(S, SmallAfter(M, i)) = i
  BY SmallAfterFacts
<1>4. \A s \in full : copy[s] = SmallAfter(M, k(s)) /\ k(s) \in 0 .. Cardinality(S) - 1
                      /\ k(s) \in Nat \ {0}
  BY <1>2, <1>3 DEF CopyOf
<1>5. \A s, r \in full : k(s) = k(r) => s = r
  BY <1>2
<1> HIDE DEF k
<1>6. \A s \in full : copy[s] \in S /\ Rank(S, copy[s]) = k(s)
  BY <1>3, <1>4
<1>7. n \in S /\ Rank(S, n) = 0
  <2>1. S \in SUBSET Nat
    BY FreeSmallFacts
  <2>2. S # {}
    BY <1>2, <1>3, FS_EmptySet
  <2>3. n \in S /\ \A j \in S : n <= j
    BY <2>1, <2>2, MinFacts
  <2>4. {j \in S : j < n} = {}
    BY <2>1, <2>3
  <2> QED BY <2>3, <2>4, FS_EmptySet DEF Rank
<1>8. \A s \in full : copy[s] # n
  BY <1>4, <1>6, <1>7
<1>9. \A s, r \in full : copy[s] = copy[r] => s = r
  BY <1>5, <1>6
<1>10. DOMAIN copy = full
  BY DEF CopyOf
<1> QED BY <1>6, <1>7, <1>8, <1>9, <1>10

FullSlots(M, d) == {s \in UserSlots : \E a \in Mapped(M, d) : a[1] = s /\ ~M.dir[d][s].large}

ShareLarge(e) == IF e.large THEN ShareEntry(e) ELSE e
SharedPages(M, f) == [p \in Pages |-> ShareEntry(M.table[f][p])]

SharedDir(M, d) == [M.dir EXCEPT ![d] = [s \in UserSlots |-> ShareLarge(M.dir[d][s])]]
SharedTables(M, d) ==
  [f \in DOMAIN M.table |-> IF f \in TablesOf(M.dir, d) THEN SharedPages(M, f) ELSE M.table[f]]

CopyRow(M, d, full, copy) ==
  [s \in UserSlots |-> IF s \in full THEN TableEntry(copy[s])
                       ELSE IF M.dir[d][s].large THEN ShareLarge(M.dir[d][s]) ELSE Absent]

CopyTables(M, d, full, copy) ==
  [f \in DOMAIN M.table \union Range(copy) |->
     IF f \in Range(copy) THEN SharedPages(M, M.dir[d][CHOOSE s \in full : copy[s] = f].frame)
     ELSE IF f \in TablesOf(M.dir, d) THEN SharedPages(M, f) ELSE M.table[f]]

LEMMA ShareFacts ==
  ASSUME NEW e \in Entries
  PROVE  /\ ShareEntry(e) \in Entries /\ ShareEntry(e).frame = e.frame /\ ShareEntry(e).large = e.large
         /\ ShareLarge(e) \in Entries /\ ShareLarge(e).frame = e.frame /\ ShareLarge(e).large = e.large
<1>1. ShareEntry(e) \in Entries /\ ShareEntry(e).frame = e.frame /\ ShareEntry(e).large = e.large
  BY DEF ShareEntry, Entries
<1> QED BY <1>1 DEF ShareLarge

LEMMA SharedPagesFacts ==
  ASSUME NEW M, NEW g, M.table[g] \in [Pages -> Entries]
  PROVE  /\ SharedPages(M, g) \in [Pages -> Entries]
         /\ \A p \in Pages : /\ SharedPages(M, g)[p].frame = M.table[g][p].frame
                            /\ SharedPages(M, g)[p].large = M.table[g][p].large
<1>1. \A p \in Pages : M.table[g][p] \in Entries
  OBVIOUS
<1> QED BY <1>1, ShareFacts DEF SharedPages

LEMMA SharedFacts ==
  ASSUME NEW M, Shape(M.dir, M.table), NEW d \in DOMAIN M.dir
  PROVE  /\ Shape(SharedDir(M, d), SharedTables(M, d))
         /\ Flat(SharedDir(M, d), SharedTables(M, d)) = Maps(M)
         /\ DOMAIN SharedDir(M, d) = DOMAIN M.dir /\ DOMAIN SharedTables(M, d) = DOMAIN M.table
         /\ \A c \in DOMAIN M.dir : \A s \in UserSlots :
              SharedDir(M, d)[c][s].large = M.dir[c][s].large
<1> DEFINE D == SharedDir(M, d)
           T == SharedTables(M, d)
<1>1. /\ M.dir \in [DOMAIN M.dir -> [UserSlots -> Entries]]
      /\ M.table \in [DOMAIN M.table -> [Pages -> Entries]]
  BY DEF Shape, DirsOK, TablesOK
<1>2. \A s \in UserSlots : /\ ShareLarge(M.dir[d][s]) \in Entries
                           /\ ShareLarge(M.dir[d][s]).frame = M.dir[d][s].frame
                           /\ ShareLarge(M.dir[d][s]).large = M.dir[d][s].large
  BY <1>1, ShareFacts
<1>3. /\ DOMAIN D = DOMAIN M.dir
      /\ D[d] = [s \in UserSlots |-> ShareLarge(M.dir[d][s])]
      /\ \A c \in DOMAIN M.dir : c # d => D[c] = M.dir[c]
  BY DEF SharedDir
<1>4. DOMAIN T = DOMAIN M.table
  BY DEF SharedTables
<1>5. D \in [DOMAIN M.dir -> [UserSlots -> Entries]]
  BY <1>1, <1>2 DEF SharedDir
<1>6. \A f \in DOMAIN M.table : /\ SharedPages(M, f) \in [Pages -> Entries]
                               /\ \A p \in Pages : /\ SharedPages(M, f)[p].frame = M.table[f][p].frame
                                                  /\ SharedPages(M, f)[p].large = M.table[f][p].large
  BY <1>1, SharedPagesFacts
<1>7. T \in [DOMAIN M.table -> [Pages -> Entries]]
  BY <1>1, <1>6 DEF SharedTables
<1>8. ASSUME NEW c \in DOMAIN M.dir, NEW s \in UserSlots
      PROVE  D[c][s].frame = M.dir[c][s].frame /\ D[c][s].large = M.dir[c][s].large
  <2>1. CASE c = d
    <3>1. D[c][s] = ShareLarge(M.dir[d][s])
      BY <1>3, <2>1
    <3> QED BY <1>2, <2>1, <3>1
  <2>2. CASE c # d
    BY <1>3, <2>2
  <2> QED BY <2>1, <2>2
<1>9. ASSUME NEW f \in DOMAIN M.table, NEW p \in Pages
      PROVE  T[f][p].frame = M.table[f][p].frame /\ T[f][p].large = M.table[f][p].large
  <2>1. T[f] = IF f \in TablesOf(M.dir, d) THEN SharedPages(M, f) ELSE M.table[f]
    BY DEF SharedTables
  <2> QED BY <1>6, <2>1
<1> HIDE DEF D, T
<1>10. Shape(D, T) /\ Flat(D, T) = Maps(M)
  <2> DEFINE A == M.dir
             B == M.table
  <2>1. /\ Shape(A, B) /\ D \in [DOMAIN A -> [UserSlots -> Entries]]
        /\ T \in [DOMAIN B -> [Pages -> Entries]] /\ Maps(M) = Flat(A, B)
    BY <1>5, <1>7 DEF Maps
  <2>2. \A c \in DOMAIN A : \A s \in UserSlots :
          D[c][s].frame = A[c][s].frame /\ D[c][s].large = A[c][s].large
    BY <1>8
  <2>3. \A f \in DOMAIN B : \A p \in Pages :
          T[f][p].frame = B[f][p].frame /\ T[f][p].large = B[f][p].large
    BY <1>9
  <2> HIDE DEF A, B
  <2>4. Shape(D, T) /\ Flat(D, T) = Flat(A, B)
    BY <2>1, <2>2, <2>3, FlagsChanged
  <2> QED BY <2>1, <2>4, Zenon
<1> QED BY <1>3, <1>4, <1>8, <1>10 DEF D, T

LEMMA CopiedShape ==
  ASSUME NEW M, Shape(M.dir, M.table), NEW d \in DOMAIN M.dir, NEW full, full = FullSlots(M, d),
         NEW copy, DOMAIN copy = full,
         \A s \in full : copy[s] \in SmallFrame /\ copy[s] \notin DOMAIN M.table,
         \A s, r \in full : copy[s] = copy[r] => s = r,
         NEW n \in SmallFrame, n \notin DOMAIN M.dir
  PROVE  /\ Shape(Put(SharedDir(M, d), n, CopyRow(M, d, full, copy)), CopyTables(M, d, full, copy))
         /\ Flat(Put(SharedDir(M, d), n, CopyRow(M, d, full, copy)), CopyTables(M, d, full, copy))
              = Put(Maps(M), n, Maps(M)[d])
<1> DEFINE D == SharedDir(M, d)
           T == SharedTables(M, d)
           row == CopyRow(M, d, full, copy)
           U == CopyTables(M, d, full, copy)
           E == Put(D, n, row)
           R == Range(copy)
           v == Maps(M)[d]
<1>1. /\ Shape(D, T) /\ Flat(D, T) = Maps(M)
      /\ DOMAIN D = DOMAIN M.dir /\ DOMAIN T = DOMAIN M.table
  BY SharedFacts
<1>2. R = {copy[s] : s \in full} /\ full \subseteq UserSlots
  BY DEF Range, FullSlots
<1>3. /\ DOMAIN U = DOMAIN M.table \union R
      /\ \A f \in DOMAIN M.table : U[f] = T[f]
  <2>1. R \intersect DOMAIN M.table = {}
    BY <1>2
  <2> QED BY <2>1 DEF CopyTables, SharedTables
<1>4. \A s \in full : U[copy[s]] = SharedPages(M, M.dir[d][s].frame) /\ copy[s] \in R
  <2> TAKE s \in full
  <2>1. copy[s] \in R
    BY <1>2
  <2>2. (CHOOSE r \in full : copy[r] = copy[s]) = s
    OBVIOUS
  <2> QED BY <2>1, <2>2 DEF CopyTables
<1>5. /\ M.dir[d] \in [UserSlots -> Entries]
      /\ M.table \in [DOMAIN M.table -> [Pages -> Entries]]
      /\ \A f \in DOMAIN M.table : \A p \in Pages : ~M.table[f][p].large
      /\ \A s \in UserSlots : M.dir[d][s].large => M.dir[d][s].frame \in BigFrame
      /\ \A s \in UserSlots : IsTable(M.dir[d][s]) => M.dir[d][s].frame \in DOMAIN M.table
  BY DEF Shape, DirsOK, TablesOK, Placed
<1>6. \A s \in full : IsTable(M.dir[d][s]) /\ M.dir[d][s].frame \in DOMAIN M.table
  <2> TAKE s \in full
  <2>1. PICK a \in Mapped(M, d) : a[1] = s /\ ~M.dir[d][s].large
    BY DEF FullSlots
  <2>2. M.dir[d][s].frame # NoFrame
    BY <2>1, Zenon DEF Mapped, Entry
  <2> QED BY <1>2, <1>5, <2>1, <2>2 DEF IsTable
<1>7. \A s \in UserSlots : row[s] = IF s \in full THEN TableEntry(copy[s])
                           ELSE IF M.dir[d][s].large THEN ShareLarge(M.dir[d][s]) ELSE Absent
  BY DEF CopyRow
<1>8. \A s \in full : /\ TableEntry(copy[s]) \in Entries /\ TableEntry(copy[s]).frame = copy[s]
                      /\ ~TableEntry(copy[s]).large /\ IsTable(TableEntry(copy[s]))
  BY NumberFacts, TableEntryFacts
<1>9. \A s \in UserSlots : /\ ShareLarge(M.dir[d][s]) \in Entries
                           /\ ShareLarge(M.dir[d][s]).frame = M.dir[d][s].frame
                           /\ ShareLarge(M.dir[d][s]).large = M.dir[d][s].large
  BY <1>5, ShareFacts
<1>10. row \in [UserSlots -> Entries]
  BY <1>8, <1>9, EntryFacts DEF CopyRow
<1>11. \A s \in UserSlots : /\ row[s].large => row[s].frame \in BigFrame
                            /\ IsTable(row[s]) => s \in full /\ row[s].frame = copy[s]
  <2> TAKE s \in UserSlots
  <2>1. CASE s \in full
    BY <1>7, <1>8, <2>1
  <2>2. CASE s \notin full /\ M.dir[d][s].large
    BY <1>5, <1>7, <1>9, <2>2 DEF IsTable
  <2>3. CASE s \notin full /\ ~M.dir[d][s].large
    BY <1>7, <2>3, EntryFacts
  <2> QED BY <2>1, <2>2, <2>3
<1>12. TablesOK(U)
  <2>1. /\ TablesOK(T) /\ DOMAIN U \subseteq SmallFrame
    BY <1>1, <1>2, <1>3 DEF Shape, TablesOK
  <2>2. ASSUME NEW f \in DOMAIN U
        PROVE  U[f] \in [Pages -> Entries] /\ \A p \in Pages : ~U[f][p].large
    <3>1. CASE f \in DOMAIN M.table
      BY <1>1, <1>3, <2>1, <3>1 DEF TablesOK
    <3>2. CASE f \in R
      <4>1. PICK s \in full : f = copy[s]
        BY <1>2, <3>2
      <4>2. PICK g \in DOMAIN M.table : g = M.dir[d][s].frame
        BY <1>6
      <4>3. U[f] = SharedPages(M, g)
        BY <1>4, <4>1, <4>2
      <4>4. M.table[g] \in [Pages -> Entries] /\ \A p \in Pages : ~M.table[g][p].large
        BY <1>5
      <4> HIDE DEF U
      <4> QED BY <4>3, <4>4, SharedPagesFacts
    <3> QED BY <1>3, <3>1, <3>2
  <2>3. U \in [DOMAIN U -> [Pages -> Entries]]
    <3>1. U = [f \in DOMAIN U |-> U[f]]
      BY DEF CopyTables
    <3> HIDE DEF U
    <3> QED BY <2>2, <3>1
  <2> HIDE DEF U
  <2> QED BY <2>1, <2>2, <2>3 DEF TablesOK
<1>13. v \in Rows /\ \A s \in UserSlots : \A p \in Pages :
         v[<<s, p>>] = FrameAt(M.dir, M.table, d, s, p)
  BY FlatFacts DEF Maps
<1>14. E[n] = row
  BY DEF Put
<1> HIDE DEF U, row, T, D, v, E, R
<1>15. ASSUME NEW s \in UserSlots, NEW p \in Pages
       PROVE  v[<<s, p>>] = FrameAt(E, U, n, s, p)
  <2>1. v[<<s, p>>] = FrameAt(M.dir, M.table, d, s, p)
    BY <1>13
  <2>2. CASE s \in full
    <3>1. FrameAt(M.dir, M.table, d, s, p) = M.table[M.dir[d][s].frame][p].frame
      BY <1>6, <2>2, Zenon DEF FrameAt, IsTable
    <3>2. E[n][s] = TableEntry(copy[s])
      BY <1>7, <1>14, <2>2
    <3>3. FrameAt(E, U, n, s, p) = U[copy[s]][p].frame
      BY <1>8, <2>2, <3>2 DEF FrameAt, IsTable
    <3>4. PICK g \in DOMAIN M.table : g = M.dir[d][s].frame
      BY <1>6, <2>2
    <3>5. U[copy[s]] = SharedPages(M, g)
      BY <1>4, <2>2, <3>4
    <3>6. M.table[g] \in [Pages -> Entries]
      BY <1>5
    <3>7. SharedPages(M, g)[p].frame = M.table[g][p].frame
      BY <3>6, SharedPagesFacts
    <3> QED BY <2>1, <3>1, <3>3, <3>4, <3>5, <3>7, Zenon
  <2>3. CASE s \notin full /\ M.dir[d][s].large
    <3>1. E[n][s].frame = M.dir[d][s].frame /\ E[n][s].large
      BY <1>7, <1>9, <1>14, <2>3
    <3> QED BY <2>1, <2>3, <3>1 DEF FrameAt
  <2>4. CASE s \notin full /\ ~M.dir[d][s].large
    <3>1. E[n][s] = Absent
      BY <1>7, <1>14, <2>4
    <3>2. FrameAt(E, U, n, s, p) = NoFrame
      BY <3>1, EntryFacts DEF FrameAt
    <3>3. <<s, p>> \notin Mapped(M, d)
      BY <2>4 DEF FullSlots
    <3>4. <<s, p>> \in Cells
      BY CellFacts
    <3> QED BY <3>2, <3>3, <3>4, MappedFacts DEF v
  <2> QED BY <2>2, <2>3, <2>4
<1>16. /\ \A s \in UserSlots : IsTable(row[s]) => row[s].frame \in DOMAIN U \ DOMAIN T
       /\ \A s, r \in UserSlots :
            IsTable(row[s]) /\ IsTable(row[r]) /\ row[s].frame = row[r].frame => s = r
       /\ \A f \in DOMAIN U \ DOMAIN T : \E s \in UserSlots : IsTable(row[s]) /\ row[s].frame = f
  <2>1. \A s \in full : s \in UserSlots /\ IsTable(row[s]) /\ row[s].frame = copy[s]
    BY <1>2, <1>7, <1>8
  <2> QED BY <1>1, <1>2, <1>3, <1>11, <2>1
<1>17. Shape(E, U) /\ Flat(E, U) = Put(Maps(M), n, v)
  <2>1. n \notin DOMAIN D /\ DOMAIN T \subseteq DOMAIN U /\ \A f \in DOMAIN T : U[f] = T[f]
    BY <1>1, <1>3
  <2>2. \A s \in UserSlots : row[s].large => row[s].frame \in BigFrame
    BY <1>11
  <2>3. \A s \in UserSlots : \A p \in Pages : v[<<s, p>>] = FrameAt(Put(D, n, row), U, n, s, p)
    BY <1>15 DEF E
  <2>4. v \in Rows
    BY <1>13
  <2>5. Shape(Put(D, n, row), U) /\ Flat(Put(D, n, row), U) = Put(Flat(D, T), n, v)
    BY <1>1, <1>10, <1>12, <1>16, <2>1, <2>2, <2>3, <2>4, DirAdded
  <2> QED BY <1>1, <2>5 DEF E
<1> QED BY <1>17 DEF E, U, v, D, row

\* Every frame of the directory gets one more user.
LEMMA MoreUsersFacts ==
  ASSUME NEW M, NEW X, NEW V, Good(M, X, V), NEW d \in DOMAIN M.dir,
         \A a \in Cells : Maps(M)[d][a] # V,
         NEW F, F = {Maps(M)[d][a] : a \in Cells} \ {NoFrame}
  PROVE  MoreUsers(M, d) = More(M.phys, F)
<1> DEFINE w == Maps(M)
           frame == [a \in Mapped(M, d) |-> Entry(M, d, a).frame]
           S(i) == {a \in DOMAIN frame : frame[a] = i}
<1>1. /\ Shape(M.dir, M.table) /\ M.phys \in [Frames -> Int]
      /\ w \in [DOMAIN M.dir -> Rows] /\ DOMAIN w = DOMAIN M.dir
  BY FlatFacts DEF Good, Maps, Counted
<1>2. /\ DOMAIN frame = Mapped(M, d) /\ Mapped(M, d) \in SUBSET Cells
      /\ \A a \in Mapped(M, d) : w[d][a] # NoFrame /\ frame[a] = w[d][a]
      /\ \A a \in Cells : w[d][a] # NoFrame => a \in Mapped(M, d)
  BY <1>1, MappedFacts
<1>3. \A a, b \in Cells : w[d][a] # NoFrame /\ w[d][a] = w[d][b] => a = b
  BY <1>1 DEF Good, Counted, RowOK
<1> HIDE DEF frame
<1>4. ASSUME NEW i \in Frames
      PROVE  Cardinality(S(i)) = IF i \in F THEN 1 ELSE 0
  <2>1. CASE i \in F
    <3>1. PICK a \in Cells : w[d][a] = i /\ i # NoFrame
      BY <2>1
    <3>2. S(i) = {a}
      BY <1>2, <1>3, <3>1
    <3> QED BY <2>1, <3>2, FS_Singleton
  <2>2. CASE i \notin F
    <3>1. S(i) = {}
      BY <1>2, <2>2
    <3> QED BY <2>2, <3>1, FS_EmptySet
  <2> QED BY <2>1, <2>2
<1>5. MoreUsers(M, d) = [i \in Frames |-> M.phys[i] + Cardinality(S(i))]
  BY DEF MoreUsers, Uses, frame
<1> HIDE DEF S
<1>6. \A i \in Frames : M.phys[i] + Cardinality(S(i)) = IF i \in F THEN M.phys[i] + 1 ELSE M.phys[i]
  BY <1>1, <1>4
<1> QED BY <1>5, <1>6 DEF More

LEMMA MoreSplit ==
  ASSUME NEW ph \in [Frames -> Int], NEW F, \A f \in F : f \in Frames /\ ph[f] > 0, Split(ph)
  PROVE  Split(More(ph, F))
<1>1. ASSUME NEW f \in Frames
      PROVE  /\ InUse(More(ph, F)[f]) => InUse(ph[f])
             /\ ph[f] = UNUSED => More(ph, F)[f] = UNUSED
  <2>1. CASE f \in F
    BY <2>1, NumberFacts DEF InUse
  <2>2. CASE f \notin F
    BY <2>2 DEF More
  <2> QED BY <2>1, <2>2
<1>2. SameUse(ph, More(ph, F))
  BY <1>1 DEF SameUse
<1> QED BY <1>2, SplitSame

\* A memory with a copy of directory d.
Cloned(M, d, full, copy, n) ==
  [M EXCEPT
     !.phys  = Mark([M EXCEPT !.phys = MoreUsers(M, d)], {n} \union Range(copy), KERNEL).phys,
     !.dir   = Put(SharedDir(M, d), n, CopyRow(M, d, full, copy)),
     !.table = CopyTables(M, d, full, copy)]

LEMMA ClonedFacts ==
  ASSUME NEW M, NEW X, NEW V, Good(M, X, V), NEW d \in DOMAIN M.dir,
         \A a \in Cells : Maps(M)[d][a] # V,
         NEW full, full = FullSlots(M, d),
         ~(Cardinality(FreeSmall(M)) <= Cardinality(full)),
         NEW copy, copy = CopyOf(M, full), NEW n, n = Min(FreeSmall(M)),
         NEW N, N = Cloned(M, d, full, copy, n)
  PROVE  Born(M, N, n, Maps(M)[d], X, V) /\ LargeIn(N, n) = LargeIn(M, d)
<1> DEFINE w == Maps(M)
           R == Range(copy)
           C == {n} \union R
           F == {w[d][a] : a \in Cells} \ {NoFrame}
           ph == Given(M.phys, C, KERNEL)
           D == Put(SharedDir(M, d), n, CopyRow(M, d, full, copy))
           U == CopyTables(M, d, full, copy)
<1>1. /\ Shape(M.dir, M.table) /\ Fields(M) /\ Counted(w, M.phys, Held(M, X), V) /\ Split(M.phys)
      /\ M.phys \in [Frames -> Int]
  BY DEF Good, Counted
<1>2. /\ DOMAIN copy = full /\ n \in FreeSmall(M)
      /\ \A s \in full : copy[s] \in FreeSmall(M) /\ copy[s] # n
      /\ \A s, r \in full : copy[s] = copy[r] => s = r
  <2>1. full \in SUBSET UserSlots
    BY DEF FullSlots
  <2> QED BY <2>1, CopyFacts
<1>3. C \in SUBSET FreeSmall(M) /\ R = {copy[s] : s \in full}
  BY <1>2 DEF Range
<1>4. \A f \in C : /\ f \in SmallFrame /\ f \in Frames /\ f # NoFrame /\ f # V /\ M.phys[f] = UNUSED
                   /\ f \notin DOMAIN M.dir /\ f \notin DOMAIN M.table /\ f \notin X
  BY <1>3, FreeIsNobodys, FreeSmallFacts
<1>5. /\ Shape(D, U) /\ Flat(D, U) = Put(w, n, w[d])
  <2>1. \A s \in full : copy[s] \in SmallFrame /\ copy[s] \notin DOMAIN M.table
    BY <1>3, <1>4
  <2>2. n \in SmallFrame /\ n \notin DOMAIN M.dir
    BY <1>4
  <2> QED BY <1>1, <1>2, <2>1, <2>2, CopiedShape
<1>6. w \in [DOMAIN M.dir -> Rows] /\ DOMAIN w = DOMAIN M.dir
  BY <1>1, FlatFacts DEF Maps
<1> HIDE DEF R, C, F, w, D, U
<1>7. Counted(w, ph, Held(M, X) \union C, V)
  <2>1. C \in SUBSET Frames /\ \A f \in C : M.phys[f] = UNUSED
    BY <1>4
  <2> QED BY <1>1, <2>1, FramesOwned
<1>8. \A f \in F : f \in Frames /\ f \notin C
  <2> TAKE f \in F
  <2>1. PICK a \in Cells : f = w[d][a] /\ f # NoFrame
    BY DEF F
  <2>2. f \in Frames
    BY <1>6, <2>1 DEF Rows
  <2>3. \A g \in C : Users(w, g) = {}
    BY <1>1, <1>4, FreshFrame
  <2>4. d \in Users(w, f)
    BY <1>6, <2>1 DEF Users
  <2> QED BY <2>2, <2>3, <2>4
<1> HIDE DEF ph
<1>9. /\ \A f \in F : f \in Frames /\ ph[f] > 0
      /\ Counted(Put(w, n, w[d]), More(ph, F), Held(M, X) \union C, V)
  <2>1. n \notin DOMAIN w /\ d \in DOMAIN w
    BY <1>3, <1>4, <1>6 DEF C
  <2>2. \A a \in Cells : w[d][a] # V
    BY DEF w
  <2>3. F = {w[d][a] : a \in Cells} \ {NoFrame}
    BY DEF F
  <2> QED BY <1>7, <2>1, <2>2, <2>3, RowCopied
<1>10. Split(ph) /\ ph \in [Frames -> Int]
  BY <1>1, <1>3, <1>7, SplitSmall DEF ph, Counted
<1>11. Split(More(ph, F))
  BY <1>9, <1>10, MoreSplit
<1>12. N.phys = More(ph, F)
  <2>1. MoreUsers(M, d) = More(M.phys, F)
    BY MoreUsersFacts DEF F, w
  <2>2. N.phys = Given(More(M.phys, F), C, KERNEL)
    <3> DEFINE K == [M EXCEPT !.phys = MoreUsers(M, d)]
    <3>1. M = [phys |-> M.phys, dir |-> M.dir, table |-> M.table, content |-> M.content, panic |-> M.panic]
      BY <1>1 DEF Fields
    <3>2. K.phys = More(M.phys, F) /\ Fields(K)
      BY <2>1, <3>1 DEF Fields
    <3>3. N.phys = Mark(K, C, KERNEL).phys
      BY <3>1 DEF Cloned, C, R
    <3> HIDE DEF K
    <3> QED BY <3>2, <3>3, MarkFacts
  <2>3. \A i \in Frames : Given(More(M.phys, F), C, KERNEL)[i] = More(Given(M.phys, C, KERNEL), F)[i]
    BY <1>8 DEF Given, More
  <2> QED BY <2>2, <2>3 DEF Given, More, ph
<1>13. /\ Fields(N) /\ N.dir = D /\ N.table = U /\ N.content = M.content /\ N.panic = M.panic
  <2> DEFINE Q == Mark([M EXCEPT !.phys = MoreUsers(M, d)], {n} \union Range(copy), KERNEL).phys
  <2>1. M = [phys |-> M.phys, dir |-> M.dir, table |-> M.table, content |-> M.content, panic |-> M.panic]
    BY <1>1 DEF Fields
  <2>2. N = [M EXCEPT !.phys = Q, !.dir = D, !.table = U]
    BY DEF Cloned, D, U
  <2> HIDE DEF Q
  <2>3. N = [phys |-> Q, dir |-> D, table |-> U, content |-> M.content, panic |-> M.panic]
    BY <2>1, <2>2
  <2> QED BY <2>3 DEF Fields
<1>14. /\ DOMAIN D = DOMAIN M.dir \union {n} /\ D[n] = CopyRow(M, d, full, copy)
       /\ \A c \in DOMAIN M.dir : D[c] = SharedDir(M, d)[c]
  <2>1. DOMAIN SharedDir(M, d) = DOMAIN M.dir
    BY <1>1, SharedFacts
  <2>2. n \notin DOMAIN M.dir
    BY <1>4 DEF C
  <2> QED BY <2>1, <2>2 DEF D, Put
<1>15. DOMAIN U = DOMAIN M.table \union R
  BY DEF U, CopyTables, R
<1>16. Held(N, X) = Held(M, X) \union C
  BY <1>13, <1>14, <1>15 DEF Held, C
<1>17. Maps(N) = Put(w, n, w[d])
  BY <1>5, <1>13 DEF Maps
<1>18. Good(N, X, V)
  <2>1. Shape(N.dir, N.table) /\ Counted(Maps(N), N.phys, Held(N, X), V) /\ Split(N.phys)
    BY <1>5, <1>9, <1>11, <1>12, <1>13, <1>16, <1>17
  <2>2. R \subseteq C /\ n \in C /\ n \notin R
    BY <1>2, <1>3 DEF C
  <2>3. /\ DOMAIN N.dir \intersect DOMAIN N.table = {}
        /\ X \intersect (DOMAIN N.dir \union DOMAIN N.table) = {}
    BY <1>4, <1>13, <1>14, <1>15, <2>2 DEF Good
  <2> QED BY <1>13, <2>1, <2>3 DEF Good
<1>19. \A c \in DOMAIN M.dir : LargeIn(N, c) = LargeIn(M, c)
  <2>1. \A c \in DOMAIN M.dir : \A s \in UserSlots : N.dir[c][s].large = M.dir[c][s].large
    BY <1>1, <1>13, <1>14, SharedFacts
  <2> QED BY <2>1 DEF LargeIn
<1>20. LargeIn(N, n) = LargeIn(M, d)
  <2>1. ASSUME NEW s \in UserSlots
        PROVE  N.dir[n][s].large <=> M.dir[d][s].large
    <3>1. N.dir[n][s] = IF s \in full THEN TableEntry(copy[s])
                        ELSE IF M.dir[d][s].large THEN ShareLarge(M.dir[d][s]) ELSE Absent
      BY <1>13, <1>14 DEF CopyRow
    <3>2. M.dir[d][s] \in Entries
      BY <1>1 DEF Shape, DirsOK
    <3>3. CASE s \in full
      <4>1. ~M.dir[d][s].large
        BY <3>3 DEF FullSlots
      <4>2. copy[s] \in Frames
        BY <1>2, <3>3, FreeSmallFacts
      <4> QED BY <3>1, <3>3, <4>1, <4>2, TableEntryFacts
    <3>4. CASE s \notin full
      BY <3>1, <3>2, <3>4, ShareFacts, EntryFacts
    <3> QED BY <3>3, <3>4
  <2> QED BY <2>1 DEF LargeIn
<1>21. n \notin DOMAIN M.dir /\ n \in SmallFrame /\ DOMAIN N.dir = DOMAIN M.dir \union {n}
  BY <1>4, <1>13, <1>14 DEF C
<1> QED BY <1>13, <1>17, <1>18, <1>19, <1>20, <1>21 DEF Born, w

\* What use_phys_mem would not take: only the screen's frame.
NotInUse(M, d) == {f \in Frames : M.phys[f] <= 0 /\ \E a \in Mapped(M, d) : Entry(M, d, a).frame = f}

LEMMA NotInUseFacts ==
  ASSUME NEW M, NEW X, NEW V, Good(M, X, V), NEW d \in DOMAIN M.dir
  PROVE  /\ NotInUse(M, d) \subseteq {V}
         /\ (\A a \in Cells : Maps(M)[d][a] # V) => NotInUse(M, d) = {}
         /\ (\E a \in Cells : Maps(M)[d][a] = V) => NotInUse(M, d) = {V}
<1>1. Shape(M.dir, M.table) /\ M.phys \in [Frames -> Int] /\ Counted(Maps(M), M.phys, Held(M, X), V)
  BY DEF Good, Counted
<1>2. d \in DOMAIN Maps(M) /\ Maps(M)[d] \in Rows
  BY <1>1, FlatFacts DEF Maps, Counted
<1>3. ASSUME NEW a \in Cells, Maps(M)[d][a] \notin {NoFrame, V}
      PROVE  M.phys[Maps(M)[d][a]] > 0 /\ Maps(M)[d][a] \in Frames
  <2>1. {a} \in SUBSET Cells /\ \A b \in {a} : Maps(M)[d][b] \notin {NoFrame, V}
    BY <1>3
  <2>2. \A b \in {a} : Maps(M)[d][b] \in Frames /\ M.phys[Maps(M)[d][b]] > 0
    BY <1>1, <1>2, <2>1, FramesUnmapped
  <2> QED BY <2>2
<1>4. ASSUME NEW f \in NotInUse(M, d)
      PROVE  f = V /\ \E a \in Cells : Maps(M)[d][a] = V
  <2>1. PICK a \in Mapped(M, d) : Entry(M, d, a).frame = f
    BY DEF NotInUse
  <2>2. a \in Cells /\ Maps(M)[d][a] = f /\ f # NoFrame
    BY <1>1, <2>1, MappedFacts
  <2>3. f \in Frames /\ M.phys[f] <= 0 /\ M.phys[f] \in Int
    BY <1>1 DEF NotInUse
  <2> QED BY <1>3, <2>2, <2>3
<1>5. ASSUME NEW a \in Cells, Maps(M)[d][a] = V
      PROVE  V \in NotInUse(M, d)
  <2>1. V = Screen \/ Usable(V)
    BY <1>1 DEF Counted
  <2>2. V # NoFrame
    BY <2>1, NumberFacts DEF Screen, NoFrame
  <2>3. V \in Frames
    BY <1>2, <1>5, <2>2 DEF Rows
  <2>4. M.phys[V] = KERNEL
    <3>1. V \in Held(M, X) \/ V < Preallocated
      BY <1>1, NumberFacts DEF Counted, Screen
    <3> QED BY <1>1, <2>3, <3>1 DEF Counted, Counts, Count
  <2>5. a \in Mapped(M, d) /\ Entry(M, d, a).frame = V
    BY <1>1, <1>5, <2>2, MappedFacts
  <2> QED BY <2>3, <2>4, <2>5 DEF NotInUse, KERNEL
<1> QED BY <1>4, <1>5

LEMMA CloneDirectorySeen ==
  ASSUME NEW M, NEW X, Good(M, X, video), NEW d \in DOMAIN M.dir,
         \E a \in Cells : Maps(M)[d][a] = video, NEW N, N = CloneDirectory(M, d)
  PROVE  N = Panics(M, "oom") \/ N = Panics(M, "screen")
<1>1. NotInUse(M, d) = {video}
  BY NotInUseFacts
<1>2. NotInUse(M, d) # {}
  BY <1>1
<1> QED BY <1>1, <1>2, Zenon DEF CloneDirectory, NotInUse

LEMMA CloneDirectoryFacts ==
  ASSUME NEW M, NEW X, NEW V, Good(M, X, V), NEW d \in DOMAIN M.dir,
         \A a \in Cells : Maps(M)[d][a] # V,
         NEW n, n = Min(FreeSmall(M)), NEW N, N = CloneDirectory(M, d)
  PROVE  \/ N = Panics(M, "oom")
         \/ Born(M, N, n, Maps(M)[d], X, V) /\ LargeIn(N, n) = LargeIn(M, d)
<1> DEFINE full == FullSlots(M, d)
           copy == CopyOf(M, full)
<1>1. NotInUse(M, d) = {}
  BY NotInUseFacts
<1>2. N = IF Cardinality(FreeSmall(M)) <= Cardinality(full) THEN Panics(M, "oom")
          ELSE Cloned(M, d, full, copy, n)
  BY <1>1, Zenon
     DEF CloneDirectory, FullSlots, CopyOf, Cloned, SharedDir, ShareLarge, CopyRow, CopyTables,
              SharedPages, TableEntry, Tables, TablesOf, IsTable, Rank, NotInUse
<1> HIDE DEF full, copy
<1>3. CASE Cardinality(FreeSmall(M)) <= Cardinality(full)
  BY <1>2, <1>3
<1>4. CASE ~(Cardinality(FreeSmall(M)) <= Cardinality(full))
  <2>1. N = Cloned(M, d, full, copy, n)
    BY <1>2, <1>4
  <2> QED BY <1>4, <2>1, ClonedFacts DEF full, copy
<1> QED BY <1>3, <1>4

-----------------------------------------------------------------------------
(* Room for a page is found, and a page is copied. *)

RoomOf(v, B) ==
  {s \in UserSlots : s >= Preallocated /\ s \notin B /\ \E p \in 0 .. NumEntries - 2 : v[<<s, p>>] = NoFrame}

LEMMA RoomFacts ==
  ASSUME NEW M, Shape(M.dir, M.table), NEW d \in DOMAIN M.dir
  PROVE  /\ Room(M, d) = RoomOf(Maps(M)[d], LargeIn(M, d))
         /\ Room(M, d) \subseteq UserSlots
         /\ Room(M, d) # {} => Min(Room(M, d)) \in Room(M, d)
<1>1. 0 .. NumEntries - 2 \subseteq Pages
  BY NumberFacts DEF Pages
<1>2. ASSUME NEW s \in UserSlots, ~M.dir[d][s].large, NEW p \in Pages
      PROVE  Entry(M, d, <<s, p>>).frame = NoFrame <=> Maps(M)[d][<<s, p>>] = NoFrame
  <2>1. Maps(M)[d][<<s, p>>] = FrameAt(M.dir, M.table, d, s, p)
    BY FlatFacts DEF Maps
  <2>2. CASE M.dir[d][s].frame = NoFrame
    BY <2>1, <2>2 DEF FrameAt, Entry
  <2>3. CASE M.dir[d][s].frame # NoFrame
    BY <1>2, <2>1, <2>3, Zenon DEF FrameAt, Entry
  <2> QED BY <2>2, <2>3
<1>3. Room(M, d) = {s \in UserSlots : /\ s >= Preallocated /\ s \notin LargeIn(M, d)
                                      /\ \E p \in 0 .. NumEntries - 2 : Maps(M)[d][<<s, p>>] = NoFrame}
  BY <1>1, <1>2 DEF Room, LargeIn
<1>4. Room(M, d) \subseteq UserSlots /\ UserSlots \subseteq Nat
  BY MemoryAssumption DEF Room
<1>5. Room(M, d) = RoomOf(Maps(M)[d], LargeIn(M, d))
  BY <1>3 DEF RoomOf
<1> QED BY <1>4, <1>5, MinFacts

\* There is room before the large pages.
Spared(M, d) == \E s \in Room(M, d) : \A l \in LargeIn(M, d) : s < l

\* N is M with a table for the first room, and nothing else.
Roomed(M, N, d, X, V) ==
  /\ Good(N, X, V) /\ Maps(N) = Maps(M) /\ DOMAIN N.dir = DOMAIN M.dir
  /\ N.panic = M.panic /\ N.content = M.content /\ SameLarge(M, N)
  /\ Room(M, d) # {} /\ IsTable(N.dir[d][Min(Room(M, d))])

LEMMA TempSmallFacts ==
  ASSUME NEW M, NEW X, NEW V, Good(M, X, V), NEW d \in DOMAIN M.dir, Spared(M, d),
         NEW N, N = TempSmall(M, d)
  PROVE  N = Panics(M, "oom") \/ Roomed(M, N, d, X, V)
<1> DEFINE s == Min(Room(M, d))
<1>1. Shape(M.dir, M.table)
  BY DEF Good
<1>2. Room(M, d) # {}
  BY DEF Spared
<1>3. s \in Room(M, d) /\ s \in UserSlots /\ ~M.dir[d][s].large
  BY <1>1, <1>2, RoomFacts DEF Room
<1>4. ~\E l \in UserSlots : M.dir[d][l].large /\ l >= Preallocated /\ \A r \in Room(M, d) : l < r
  <2>1. PICK r \in Room(M, d) : \A l \in LargeIn(M, d) : r < l
    BY DEF Spared
  <2>2. Room(M, d) \subseteq UserSlots /\ UserSlots \subseteq Nat
    BY MemoryAssumption DEF Room
  <2>3. ASSUME NEW l \in UserSlots, M.dir[d][l].large
        PROVE  r < l /\ ~(l < r)
    <3>1. r < l
      BY <2>1, <2>3 DEF LargeIn
    <3>2. r \in Nat /\ l \in Nat
      BY <2>2
    <3> QED BY <3>1, <3>2
  <2> QED BY <2>3
<1>5. N = IF Cardinality(FreeSmall(M)) < (IF M.dir[d][s].frame = NoFrame THEN 2 ELSE 1)
            THEN Panics(M, "oom")
          ELSE IF M.dir[d][s].frame = NoFrame THEN MakeTable(M, d, s) ELSE M
  BY <1>2, <1>4 DEF TempSmall
<1> HIDE DEF s
<1>6. CASE N = MakeTable(M, d, s) /\ M.dir[d][s].frame = NoFrame
           /\ ~(Cardinality(FreeSmall(M)) < 2)
  <2>1. FreeSmall(M) # {}
    BY <1>6, FS_EmptySet
  <2>2. TableAdded(M, N, X, V, d, s)
    BY <1>3, <1>6, <2>1, MakeTableFacts
  <2>3. SameLarge(M, N)
    BY <1>3, <1>6, <2>2, TableAddedGrown
  <2> QED BY <1>2, <2>2, <2>3 DEF Roomed, TableAdded, s
<1>7. CASE N = M /\ M.dir[d][s].frame # NoFrame
  <2>1. IsTable(M.dir[d][s]) /\ SameLarge(M, M)
    BY <1>3, <1>7 DEF IsTable, SameLarge
  <2> QED BY <1>2, <1>7, <2>1 DEF Roomed, s
<1> QED BY <1>5, <1>6, <1>7

\* M is K but that the frame f, which K has for the kernel, has a user.
Twin(M, K, f) ==
  /\ Fields(M) /\ Fields(K) /\ M.dir = K.dir /\ M.table = K.table
  /\ M.content = K.content /\ M.panic = K.panic
  /\ f \in Frames /\ K.phys[f] = KERNEL /\ M.phys = Given(K.phys, {f}, 1)

LEMMA TwinFree ==
  ASSUME NEW M, NEW K, NEW f, Twin(M, K, f)
  PROVE  FreeSmall(M) = FreeSmall(K) /\ FreeLarge(M) = FreeLarge(K)
<1>1. \A i \in Frames : M.phys[i] = UNUSED <=> K.phys[i] = UNUSED
  BY NumberFacts DEF Twin, Given
<1>2. \A i \in SmallFrame : i \in Frames /\ i \div NumEntries \in Frames
  BY NumberFacts, LargeOfSmall
<1>3. FreeSmall(M) = FreeSmall(K)
  <2>1. ASSUME NEW i \in SmallFrame
        PROVE  (M.phys[i] = UNUSED /\ M.phys[i \div NumEntries] = UNUSED)
                 <=> (K.phys[i] = UNUSED /\ K.phys[i \div NumEntries] = UNUSED)
    <3> DEFINE q == i \div NumEntries
    <3>1. i \in Frames /\ q \in Frames
      BY <1>2
    <3> HIDE DEF q
    <3>2. (M.phys[i] = UNUSED /\ M.phys[q] = UNUSED) <=> (K.phys[i] = UNUSED /\ K.phys[q] = UNUSED)
      BY <1>1, <3>1
    <3> QED BY <3>2 DEF q
  <2> QED BY <2>1, Zenon DEF FreeSmall
<1>4. ASSUME NEW l \in LargeFrame, (l + 1) * NumEntries < IndexWidth, NEW Q, NEW I,
             I = l * NumEntries .. (l + 1) * NumEntries - 1
      PROVE  I \subseteq Frames
  <2>1. NumEntries \in Nat \ {0} /\ l \in Nat /\ l <= NumLarge - 1 /\ NumLarge \in Nat
    BY NumberFacts DEF LargeFrame
  <2>2. l * NumEntries \in Nat /\ (l + 1) * NumEntries \in Nat
    BY <2>1
  <2>3. (l + 1) * NumEntries <= NumLarge * NumEntries
    <3> DEFINE k == NumLarge - (l + 1)
    <3>1. k \in Nat /\ NumLarge = (l + 1) + k
      BY <2>1
    <3> HIDE DEF k
    <3>2. k * NumEntries \in Nat
      BY <2>1, <3>1
    <3>3. NumLarge * NumEntries = (l + 1) * NumEntries + k * NumEntries
      BY <2>1, <3>1
    <3> QED BY <2>2, <3>2, <3>3
  <2>4. NumLarge * NumEntries \in Nat
    BY <2>1
  <2> QED BY <1>4, <2>1, <2>2, <2>3, <2>4 DEF Frames, SmallFrame, LargeFrame
<1>5. FreeLarge(M) = FreeLarge(K)
  BY <1>1, <1>4, NumberFacts DEF FreeLarge
<1> QED BY <1>3, <1>5

LEMMA TwinPanics ==
  ASSUME NEW M, NEW K, NEW f, Twin(M, K, f), NEW why
  PROVE  Twin(Panics(M, why), Panics(K, why), f)
<1>1. Fields(M) /\ Fields(K)
  BY DEF Twin
<1> QED BY <1>1, PanicsFacts DEF Twin

LEMMA TwinTable ==
  ASSUME NEW M, NEW K, NEW f, Twin(M, K, f), NEW d, NEW s, FreeSmall(K) # {}
  PROVE  Twin(MakeTable(M, d, s), MakeTable(K, d, s), f)
<1> DEFINE g == Min(FreeSmall(K))
           tables == Put(K.table, g, [p \in Pages |-> Absent])
           dirs == [K.dir EXCEPT ![d][s] = TableEntry(g)]
           A == Mark(M, {g}, KERNEL)
           B == Mark(K, {g}, KERNEL)
<1>1. g \in FreeSmall(K) /\ g \in Frames /\ K.phys[g] = UNUSED
  BY FreeSmallFacts
<1>2. Fields(M) /\ Fields(K) /\ FreeSmall(M) = FreeSmall(K)
      /\ M.dir = K.dir /\ M.table = K.table /\ M.content = K.content /\ M.panic = K.panic
      /\ f \in Frames /\ K.phys[f] = KERNEL /\ M.phys = Given(K.phys, {f}, 1)
  BY TwinFree DEF Twin
<1>3. MakeTable(K, d, s) = [B EXCEPT !.table = tables, !.dir[d][s] = TableEntry(g)]
  BY DEF MakeTable, TableEntry
<1>4. MakeTable(M, d, s) = [A EXCEPT !.table = tables, !.dir[d][s] = TableEntry(g)]
  BY <1>2 DEF MakeTable, TableEntry
<1>5. f # g
  BY <1>1, <1>2, NumberFacts
<1> HIDE DEF g, tables
<1>6. A = [phys |-> Given(M.phys, {g}, KERNEL), dir |-> K.dir, table |-> K.table,
           content |-> K.content, panic |-> K.panic]
  <2>1. Fields(A) /\ A.phys = Given(M.phys, {g}, KERNEL) /\ A.dir = K.dir /\ A.table = K.table
        /\ A.content = K.content /\ A.panic = K.panic
    BY <1>2, MarkFacts
  <2> QED BY <2>1 DEF Fields
<1>7. B = [phys |-> Given(K.phys, {g}, KERNEL), dir |-> K.dir, table |-> K.table,
           content |-> K.content, panic |-> K.panic]
  <2>1. Fields(B) /\ B.phys = Given(K.phys, {g}, KERNEL) /\ B.dir = K.dir /\ B.table = K.table
        /\ B.content = K.content /\ B.panic = K.panic
    BY <1>2, MarkFacts
  <2> QED BY <2>1 DEF Fields
<1> HIDE DEF A, B
<1>8. MakeTable(M, d, s) = [phys |-> Given(M.phys, {g}, KERNEL), dir |-> dirs, table |-> tables,
                            content |-> K.content, panic |-> K.panic]
  BY <1>4, <1>6
<1>9. MakeTable(K, d, s) = [phys |-> Given(K.phys, {g}, KERNEL), dir |-> dirs, table |-> tables,
                            content |-> K.content, panic |-> K.panic]
  BY <1>3, <1>7
<1>10. Given(M.phys, {g}, KERNEL) = Given(Given(K.phys, {g}, KERNEL), {f}, 1)
  <2>1. \A i \in Frames : Given(M.phys, {g}, KERNEL)[i] = Given(Given(K.phys, {g}, KERNEL), {f}, 1)[i]
    BY <1>2, <1>5 DEF Given
  <2> QED BY <2>1 DEF Given
<1>11. Given(K.phys, {g}, KERNEL)[f] = KERNEL
  BY <1>2, <1>5 DEF Given
<1> HIDE DEF dirs
<1> QED BY <1>2, <1>8, <1>9, <1>10, <1>11 DEF Twin, Fields

LEMMA TwinTemp ==
  ASSUME NEW M, NEW K, NEW f, Twin(M, K, f), NEW d
  PROVE  /\ Twin(TempSmall(M, d), TempSmall(K, d), f)
         /\ Twin(TempLarge(M, d), TempLarge(K, d), f)
<1>1. /\ M.dir = K.dir /\ M.table = K.table /\ FreeSmall(M) = FreeSmall(K) /\ FreeLarge(M) = FreeLarge(K)
  BY TwinFree DEF Twin
<1>2. Room(M, d) = Room(K, d)
  BY <1>1 DEF Room, Entry
<1> DEFINE s == Min(Room(K, d))
           bug == \E l \in UserSlots : K.dir[d][l].large /\ l >= Preallocated
                                       /\ \A r \in Room(K, d) : l < r
           oom == Room(K, d) = {}
                  \/ Cardinality(FreeSmall(K)) < (IF K.dir[d][s].frame = NoFrame THEN 2 ELSE 1)
           T(N) == IF bug THEN Panics(N, "bug") ELSE IF oom THEN Panics(N, "oom")
                   ELSE IF K.dir[d][s].frame = NoFrame THEN MakeTable(N, d, s) ELSE N
<1>3. TempSmall(K, d) = T(K)
  BY DEF TempSmall
<1>4. TempSmall(M, d) = T(M)
  BY <1>1, <1>2 DEF TempSmall
<1>5. ASSUME ~oom, K.dir[d][s].frame = NoFrame
      PROVE  FreeSmall(K) # {}
  BY <1>5, FS_EmptySet
<1>6. Twin(Panics(M, "bug"), Panics(K, "bug"), f) /\ Twin(Panics(M, "oom"), Panics(K, "oom"), f)
  BY TwinPanics
<1> HIDE DEF bug, oom, s
<1>7. ASSUME ~oom, K.dir[d][s].frame = NoFrame
      PROVE  Twin(MakeTable(M, d, s), MakeTable(K, d, s), f)
  BY <1>5, <1>7, TwinTable
<1>8. Twin(T(M), T(K), f)
  BY <1>6, <1>7
<1>9. Twin(TempLarge(M, d), TempLarge(K, d), f)
  BY <1>1, <1>6 DEF TempLarge
<1> HIDE DEF T
<1> QED BY <1>3, <1>4, <1>8, <1>9

Replaced(w, d, a, f) == RowSet(w, d, [w[d] EXCEPT ![a] = f])

\* One entry is written, in its table or in the directory.
LEMMA SetEntryFacts ==
  ASSUME NEW M, Fields(M), Shape(M.dir, M.table), NEW d \in DOMAIN M.dir, NEW a \in Mapped(M, d),
         NEW e \in Entries, e.frame # NoFrame, e.large <=> a[1] \in LargeIn(M, d),
         e.large => e.frame \in BigFrame,
         NEW N, N = SetEntry(M, d, a, e)
  PROVE  /\ Fields(N) /\ N.phys = M.phys /\ N.content = M.content /\ N.panic = M.panic
         /\ Shape(N.dir, N.table)
         /\ Maps(N) = Replaced(Maps(M), d, a, e.frame)
         /\ DOMAIN N.dir = DOMAIN M.dir /\ DOMAIN N.table = DOMAIN M.table /\ SameLarge(M, N)
<1> DEFINE s == a[1]
           p == a[2]
           w == Maps(M)
<1>1. a \in Cells /\ s \in UserSlots /\ p \in Pages /\ a = <<s, p>> /\ w[d][a] # NoFrame
  BY MappedFacts, CellFacts
<1>2. Entry(M, d, a).frame # NoFrame /\ (Entry(M, d, a).large => p = 0)
  BY DEF Mapped
<1>3. M.dir[d][s].large <=> e.large
  BY <1>1 DEF LargeIn
<1>4. M = [phys |-> M.phys, dir |-> M.dir, table |-> M.table, content |-> M.content, panic |-> M.panic]
  BY DEF Fields
<1>5. w \in [DOMAIN M.dir -> Rows] /\ DOMAIN w = DOMAIN M.dir
  BY FlatFacts DEF Maps
<1> HIDE DEF s, p, w
<1>6. CASE IsTable(M.dir[d][s])
  <2> DEFINE t == M.dir[d][s].frame
             g == [M.table[t] EXCEPT ![p] = e]
             T == [M.table EXCEPT ![t] = g]
             v == RowOfTable(w[d], s, g)
  <2>1. N = [M EXCEPT !.table[t][p] = e]
    BY <1>6, Zenon DEF SetEntry, IsTable, s, p
  <2>2. T = [M.table EXCEPT ![t][p] = e]
    OBVIOUS
  <2>3. t \in DOMAIN M.table /\ M.table[t] \in [Pages -> Entries] /\ \A q \in Pages : ~M.table[t][q].large
    <3>1. t \in DOMAIN M.table
      BY <1>1, <1>6 DEF Shape, Placed
    <3> HIDE DEF t
    <3> QED BY <3>1 DEF Shape, TablesOK
  <2>4. ~e.large
    BY <1>3, <1>6 DEF IsTable
  <2>5. g \in [Pages -> Entries] /\ g[p] = e /\ (\A q \in Pages : q # p => g[q] = M.table[t][q])
        /\ \A q \in Pages : ~g[q].large
    BY <1>1, <2>3, <2>4, Zenon
  <2>6. N = [phys |-> M.phys, dir |-> M.dir, table |-> T, content |-> M.content, panic |-> M.panic]
    <3> HIDE DEF t, T
    <3> QED BY <1>4, <2>1, <2>2
  <2>7. DOMAIN T = DOMAIN M.table
    OBVIOUS
  <2> HIDE DEF g
  <2>8. Shape(M.dir, T) /\ Flat(M.dir, T) = RowSet(w, d, v)
    <3>1. TableFor(M.dir, M.table, d, s, t, g)
      BY <1>1, <1>6, <2>5, Zenon DEF TableFor
    <3>2. TableStep(M.dir, M.table, d, s, t, g)
      BY <3>1, TableWritten, Zenon
    <3> QED BY <3>2, Zenon DEF TableStep, Maps, w
  <2>9. v = [w[d] EXCEPT ![a] = e.frame]
    <3>1. \A b \in Cells : v[b] = IF b = a THEN e.frame ELSE w[d][b]
      <4> TAKE b \in Cells
      <4>1. b[1] \in UserSlots /\ b[2] \in Pages /\ b = <<b[1], b[2]>>
        BY CellFacts
      <4>2. v[b] = IF b[1] = s THEN g[b[2]].frame ELSE w[d][b]
        BY DEF RowOfTable
      <4>3. w[d][b] = FrameAt(M.dir, M.table, d, b[1], b[2])
        BY <4>1, FlatFacts DEF Maps, w
      <4>4. b[1] = s => w[d][b] = M.table[t][b[2]].frame
        BY <1>6, <4>3 DEF FrameAt, IsTable
      <4>5. CASE b = a
        BY <1>1, <2>5, <4>2, <4>5 DEF s, p
      <4>6. CASE b # a
        BY <1>1, <2>5, <4>1, <4>2, <4>4, <4>6, Zenon
      <4> QED BY <4>5, <4>6
    <3>2. w[d] = [b \in Cells |-> w[d][b]]
      BY <1>5 DEF Rows
    <3> QED BY <3>1, <3>2 DEF RowOfTable
  <2> HIDE DEF T, v
  <2>10. N.phys = M.phys /\ N.dir = M.dir /\ N.table = T /\ N.content = M.content
         /\ N.panic = M.panic /\ Fields(N)
    BY <2>6 DEF Fields
  <2>11. SameLarge(M, N)
    BY <2>10 DEF SameLarge, LargeIn
  <2>12. Maps(N) = RowSet(w, d, v)
    BY <2>8, <2>10 DEF Maps
  <2> QED BY <2>7, <2>8, <2>9, <2>10, <2>11, <2>12 DEF w, Replaced
<1>7. CASE ~IsTable(M.dir[d][s])
  <2> DEFINE D == SlotSet(M.dir, d, s, e)
  <2>1. Entry(M, d, a) = M.dir[d][s]
    BY <1>7, Zenon DEF Entry, IsTable, s
  <2>2. e.large /\ p = 0 /\ M.dir[d][s].large /\ e.frame \in BigFrame
    BY <1>2, <1>3, <1>7, <2>1 DEF IsTable
  <2>3. e.frame \in LargeFrame /\ a = <<s, 0>>
    BY <1>1, <2>2 DEF BigFrame
  <2>4. N = [M EXCEPT !.dir[d][s] = e]
    BY <2>2 DEF SetEntry, s
  <2>5. N = [phys |-> M.phys, dir |-> D, table |-> M.table, content |-> M.content, panic |-> M.panic]
    BY <1>4, <2>4 DEF SlotSet
  <2>6. Shape(D, M.table) /\ Flat(D, M.table) = RowSet(w, d, [w[d] EXCEPT ![<<s, 0>>] = e.frame])
    BY <1>1, <1>7, <2>2, LargeWritten DEF w, Maps
  <2>7. /\ DOMAIN D = DOMAIN M.dir /\ D[d][s] = e
        /\ \A c \in DOMAIN M.dir : \A r \in UserSlots : c # d \/ r # s => D[c][r] = M.dir[c][r]
    BY <1>1, <2>2, SlotSetFacts, SMTT(30) DEF Shape
  <2> HIDE DEF D
  <2>8. N.phys = M.phys /\ N.dir = D /\ N.table = M.table /\ N.content = M.content
        /\ N.panic = M.panic /\ Fields(N)
    BY <2>5 DEF Fields
  <2>9. \A c \in DOMAIN M.dir : \A r \in UserSlots : N.dir[c][r].large <=> M.dir[c][r].large
    BY <2>2, <2>7, <2>8
  <2>10. SameLarge(M, N)
    BY <2>9 DEF SameLarge, LargeIn
  <2> QED BY <2>3, <2>6, <2>7, <2>8, <2>10 DEF Maps, w, Replaced
<1> QED BY <1>6, <1>7

LEMMA FrameUnmapped ==
  ASSUME NEW w, NEW ph, NEW O, NEW V, Counted(w, ph, O, V), NEW d \in DOMAIN w,
         NEW a \in Cells, w[d][a] \notin {NoFrame, V}
  PROVE  /\ ph[w[d][a]] > 0
         /\ Counted(RowSet(w, d, [b \in Cells |-> IF b = a THEN NoFrame ELSE w[d][b]]),
                    Fewer(ph, {w[d][a]}), O, V)
<1> DEFINE A == {a}
           F == {w[d][b] : b \in A}
           v == [b \in Cells |-> IF b \in A THEN NoFrame ELSE w[d][b]]
<1>1. /\ A \in SUBSET Cells /\ (\A b \in A : w[d][b] \notin {NoFrame, V}) /\ a \in A
      /\ F = {w[d][a]} /\ v = [b \in Cells |-> IF b = a THEN NoFrame ELSE w[d][b]]
  OBVIOUS
<1> HIDE DEF A
<1>2. /\ \A b \in A : w[d][b] \in Frames /\ ph[w[d][b]] > 0
      /\ Counted(RowSet(w, d, v), Fewer(ph, F), O, V)
  BY <1>1, FramesUnmapped
<1> HIDE DEF F, v
<1> QED BY <1>1, <1>2

Less(O, f) == O \ {f}
Single(ph, f) == Given(ph, {f}, 1)
OneLess(ph, f) == Fewer(ph, {f})

\* A frame that the kernel had becomes the page of an address, and the frame
\* that was there loses a user.
LEMMA PageReplaced ==
  ASSUME NEW w, NEW ph, NEW O, NEW V, Counted(w, ph, O, V), NEW f \in O, f # V,
         NEW d \in DOMAIN w, NEW a \in Cells, w[d][a] \notin {NoFrame, V}
  PROVE  /\ Counted(Replaced(w, d, a, f), OneLess(Single(ph, f), w[d][a]), Less(O, f), V)
         /\ w[d][a] \in Frames /\ w[d][a] # f /\ ph[w[d][a]] > 0 /\ f \in Frames /\ ph[f] = KERNEL
<1> DEFINE old == w[d][a]
           ph1 == Given(ph, {f}, UNUSED)
           v0 == [b \in Cells |-> IF b = a THEN NoFrame ELSE w[d][b]]
           u == RowSet(w, d, v0)
           ph2 == Fewer(ph1, {old})
           v1 == [w[d] EXCEPT ![a] = f]
<1>1. /\ f \in Frames /\ Usable(f) /\ f # NoFrame /\ w[d] \in Rows /\ RowOK(w[d], O, V)
      /\ w \in [DOMAIN w -> Rows]
  BY UsableFacts DEF Counted
<1>2. old \in Frames /\ old # f /\ old \notin O
  BY <1>1, UsableFacts DEF RowOK, CellOK
<1>3. ph[f] = KERNEL
  BY <1>1 DEF Counted, Counts, Count
<1>4. Counted(w, ph1, O \ {f}, V)
  <2>1. {f} \in SUBSET O /\ V \notin {f}
    OBVIOUS
  <2> QED BY <2>1, FramesGivenBack
<1>5. Counted(u, ph2, O \ {f}, V) /\ ph1[old] > 0
  <2> HIDE DEF ph1
  <2> QED BY <1>4, FrameUnmapped
<1>7. ph2[f] = UNUSED
  BY <1>1, <1>2 DEF Fewer, Given
<1>8. v1 \in Rows /\ v1[a] = f /\ \A b \in Cells : b # a => v1[b] = w[d][b]
  BY <1>1 DEF Rows
<1>9. DOMAIN u = DOMAIN w /\ u[d] = v0
  BY DEF RowSet
<1>10. \A b \in Cells : w[d][b] # f
  BY <1>1, UsableFacts DEF RowOK, CellOK
<1>11. \A b \in Cells : v1[b] = u[d][b] \/ (u[d][b] = NoFrame /\ v1[b] \in {f})
  BY <1>8, <1>9
<1>12. RowSet(u, d, v1) = RowSet(w, d, v1)
  BY DEF RowSet
<1> HIDE DEF u, v1, ph2
<1>13. Counted(RowSet(u, d, v1), Given(ph2, {f}, 1), O \ {f}, V)
  <2>1. /\ {f} \in SUBSET Frames /\ \A g \in {f} : ph2[g] = UNUSED
        /\ \A b, c \in Cells : v1[b] \in {f} /\ v1[b] = v1[c] => b = c
        /\ \A g \in {f} : \E b \in Cells : v1[b] = g
    BY <1>1, <1>7, <1>8, <1>10
  <2> QED BY <1>5, <1>8, <1>9, <1>11, <2>1, FramesMapped
<1>14. Given(ph2, {f}, 1) = Fewer(Given(ph, {f}, 1), {old})
  <2>1. \A i \in Frames : Given(ph2, {f}, 1)[i] = Fewer(Given(ph, {f}, 1), {old})[i]
    BY <1>2 DEF ph2, Given, Fewer
  <2> QED BY <2>1 DEF Given, Fewer
<1>15. ph[old] > 0
  BY <1>2, <1>5 DEF Given
<1> QED BY <1>1, <1>2, <1>3, <1>12, <1>13, <1>14, <1>15 DEF v1, Replaced, OneLess, Single, Less

\* N is M with another frame, or other flags, at address a of directory d.
Rewritten(M, N, d, a, X, V) ==
  /\ Good(N, X, V) /\ DOMAIN N.dir = DOMAIN M.dir /\ N.panic = M.panic /\ SameLarge(M, N)
  /\ Maps(M)[d][a] # NoFrame
  /\ \E f : f \notin {NoFrame, V} /\ Maps(N) = Replaced(Maps(M), d, a, f)

\* Memory ran out after a frame had been taken for the copy.
GaveUp(M, N) ==
  /\ N.panic = "oom" /\ DOMAIN N.dir = DOMAIN M.dir /\ DOMAIN N.table = DOMAIN M.table
  /\ Fields(N) /\ Shape(N.dir, N.table) /\ Split(N.phys) /\ N.content = M.content
  /\ \E f \in Frames : N.phys = Given(M.phys, {f}, 1)

LEMMA EntryShape ==
  ASSUME NEW M, Shape(M.dir, M.table), NEW d \in DOMAIN M.dir, NEW a \in Cells,
         Entry(M, d, a).frame # NoFrame, Entry(M, d, a).large => a[2] = 0
  PROVE  /\ a \in Mapped(M, d) /\ Entry(M, d, a) \in Entries
         /\ Entry(M, d, a).large <=> a[1] \in LargeIn(M, d)
         /\ Entry(M, d, a).large => Entry(M, d, a).frame \in BigFrame
         /\ Maps(M)[d][a] = Entry(M, d, a).frame
<1> DEFINE s == a[1]
           p == a[2]
<1>1. s \in UserSlots /\ p \in Pages
  BY CellFacts
<1>2. a \in Mapped(M, d)
  BY DEF Mapped, Cells
<1> HIDE DEF s, p
<1>3. CASE IsTable(M.dir[d][s])
  <2> DEFINE t == M.dir[d][s].frame
  <2>1. Entry(M, d, a) = M.table[t][p]
    BY <1>3, Zenon DEF Entry, IsTable, s, p
  <2>2. t \in DOMAIN M.table
    BY <1>1, <1>3 DEF Shape, Placed
  <2> HIDE DEF t
  <2>3. M.table[t][p] \in Entries /\ ~M.table[t][p].large
    BY <1>1, <2>2 DEF Shape, TablesOK
  <2>4. s \notin LargeIn(M, d)
    BY <1>3 DEF LargeIn, IsTable
  <2> QED BY <1>2, <2>1, <2>3, <2>4, MappedFacts DEF s
<1>4. CASE ~IsTable(M.dir[d][s])
  <2>1. Entry(M, d, a) = M.dir[d][s]
    BY <1>4, Zenon DEF Entry, IsTable, s
  <2>2. M.dir[d][s] \in Entries /\ M.dir[d][s].large
    BY <1>1, <1>4, <2>1 DEF Shape, DirsOK, IsTable
  <2>3. M.dir[d][s].frame \in BigFrame
    BY <1>1, <2>2 DEF Shape, DirsOK
  <2>4. s \in LargeIn(M, d)
    BY <1>1, <2>2 DEF LargeIn
  <2> QED BY <1>2, <2>1, <2>2, <2>3, <2>4, MappedFacts DEF s
<1> QED BY <1>3, <1>4

\* A free frame is given to the kernel.
LEMMA OwnedFrame ==
  ASSUME NEW M, NEW X, NEW V, Good(M, X, V), NEW f \in FreeSmall(M) \union FreeLarge(M),
         NEW K, K = Mark(M, {f}, KERNEL)
  PROVE  /\ Good(K, X \union {f}, V) /\ f # V /\ f \in Frames /\ f \notin Held(M, X) /\ Usable(f)
         /\ Split(Given(M.phys, {f}, 1))
<1>1. f \in Frames /\ M.phys[f] = UNUSED
  BY FreeSmallFacts, FreeLargeFacts
<1>2. /\ Counted(Maps(M), M.phys, Held(M, X), V) /\ Split(M.phys) /\ Fields(M)
      /\ Shape(M.dir, M.table) /\ DOMAIN M.dir \intersect DOMAIN M.table = {}
      /\ X \intersect (DOMAIN M.dir \union DOMAIN M.table) = {}
      /\ V \in X \union {Screen} /\ M.content \in [Frames -> Values]
  BY DEF Good
<1>3. f \notin Held(M, X) /\ Usable(f) /\ f # V
  BY <1>1, <1>2, FreshFrame
<1>4. Counted(Maps(M), Given(M.phys, {f}, KERNEL), Held(M, X) \union {f}, V)
  <2>1. {f} \in SUBSET Frames /\ \A g \in {f} : M.phys[g] = UNUSED
    BY <1>1
  <2> QED BY <1>2, <2>1, FramesOwned
<1>5. Split(Given(M.phys, {f}, KERNEL)) /\ Split(Given(M.phys, {f}, 1))
  <2>1. CASE f \in FreeSmall(M)
    <3>1. {f} \in SUBSET FreeSmall(M)
      BY <2>1
    <3> QED BY <1>2, <3>1, SplitSmall
  <2>2. CASE f \in FreeLarge(M)
    BY <1>2, <2>2, SplitLarge
  <2> QED BY <2>1, <2>2
<1>6. /\ Fields(K) /\ K.phys = Given(M.phys, {f}, KERNEL) /\ K.dir = M.dir /\ K.table = M.table
      /\ K.content = M.content
  BY <1>2, MarkFacts
<1>7. Maps(K) = Maps(M) /\ Held(K, X \union {f}) = Held(M, X) \union {f}
  BY <1>6 DEF Maps, Held
<1>8. (X \union {f}) \intersect (DOMAIN M.dir \union DOMAIN M.table) = {}
  BY <1>2, <1>3 DEF Held
<1> QED BY <1>1, <1>2, <1>3, <1>4, <1>5, <1>6, <1>7, <1>8 DEF Good

\* Room for the copy, of either size.
Temp(M, d, big) == IF big THEN TempLarge(M, d) ELSE TempSmall(M, d)

LEMMA TempFacts ==
  ASSUME NEW M, NEW X, NEW V, Good(M, X, V), NEW d \in DOMAIN M.dir, Spared(M, d),
         NEW big \in BOOLEAN, NEW N, N = Temp(M, d, big)
  PROVE  \/ N = Panics(M, "oom")
         \/ /\ Good(N, X, V) /\ Maps(N) = Maps(M) /\ DOMAIN N.dir = DOMAIN M.dir
            /\ N.panic = M.panic /\ N.content = M.content /\ SameLarge(M, N)
<1>1. CASE big
  <2>1. N = Panics(M, "oom") \/ N = M
    BY <1>1 DEF Temp, TempLarge
  <2>2. SameLarge(M, M)
    BY DEF SameLarge
  <2> QED BY <2>1, <2>2
<1>2. CASE ~big
  <2>1. N = TempSmall(M, d)
    BY <1>2 DEF Temp
  <2>2. N = Panics(M, "oom") \/ Roomed(M, N, d, X, V)
    BY <2>1, TempSmallFacts
  <2> QED BY <2>2 DEF Roomed
<1> QED BY <1>1, <1>2

LEMMA TwinOf ==
  ASSUME NEW M, Fields(M), NEW f \in Frames
  PROVE  Twin(Mark(M, {f}, 1), Mark(M, {f}, KERNEL), f)
<1> DEFINE A == Mark(M, {f}, 1)
           B == Mark(M, {f}, KERNEL)
<1>1. /\ Fields(A) /\ A.phys = Given(M.phys, {f}, 1) /\ A.dir = M.dir /\ A.table = M.table
      /\ A.content = M.content /\ A.panic = M.panic
  BY MarkFacts
<1>2. /\ Fields(B) /\ B.phys = Given(M.phys, {f}, KERNEL) /\ B.dir = M.dir /\ B.table = M.table
      /\ B.content = M.content /\ B.panic = M.panic
  BY MarkFacts
<1> HIDE DEF A, B
<1>3. B.phys[f] = KERNEL /\ A.phys = Given(B.phys, {f}, 1)
  BY <1>1, <1>2 DEF Given
<1>4. Twin(A, B, f)
  BY <1>1, <1>2, <1>3 DEF Twin
<1> QED BY <1>4 DEF A, B

LEMMA SparedSame ==
  ASSUME NEW M, NEW K, M.dir = K.dir, M.table = K.table, NEW d
  PROVE  Spared(M, d) <=> Spared(K, d)
<1>1. Room(M, d) = Room(K, d) /\ LargeIn(M, d) = LargeIn(K, d)
  BY DEF Room, Entry, LargeIn
<1> QED BY <1>1 DEF Spared

\* The page at a is copied to frame f, in the memory L that is left when there
\* is room.
CowEnd(P, old, f, x) == [P EXCEPT !.phys[old] = @ - 1, !.content[f] = x]
CowDone(L, d, a, e, old, f, x) == CowEnd(SetEntry(L, d, a, e), old, f, x)

Stored(c, f, x) == [c EXCEPT ![f] = x]

LEMMA CowRecord ==
  ASSUME NEW P, Fields(P), P.phys \in [Frames -> Int], NEW old \in Frames, NEW f, NEW x
  PROVE  /\ Fields(CowEnd(P, old, f, x)) /\ CowEnd(P, old, f, x).phys = OneLess(P.phys, old)
         /\ CowEnd(P, old, f, x).dir = P.dir /\ CowEnd(P, old, f, x).table = P.table
         /\ CowEnd(P, old, f, x).content = Stored(P.content, f, x)
         /\ CowEnd(P, old, f, x).panic = P.panic
<1> DEFINE N == CowEnd(P, old, f, x)
           ph == P.phys
<1>1. P = [phys |-> ph, dir |-> P.dir, table |-> P.table, content |-> P.content, panic |-> P.panic]
  BY DEF Fields
<1>2. N = [P EXCEPT !.phys[old] = @ - 1, !.content[f] = x]
  BY DEF CowEnd
<1>3. [ph EXCEPT ![old] = @ - 1] = Fewer(ph, {old})
  <2>1. \A i \in Frames : [ph EXCEPT ![old] = @ - 1][i] = Fewer(ph, {old})[i]
    BY DEF Fewer
  <2> QED BY <2>1 DEF Fewer
<1> HIDE DEF N
<1>4. N = [phys |-> [ph EXCEPT ![old] = @ - 1], dir |-> P.dir, table |-> P.table,
           content |-> [P.content EXCEPT ![f] = x], panic |-> P.panic]
  BY <1>1, <1>2
<1>5. /\ Fields(N) /\ N.phys = OneLess(ph, old) /\ N.dir = P.dir /\ N.table = P.table
      /\ N.content = Stored(P.content, f, x) /\ N.panic = P.panic
  BY <1>3, <1>4 DEF Fields, OneLess, Stored
<1> QED BY <1>5 DEF N

LEMMA PageReplacedIn ==
  ASSUME NEW M, NEW Y, NEW V, Good(M, Y, V), NEW f \in Y, f # V, NEW d \in DOMAIN M.dir,
         NEW a \in Cells, NEW old, old = Maps(M)[d][a], old # NoFrame, old # V
  PROVE  /\ Counted(Replaced(Maps(M), d, a, f), OneLess(Single(M.phys, f), old), Less(Held(M, Y), f), V)
         /\ old \in Frames /\ old # f /\ M.phys[old] > 0 /\ f \in Frames /\ M.phys[f] = KERNEL
<1> DEFINE w == Maps(M)
           O == Held(M, Y)
           ph == M.phys
<1>1. Counted(w, ph, O, V) /\ Shape(M.dir, M.table)
  BY DEF Good
<1>2. f \in O
  BY DEF Held
<1>3. d \in DOMAIN w
  BY <1>1, FlatFacts DEF Maps
<1>4. w[d][a] \notin {NoFrame, V}
  OBVIOUS
<1> HIDE DEF w, O, ph
<1>5. /\ Counted(Replaced(w, d, a, f), OneLess(Single(ph, f), w[d][a]), Less(O, f), V)
      /\ w[d][a] \in Frames /\ w[d][a] # f /\ ph[w[d][a]] > 0 /\ f \in Frames /\ ph[f] = KERNEL
  BY <1>1, <1>2, <1>3, <1>4, PageReplaced
<1> QED BY <1>5 DEF w, O, ph

LEMMA CowMade ==
  ASSUME NEW J, NEW X, NEW V, NEW f, NEW Y, Y = X \union {f}, Good(J, Y, V),
         f \notin X, f # V, f # NoFrame, V \in X \union {Screen}, NEW d \in DOMAIN J.dir,
         NEW a \in Mapped(J, d), Maps(J)[d][a] # V,
         NEW e \in Entries, e.frame = f, e.large <=> a[1] \in LargeIn(J, d),
         e.large => f \in BigFrame, NEW x \in Values, NEW L, Twin(L, J, f),
         NEW old, old = Maps(J)[d][a], NEW N, N = CowDone(L, d, a, e, old, f, x)
  PROVE  Rewritten(J, N, d, a, X, V)
<1> DEFINE P == SetEntry(L, d, a, e)
           ph == Single(J.phys, f)
           u == Replaced(Maps(J), d, a, f)
<1>1. /\ L.dir = J.dir /\ L.table = J.table /\ L.content = J.content /\ L.panic = J.panic
      /\ L.phys = ph /\ Fields(L)
  BY DEF Twin, Single
<1>2. Shape(J.dir, J.table) /\ Split(J.phys) /\ Counted(Maps(J), J.phys, Held(J, Y), V)
  BY DEF Good
<1>3. DOMAIN J.dir \intersect DOMAIN J.table = {} /\ Y \intersect (DOMAIN J.dir \union DOMAIN J.table) = {}
  BY DEF Good
<1>4. J.content \in [Frames -> Values]
  BY DEF Good
<1>5. J.phys \in [Frames -> Int]
  BY <1>2 DEF Counted
<1>6. a \in Cells /\ old # NoFrame /\ DOMAIN Maps(J) = DOMAIN J.dir
  BY <1>2, MappedFacts, FlatFacts DEF Maps
<1>8. /\ Counted(u, OneLess(ph, old), Less(Held(J, Y), f), V)
      /\ old \in Frames /\ old # f /\ J.phys[old] > 0 /\ J.phys[f] = KERNEL
  <2>1. f \in Y /\ a \in Cells /\ old # NoFrame /\ old # V
    BY <1>6
  <2> QED BY <2>1, PageReplacedIn
<1> HIDE DEF u, ph
<1>9. ph \in [Frames -> Int]
  BY <1>5 DEF ph, Single, Given
<1>10. Shape(L.dir, L.table) /\ Maps(L) = Maps(J) /\ DOMAIN L.dir = DOMAIN J.dir
  BY <1>1, <1>2 DEF Maps
<1>11. LargeIn(L, d) = LargeIn(J, d) /\ SameLarge(J, L)
  BY <1>1 DEF LargeIn, SameLarge
<1>12. a \in Mapped(L, d)
  BY <1>6, <1>10, MappedFacts
<1>13. /\ Fields(P) /\ P.phys = ph /\ P.content = J.content /\ P.panic = J.panic
       /\ Shape(P.dir, P.table) /\ Maps(P) = u
       /\ DOMAIN P.dir = DOMAIN J.dir /\ DOMAIN P.table = DOMAIN J.table /\ SameLarge(L, P)
  <2>1. d \in DOMAIN L.dir /\ e.frame # NoFrame /\ (e.large => e.frame \in BigFrame) /\ Fields(L)
        /\ (e.large <=> a[1] \in LargeIn(L, d)) /\ Shape(L.dir, L.table)
    BY <1>1, <1>10, <1>11
  <2>2. /\ Fields(P) /\ P.phys = L.phys /\ P.content = L.content /\ P.panic = L.panic
        /\ Shape(P.dir, P.table) /\ Maps(P) = Replaced(Maps(L), d, a, e.frame)
        /\ DOMAIN P.dir = DOMAIN L.dir /\ DOMAIN P.table = DOMAIN L.table /\ SameLarge(L, P)
    BY <1>12, <2>1, SetEntryFacts
  <2> HIDE DEF P
  <2> QED BY <1>1, <1>10, <2>2 DEF u
<1>14. /\ Fields(N) /\ N.phys = OneLess(ph, old) /\ N.dir = P.dir /\ N.table = P.table
       /\ N.content = Stored(P.content, f, x) /\ N.panic = P.panic
  <2>1. old \in Frames
    BY <1>8
  <2>2. Fields(P) /\ P.phys = ph /\ N = CowEnd(P, old, f, x)
    BY <1>13 DEF CowDone
  <2> HIDE DEF P
  <2> QED BY <1>9, <2>1, <2>2, CowRecord
<1> HIDE DEF P
<1>15. Split(N.phys)
  <2>1. ASSUME NEW i \in Frames
        PROVE  (InUse(N.phys[i]) => InUse(J.phys[i])) /\ (J.phys[i] = UNUSED => N.phys[i] = UNUSED)
    BY <1>5, <1>8, <1>14 DEF Fewer, Given, InUse, KERNEL, UNUSED, ph, OneLess, Single
  <2>2. SameUse(J.phys, N.phys)
    BY <2>1 DEF SameUse
  <2> QED BY <1>2, <2>2, SplitSame
<1>16. Held(N, X) = Less(Held(J, Y), f)
  <2>1. f \notin DOMAIN J.dir /\ f \notin DOMAIN J.table /\ f \notin X
    BY <1>3
  <2> QED BY <1>13, <1>14, <2>1 DEF Held, Less
<1>17. Maps(N) = u
  BY <1>13, <1>14 DEF Maps
<1>18. N.content \in [Frames -> Values]
  <2>1. N.content = [J.content EXCEPT ![f] = x]
    BY <1>13, <1>14 DEF Stored
  <2> QED BY <1>4, <2>1
<1>19. DOMAIN N.dir = DOMAIN J.dir /\ DOMAIN N.table = DOMAIN J.table /\ Shape(N.dir, N.table)
  BY <1>13, <1>14
<1>20. /\ DOMAIN N.dir \intersect DOMAIN N.table = {}
       /\ X \intersect (DOMAIN N.dir \union DOMAIN N.table) = {}
  BY <1>3, <1>19
<1>21. Counted(Maps(N), N.phys, Held(N, X), V)
  BY <1>8, <1>14, <1>16, <1>17
<1>22. Good(N, X, V)
  BY <1>14, <1>15, <1>18, <1>19, <1>20, <1>21 DEF Good
<1>23. SameLarge(J, N)
  BY <1>11, <1>13, <1>14, <1>10 DEF SameLarge, LargeIn
<1> QED BY <1>6, <1>13, <1>14, <1>17, <1>19, <1>22, <1>23 DEF Rewritten, u

\* A free frame of the size, room for the copy, and what becomes of it.
FreeOf(M, big) == IF big THEN FreeLarge(M) ELSE FreeSmall(M)
TempWith(M, d, big, f) == Temp(Mark(M, {f}, 1), d, big)
CowResult(M, L, N, d, a, X, V) ==
  IF L.panic # "no" THEN GaveUp(M, L) ELSE Rewritten(M, N, d, a, X, V)

LEMMA CowCopied ==
  ASSUME NEW M, NEW X, NEW V, Good(M, X, V), NEW d \in DOMAIN M.dir, Spared(M, d),
         M.panic = "no", NEW a \in Mapped(M, d), Maps(M)[d][a] # V, NEW big \in BOOLEAN,
         big <=> a[1] \in LargeIn(M, d),
         NEW f \in FreeOf(M, big),
         NEW e \in Entries, e.frame = f, e.large = big, NEW x \in Values,
         NEW L, L = TempWith(M, d, big, f),
         NEW N, N = CowDone(L, d, a, e, Maps(M)[d][a], f, x)
  PROVE  CowResult(M, L, N, d, a, X, V)
<1> DEFINE K == Mark(M, {f}, KERNEL)
           J == Temp(K, d, big)
           old == Maps(M)[d][a]
           Y == X \union {f}
<1>1. f \in FreeSmall(M) \union FreeLarge(M)
  BY DEF FreeOf
<1>2. /\ Good(K, Y, V) /\ f # V /\ f \in Frames /\ f \notin Held(M, X) /\ Usable(f)
      /\ Split(Given(M.phys, {f}, 1))
  BY <1>1, OwnedFrame
<1>3. Fields(M) /\ Shape(M.dir, M.table)
  BY DEF Good
<1>4. Twin(Mark(M, {f}, 1), K, f)
  BY <1>2, <1>3, TwinOf
<1>5. Twin(L, J, f)
  BY <1>4, TwinTemp DEF Temp, TempWith
<1>6. K.dir = M.dir /\ K.table = M.table /\ K.content = M.content /\ K.panic = "no"
      /\ K.phys = Given(M.phys, {f}, KERNEL) /\ Fields(K)
  BY <1>3, MarkFacts
<1>7. Spared(K, d) /\ Maps(K) = Maps(M)
  BY <1>6, SparedSame DEF Maps
<1>8. a \in Cells /\ old # NoFrame /\ old # V
  BY <1>3, MappedFacts
<1>9. f # NoFrame
  BY <1>2, UsableFacts
<1> HIDE DEF K, J, old, Y
<1>10. \/ J = Panics(K, "oom")
       \/ /\ Good(J, Y, V) /\ Maps(J) = Maps(K) /\ DOMAIN J.dir = DOMAIN K.dir
          /\ J.panic = K.panic /\ J.content = K.content /\ SameLarge(K, J)
  BY <1>2, <1>6, <1>7, TempFacts DEF J
<1>11. /\ L.dir = J.dir /\ L.table = J.table /\ L.content = J.content /\ L.panic = J.panic
       /\ L.phys = Given(J.phys, {f}, 1) /\ Fields(L)
  BY <1>5 DEF Twin
<1>12. CASE J = Panics(K, "oom")
  <2>1. /\ J.phys = K.phys /\ J.dir = K.dir /\ J.table = K.table /\ J.content = K.content
        /\ J.panic = "oom"
    BY <1>6, <1>12, PanicsFacts
  <2>2. L.phys = Given(M.phys, {f}, 1)
    BY <1>6, <1>11, <2>1 DEF Given
  <2>3. GaveUp(M, L)
    BY <1>2, <1>3, <1>6, <1>11, <2>1, <2>2 DEF GaveUp
  <2> QED BY <1>11, <2>1, <2>3 DEF CowResult
<1>13. CASE /\ Good(J, Y, V) /\ Maps(J) = Maps(K) /\ DOMAIN J.dir = DOMAIN K.dir
            /\ J.panic = K.panic /\ J.content = K.content /\ SameLarge(K, J)
  <2>1. /\ Good(J, Y, V) /\ Maps(J) = Maps(M) /\ DOMAIN J.dir = DOMAIN M.dir /\ J.panic = "no"
    BY <1>6, <1>7, <1>13
  <2>2. SameLarge(M, J)
    BY <1>6, <1>13 DEF SameLarge, LargeIn
  <2>3. Shape(J.dir, J.table)
    BY <2>1 DEF Good
  <2>4. a \in Mapped(J, d)
    BY <1>8, <2>1, <2>3, MappedFacts DEF old
  <2>5. e.large <=> a[1] \in LargeIn(J, d)
    BY <2>2 DEF SameLarge
  <2>6. e.large => f \in BigFrame
    <3>1. e.large => f \in LargeFrame
      BY FreeLargeFacts DEF FreeOf
    <3>2. f # Screen
      BY <1>2, NumberFacts
    <3> QED BY <3>1, <3>2 DEF BigFrame
  <2>7. f \notin X /\ V \in X \union {Screen}
    BY <1>2 DEF Held, Good
  <2>8. Maps(J)[d][a] = old /\ Maps(J)[d][a] # V /\ d \in DOMAIN J.dir /\ Y = X \union {f}
    BY <1>8, <2>1 DEF old, Y
  <2>9. N = CowDone(L, d, a, e, old, f, x)
    BY DEF old
  <2>10. Rewritten(J, N, d, a, X, V)
    BY <1>2, <1>5, <1>9, <2>1, <2>4, <2>5, <2>6, <2>7, <2>8, <2>9, CowMade
  <2>11. Rewritten(M, N, d, a, X, V)
    BY <2>1, <2>2, <2>10 DEF Rewritten, SameLarge
  <2> QED BY <1>11, <2>1, <2>11 DEF CowResult
<1> QED BY <1>10, <1>12, <1>13

\* The flags of the entry at a change.
LEMMA Reflagged ==
  ASSUME NEW M, NEW X, NEW V, Good(M, X, V), NEW d \in DOMAIN M.dir, NEW a \in Mapped(M, d),
         Maps(M)[d][a] # V, NEW e \in Entries, e.frame = Maps(M)[d][a],
         e.large <=> a[1] \in LargeIn(M, d), e.large => e.frame \in BigFrame,
         NEW N, N = SetEntry(M, d, a, e)
  PROVE  /\ Rewritten(M, N, d, a, X, V) /\ Good(N, X, V) /\ Maps(N) = Maps(M)
         /\ N.phys = M.phys /\ N.content = M.content /\ N.panic = M.panic
         /\ DOMAIN N.dir = DOMAIN M.dir /\ DOMAIN N.table = DOMAIN M.table /\ SameLarge(M, N)
<1>1. /\ Fields(M) /\ Shape(M.dir, M.table) /\ Split(M.phys)
      /\ Counted(Maps(M), M.phys, Held(M, X), V)
  BY DEF Good
<1>2. a \in Cells /\ Maps(M)[d][a] # NoFrame /\ Maps(M) \in [DOMAIN M.dir -> Rows]
  BY <1>1, MappedFacts, FlatFacts DEF Maps
<1>3. /\ Fields(N) /\ N.phys = M.phys /\ N.content = M.content /\ N.panic = M.panic
      /\ Shape(N.dir, N.table) /\ Maps(N) = Replaced(Maps(M), d, a, e.frame)
      /\ DOMAIN N.dir = DOMAIN M.dir /\ DOMAIN N.table = DOMAIN M.table /\ SameLarge(M, N)
  BY <1>1, <1>2, SetEntryFacts
<1>4. Replaced(Maps(M), d, a, e.frame) = Maps(M)
  BY <1>2 DEF Replaced, RowSet, Rows
<1>5. Held(N, X) = Held(M, X)
  BY <1>3 DEF Held
<1>6. Counted(Maps(N), N.phys, Held(N, X), V)
  BY <1>1, <1>3, <1>4, <1>5
<1>7. /\ DOMAIN M.dir \intersect DOMAIN M.table = {}
      /\ X \intersect (DOMAIN M.dir \union DOMAIN M.table) = {}
      /\ V \in X \union {Screen} /\ M.content \in [Frames -> Values]
  BY DEF Good
<1>8. Good(N, X, V)
  BY <1>1, <1>3, <1>6, <1>7 DEF Good
<1>9. e.frame \notin {NoFrame, V}
  BY <1>2
<1>10. Rewritten(M, N, d, a, X, V)
  BY <1>2, <1>3, <1>8, <1>9 DEF Rewritten
<1> QED BY <1>3, <1>4, <1>8, <1>10

LEMMA RoomSame ==
  ASSUME NEW M, Shape(M.dir, M.table), NEW d \in DOMAIN M.dir, NEW K, Shape(K.dir, K.table),
         DOMAIN K.dir = DOMAIN M.dir, Maps(K) = Maps(M), LargeIn(K, d) = LargeIn(M, d)
  PROVE  Room(M, d) = Room(K, d)
<1>1. Room(M, d) = RoomOf(Maps(M)[d], LargeIn(M, d))
  BY RoomFacts
<1>2. Room(K, d) = RoomOf(Maps(K)[d], LargeIn(K, d))
  BY RoomFacts
<1> QED BY <1>1, <1>2

LEMMA SparedAs ==
  ASSUME NEW M, NEW K, NEW d, Room(M, d) = Room(K, d), LargeIn(M, d) = LargeIn(K, d)
  PROVE  Spared(M, d) => Spared(K, d)
BY DEF Spared

\* What a copy on write can do: nothing, the entry rewritten, or giving up.
CowDid(M, c, d, a, X, V) ==
  /\ c.ok \in BOOLEAN
  /\ \/ ~c.ok /\ c.M = M
     \/ Rewritten(M, c.M, d, a, X, V)
     \/ ~c.ok /\ GaveUp(M, c.M)

LEMMA CowResults ==
  ASSUME NEW M, NEW N, NEW d, NEW a, NEW X, NEW V
  PROVE  /\ CowDid(M, [ok |-> FALSE, M |-> M], d, a, X, V)
         /\ Rewritten(M, N, d, a, X, V) => /\ CowDid(M, [ok |-> TRUE, M |-> N], d, a, X, V)
                                          /\ CowDid(M, [ok |-> FALSE, M |-> N], d, a, X, V)
         /\ GaveUp(M, N) => CowDid(M, [ok |-> FALSE, M |-> N], d, a, X, V)
BY DEF CowDid

LEMMA CloneCowFacts ==
  ASSUME NEW M, NEW X, NEW V, Good(M, X, V), NEW d \in DOMAIN M.dir, Spared(M, d),
         M.panic = "no", NEW a \in Cells, Maps(M)[d][a] # V, Entry(M, d, a).large => a[2] = 0,
         NEW c, c = CloneCow(M, d, a)
  PROVE  CowDid(M, c, d, a, X, V)
<1> DEFINE e    == Entry(M, d, a)
           e1   == [e EXCEPT !.rw = TRUE, !.cow = FALSE]
           M1   == SetEntry(M, d, a, e1)
           big  == e.large
           free == IF big THEN FreeLarge(M) ELSE FreeSmall(M)
           f    == Min(free)
           e4   == [e EXCEPT !.frame = f, !.rw = TRUE, !.cow = FALSE]
           x    == M.content[e.frame]
           L    == Temp(Mark(M1, {f}, 1), d, big)
           N    == CowDone(L, d, a, e4, e.frame, f, x)
<1>1. c = IF e.frame = NoFrame \/ e.rw \/ ~e.cow THEN [ok |-> FALSE, M |-> M]
          ELSE IF ~StillShared(M, e.frame) THEN [ok |-> TRUE, M |-> M1]
          ELSE IF free = {} THEN [ok |-> FALSE, M |-> M1]
          ELSE IF L.panic # "no" THEN [ok |-> FALSE, M |-> L]
          ELSE [ok |-> TRUE, M |-> N]
  BY DEF CloneCow, CowDone, CowEnd, Temp
<1>2. Shape(M.dir, M.table) /\ M.content \in [Frames -> Values]
  BY DEF Good
<1>3. CASE e.frame = NoFrame
  <2> HIDE DEF e, M1, free, L, N
  <2>1. c = [ok |-> FALSE, M |-> M]
    BY <1>1, <1>3
  <2> QED BY <2>1, CowResults
<1>4. CASE e.frame # NoFrame
  <2>1. /\ a \in Mapped(M, d) /\ e \in Entries /\ (big <=> a[1] \in LargeIn(M, d))
        /\ (big => e.frame \in BigFrame) /\ Maps(M)[d][a] = e.frame
    BY <1>2, <1>4, EntryShape
  <2>2. e.frame \in Frames /\ big \in BOOLEAN /\ x \in Values
    <3>1. e.frame \in Frames /\ big \in BOOLEAN
      BY <1>4, <2>1, EntryFacts
    <3> HIDE DEF e, big
    <3> QED BY <1>2, <3>1
  <2>3. e1 \in Entries /\ e1.frame = e.frame /\ e1.large = big
    <3> HIDE DEF e
    <3> QED BY <2>1 DEF Entries
  <2> HIDE DEF e, e1
  <2>4. /\ Rewritten(M, M1, d, a, X, V) /\ Good(M1, X, V) /\ Maps(M1) = Maps(M)
        /\ M1.phys = M.phys /\ M1.content = M.content /\ M1.panic = M.panic
        /\ DOMAIN M1.dir = DOMAIN M.dir /\ DOMAIN M1.table = DOMAIN M.table /\ SameLarge(M, M1)
    <3> HIDE DEF big
    <3> QED BY <2>1, <2>3, Reflagged
  <2>5. ASSUME free # {}
        PROVE  IF L.panic # "no" THEN GaveUp(M, L) ELSE Rewritten(M, N, d, a, X, V)
    <3>1. FreeLarge(M1) = FreeLarge(M) /\ FreeSmall(M1) = FreeSmall(M)
      BY <2>4 DEF FreeLarge, FreeSmall
    <3>2. f \in free /\ f \in Frames
      BY <2>5, FreeSmallFacts, FreeLargeFacts
    <3>3. f \in IF big THEN FreeLarge(M1) ELSE FreeSmall(M1)
      BY <3>1, <3>2
    <3>4. e4 \in Entries /\ e4.frame = f /\ e4.large = big
      <4> HIDE DEF f
      <4> QED BY <2>1, <3>2 DEF Entries
    <3>5. Spared(M1, d)
      <4>1. Shape(M1.dir, M1.table) /\ LargeIn(M1, d) = LargeIn(M, d)
        BY <2>4 DEF Good, SameLarge
      <4>2. Room(M1, d) = Room(M, d)
        BY <1>2, <2>4, <4>1, RoomSame
      <4> HIDE DEF M1
      <4> QED BY <4>1, <4>2, SparedAs
    <3> HIDE DEF e4, f, big, x
    <3>6. Shape(M1.dir, M1.table)
      BY <2>4 DEF Good
    <3> DEFINE K == M1
    <3> HIDE DEF K
    <3>7. a \in Mapped(K, d)
      BY <1>4, <2>1, <2>4, <3>6, MappedFacts DEF K
    <3>9. CowResult(K, L, N, d, a, X, V)
      <4>1. LargeIn(K, d) = LargeIn(M, d)
        BY <2>4 DEF SameLarge, K
      <4>2. d \in DOMAIN K.dir /\ K.panic = "no"
        BY <2>4 DEF K
      <4>3. Maps(K)[d][a] # V
        BY <2>4 DEF K
      <4>4. big <=> a[1] \in LargeIn(K, d)
        BY <2>1, <4>1
      <4>5. f \in FreeOf(K, big)
        BY <3>3 DEF K, FreeOf
      <4>6. Good(K, X, V) /\ Spared(K, d)
        BY <2>4, <3>5 DEF K
      <4>7. L = TempWith(K, d, big, f)
        BY DEF K, L, TempWith
      <4>8. Maps(K)[d][a] = e.frame
        BY <2>1, <2>4 DEF K
      <4>9. N = CowDone(L, d, a, e4, Maps(K)[d][a], f, x)
        BY <4>8 DEF N
      <4> HIDE DEF L, N
      <4>10. big \in BOOLEAN /\ x \in Values
        BY <2>1, <2>2
      <4> QED BY <3>4, <3>7, <4>2, <4>3, <4>4, <4>5, <4>6, <4>7, <4>9, <4>10, CowCopied
    <3>10. GaveUp(K, L) => GaveUp(M, L)
      BY <2>4 DEF GaveUp, K
    <3>11. Rewritten(K, N, d, a, X, V) => Rewritten(M, N, d, a, X, V)
      BY <2>4 DEF Rewritten, SameLarge, K
    <3> QED BY <3>9, <3>10, <3>11 DEF CowResult
  <2>6. Rewritten(M, M1, d, a, X, V)
    BY <2>4
  <2> HIDE DEF M1, free, L, N
  <2>7. \/ c = [ok |-> FALSE, M |-> M]
        \/ c = [ok |-> TRUE, M |-> M1] \/ c = [ok |-> FALSE, M |-> M1]
        \/ free # {} /\ L.panic # "no" /\ c = [ok |-> FALSE, M |-> L]
        \/ free # {} /\ L.panic = "no" /\ c = [ok |-> TRUE, M |-> N]
    BY <1>1
  <2>8. CASE c = [ok |-> FALSE, M |-> M]
    BY <2>8, CowResults
  <2>9. CASE c = [ok |-> TRUE, M |-> M1] \/ c = [ok |-> FALSE, M |-> M1]
    BY <2>6, <2>9, CowResults
  <2>10. CASE free # {} /\ L.panic # "no" /\ c = [ok |-> FALSE, M |-> L]
    <3>1. GaveUp(M, L)
      BY <2>5, <2>10
    <3> QED BY <2>10, <3>1, CowResults
  <2>11. CASE free # {} /\ L.panic = "no" /\ c = [ok |-> TRUE, M |-> N]
    <3>1. Rewritten(M, N, d, a, X, V)
      BY <2>5, <2>11
    <3> QED BY <2>11, <3>1, CowResults
  <2> QED BY <2>7, <2>8, <2>9, <2>10, <2>11
<1> QED BY <1>3, <1>4

-----------------------------------------------------------------------------
(* The inductive invariant, of a memory M and the other variables: m for mm, s
   for mms, vids for vidmaps, V for video, H for heap, sub for subsystem, act
   for doing, prog for program and b for births. *)

\* The kernel's frames but for the directories and the tables.
KeptOf(H, V) == H \union ({V} \ {Screen})

\* The screen is where the vidmaps are, all of them living tasks'; and they are few.
VidOK(w, V, vids, m, sub, act) ==
  /\ \A d \in DOMAIN w : \A a \in Cells : w[d][a] = V <=> \E t \in Tasks : <<t, d, a>> \in vids
  /\ \A x \in vids : m[x[1]] = x[2] /\ sub[x[1]] = "ECE391" /\ act[x[1]] \in {User, Doomed}
  /\ IsFiniteSet(vids) /\ Cardinality(vids) <= MaxVidmaps

TasksOf(m, d) == {t \in Tasks : m[t] = d}

\* Only Linux tasks share a directory; an mm_struct counts the tasks that do.
TaskOK(m, s, sub, act) ==
  /\ \A t, u \in Tasks : t # u /\ m[t] = m[u] /\ m[t] # NoFrame => sub[t] = "LINUX"
  /\ \A d \in DOMAIN s : s[d].refcount = Cardinality(TasksOf(m, d))
  /\ \A t \in Tasks : m[t] = NoFrame => act[t] = User

\* The directory entry where programs have nothing.
IsSpare(s) ==
  /\ s \in UserSlots
  /\ \A sub \in Subsystems : s >= Preallocated /\ s \notin SmallSlots(sub) /\ \A l \in LargeSlots(sub) : s < l

Spare == CHOOSE s : IsSpare(s)

\* How the pages of a task lie in memory.
LayOf(M, V, d, s, u, act, prog) ==
  /\ LargeIn(M, d) \subseteq LargeSlots(u)
  /\ \A p \in Pages : Maps(M)[d][<<Spare, p>>] \in {NoFrame, V}
  /\ u = "LINUX" => s[d].brk \in {0} \union BreaksOf("LINUX")
  /\ (\E k \in Nat : act = Load(k)) => \E q \in Programs : q.subsystem = u /\ prog = q.segments

LayOK(M, V, m, s, sub, act, prog) ==
  \A t \in Tasks : m[t] # NoFrame => LayOf(M, V, m[t], s, sub[t], act[t], prog[t])

Whole(M, m, s, vids, V, H, sub, act, prog) ==
  /\ Good(M, KeptOf(H, V), V) /\ V \notin H /\ V \in SmallFrame \union {Screen}
  /\ VidOK(Maps(M), V, vids, m, sub, act)
  /\ TaskOK(m, s, sub, act)
  /\ LayOK(M, V, m, s, sub, act, prog)

PhysTypes(M) ==
  /\ M.phys \in [Frames -> -2 .. Cardinality(Tasks)]
  /\ \A d \in DOMAIN M.dir : d \in SmallFrame /\ M.dir[d] \in [UserSlots -> Entries]
  /\ \A f \in DOMAIN M.table : f \in SmallFrame /\ M.table[f] \in [Pages -> Entries]
  /\ M.content \in [Frames -> Values]
  /\ M.panic \in {"no", "oom", "screen"}

ActOK(a, prog) ==
  \/ a \in {User, Thread, Doomed} \union {Wait(c) : c \in Tasks}
  \/ \E k \in DOMAIN prog : a = Load(k)

TaskTypes(D, m, s, vids, V, H, sub, act, prog, b) ==
  /\ m \in [Tasks -> D \union {NoFrame}]
  /\ DOMAIN s = D
  /\ \A d \in DOMAIN s : s[d] \in [refcount : 1 .. Cardinality(Tasks), brk : Nat]
  /\ \A x \in vids : x \in Tasks \X D \X Cells
  /\ V \in Frames /\ H \in SUBSET Frames
  /\ sub \in [Tasks -> Subsystems]
  /\ act = [t \in Tasks |-> act[t]] /\ \A t \in Tasks : ActOK(act[t], prog[t])
  /\ prog \in [Tasks -> {q.segments : q \in Programs} \union {<< >>}]
  /\ b \in 0 .. MaxBirths

\* A task that has a vidmap waits in execute.
Shows(vids, act) == \E x \in vids, c \in Tasks : act[x[1]] = Wait(c)

Sound(M, m, s, vids, V, H, sub, act, prog, b) ==
  /\ PhysTypes(M) /\ Split(M.phys) /\ Fields(M)
  /\ M.panic = "screen" => Shows(vids, act)
  /\ TaskTypes(DOMAIN M.dir, m, s, vids, V, H, sub, act, prog, b)
  /\ M.panic = "no" => Whole(M, m, s, vids, V, H, sub, act, prog)

MemoryInv == Sound(Now, mm, mms, vidmaps, video, heap, subsystem, doing, program, births)

LEMMA SpareFacts ==
  /\ Spare \in UserSlots /\ Spare >= Preallocated /\ Spare \in Nat
  /\ \A sub \in Subsystems : Spare \notin SmallSlots(sub) /\ \A l \in LargeSlots(sub) : Spare < l
<1>1. \E s : IsSpare(s)
  BY LayoutAssumption DEF IsSpare
<1>2. IsSpare(Spare)
  BY <1>1 DEF Spare
<1>3. "LINUX" \in Subsystems
  BY DEF Subsystems
<1>4. UserSlots \subseteq Nat
  BY MemoryAssumption
<1> QED BY <1>2, <1>3, <1>4 DEF IsSpare

LEMMA ActFacts ==
  /\ User # Thread /\ User # Doomed /\ Thread # Doomed
  /\ \A c : Wait(c) # User /\ Wait(c) # Thread /\ Wait(c) # Doomed
  /\ \A k : Load(k) # User /\ Load(k) # Thread /\ Load(k) # Doomed
  /\ \A c, k : Wait(c) # Load(k)
  /\ \A k, l : Load(k) = Load(l) => k = l
BY DEF User, Thread, Doomed, Wait, Load

LEMMA TasksOfFacts ==
  ASSUME NEW m, NEW d
  PROVE  /\ IsFiniteSet(TasksOf(m, d)) /\ TasksOf(m, d) \in SUBSET Tasks
         /\ Cardinality(TasksOf(m, d)) \in Nat
         /\ Cardinality(TasksOf(m, d)) <= Cardinality(Tasks) /\ Cardinality(Tasks) \in Nat
         /\ Cardinality(TasksOf(m, d)) = 0 <=> TasksOf(m, d) = {}
<1>1. IsFiniteSet(Tasks) /\ TasksOf(m, d) \in SUBSET Tasks
  BY MemoryAssumption DEF TasksOf
<1>2. IsFiniteSet(TasksOf(m, d)) /\ Cardinality(TasksOf(m, d)) <= Cardinality(Tasks)
  BY <1>1, FS_Subset
<1> QED BY <1>1, <1>2, FS_CardinalityType, FS_EmptySet

Moved(m, t, x) == [m EXCEPT ![t] = x]

\* A task goes from one directory to another.
LEMMA TaskMoved ==
  ASSUME NEW D, NEW m \in [Tasks -> D], NEW t \in Tasks, NEW x, x # m[t],
         NEW n, n = Moved(m, t, x)
  PROVE  /\ Cardinality(TasksOf(n, m[t])) = Cardinality(TasksOf(m, m[t])) - 1
         /\ Cardinality(TasksOf(n, x)) = Cardinality(TasksOf(m, x)) + 1
         /\ \A d : d # m[t] /\ d # x => TasksOf(n, d) = TasksOf(m, d)
<1>1. n[t] = x /\ \A u \in Tasks : u # t => n[u] = m[u]
  BY DEF Moved
<1>2. TasksOf(n, m[t]) = TasksOf(m, m[t]) \ {t}
  BY <1>1 DEF TasksOf
<1>3. TasksOf(n, x) = TasksOf(m, x) \union {t}
  BY <1>1 DEF TasksOf
<1>4. \A d : d # m[t] /\ d # x => TasksOf(n, d) = TasksOf(m, d)
  BY <1>1 DEF TasksOf
<1>5. t \in TasksOf(m, m[t]) /\ t \notin TasksOf(m, x)
  BY DEF TasksOf
<1>6. Cardinality(TasksOf(m, m[t]) \ {t}) = Cardinality(TasksOf(m, m[t])) - 1
  BY <1>5, TasksOfFacts, FS_RemoveElement
<1>7. Cardinality(TasksOf(m, x) \union {t}) = Cardinality(TasksOf(m, x)) + 1
  BY <1>5, TasksOfFacts, FS_AddElement
<1> QED BY <1>2, <1>3, <1>4, <1>6, <1>7

\* There are no more directories than tasks.
LEMMA DirsFew ==
  ASSUME NEW m, NEW s, \A d \in DOMAIN s : TasksOf(m, d) # {}
  PROVE  IsFiniteSet(DOMAIN s) /\ Cardinality(DOMAIN s) <= Cardinality(Tasks)
<1> DEFINE D == DOMAIN s
           T == {t \in Tasks : m[t] \in D}
           f == [t \in T |-> m[t]]
<1>1. T \in SUBSET Tasks /\ IsFiniteSet(T) /\ Cardinality(T) <= Cardinality(Tasks)
      /\ Cardinality(T) \in Nat /\ Cardinality(Tasks) \in Nat
  BY MemoryAssumption, FS_Subset, FS_CardinalityType
<1>2. f \in Surjection(T, D)
  <2>1. f \in [T -> D]
    OBVIOUS
  <2>2. \A d \in D : \E t \in T : f[t] = d
    BY DEF TasksOf
  <2> QED BY <2>1, <2>2 DEF Surjection
<1>3. IsFiniteSet(D) /\ Cardinality(D) <= Cardinality(T)
  BY <1>1, <1>2, FS_Surjection
<1>4. Cardinality(D) \in Nat
  BY <1>3, FS_CardinalityType
<1> QED BY <1>1, <1>3, <1>4

\* Who has the screen in his directory has a vidmap there.
LEMMA SeesIt ==
  ASSUME NEW w, NEW V, NEW vids, NEW m, NEW s, NEW sub, NEW act,
         VidOK(w, V, vids, m, sub, act), TaskOK(m, s, sub, act),
         NEW t \in Tasks, m[t] \in DOMAIN w, m[t] # NoFrame, NEW a \in Cells, w[m[t]][a] = V
  PROVE  \E x \in vids : /\ x = <<t, m[t], a>> /\ x[1] = t
                         /\ sub[t] = "ECE391" /\ act[t] \in {User, Doomed}
<1>1. PICK u \in Tasks : <<u, m[t], a>> \in vids
  BY DEF VidOK
<1> DEFINE x == <<u, m[t], a>>
<1>2. x \in vids /\ x[1] = u /\ x[2] = m[t]
  BY <1>1
<1> HIDE DEF x
<1>3. m[u] = m[t] /\ sub[u] = "ECE391" /\ act[u] \in {User, Doomed}
  BY <1>2 DEF VidOK
<1>4. u = t
  BY <1>3 DEF TaskOK
<1> QED BY <1>2, <1>3, <1>4 DEF x

\* Nothing of the screen is in the directory of a task without a vidmap.
LEMMA OwnRow ==
  ASSUME NEW w, NEW V, NEW vids, NEW m, NEW s, NEW sub, NEW act,
         VidOK(w, V, vids, m, sub, act), TaskOK(m, s, sub, act),
         NEW t \in Tasks, m[t] \in DOMAIN w, m[t] # NoFrame,
         sub[t] = "LINUX" \/ act[t] \notin {User, Doomed} \/ (\A x \in vids : x[1] # t)
  PROVE  \A a \in Cells : w[m[t]][a] # V
<1> SUFFICES ASSUME NEW a \in Cells, w[m[t]][a] = V
             PROVE  FALSE
  OBVIOUS
<1>1. PICK x \in vids : x[1] = t /\ sub[t] = "ECE391" /\ act[t] \in {User, Doomed}
  BY SeesIt
<1> QED BY <1>1

LEMMA SparedFacts ==
  ASSUME NEW M, NEW X, NEW V, Good(M, X, V), NEW d \in DOMAIN M.dir, NEW u \in Subsystems,
         NEW vids, NEW m, NEW sub, NEW act, VidOK(Maps(M), V, vids, m, sub, act),
         LargeIn(M, d) \subseteq LargeSlots(u),
         \A p \in Pages : Maps(M)[d][<<Spare, p>>] \in {NoFrame, V}
  PROVE  Spared(M, d)
<1> DEFINE row == Maps(M)[d]
<1>1. Shape(M.dir, M.table) /\ Counted(Maps(M), M.phys, Held(M, X), V)
  BY DEF Good
<1>2. RowOK(row, Held(M, X), V) /\ (V = Screen \/ V \in Held(M, X))
  BY <1>1, FlatFacts DEF Counted, Maps
<1>3. /\ NumEntries \in Nat /\ MaxVidmaps \in Nat /\ MaxVidmaps < NumEntries - 1
      /\ NumEntries - 2 \in Nat
  BY NumberFacts, MemoryAssumption, LayoutAssumption
<1> DEFINE P == 0 .. NumEntries - 2
<1>4. P \subseteq Pages /\ IsFiniteSet(P) /\ Cardinality(P) = NumEntries - 1
  <2> DEFINE k == NumEntries - 2
  <2>1. k \in Nat /\ k + 1 = NumEntries - 1 /\ 0 \in Int /\ k \in Int
    BY <1>3
  <2> HIDE DEF k
  <2>2. IsFiniteSet(0 .. k) /\ Cardinality(0 .. k) = k + 1
    BY <2>1, FS_Interval
  <2>3. 0 .. k \subseteq Pages
    BY <1>3, <2>1 DEF Pages, k
  <2> QED BY <2>1, <2>2, <2>3 DEF k
\* There are too few vidmaps to fill the table of that entry.
<1>7. \E p \in P : row[<<Spare, p>>] = NoFrame
  <2> SUFFICES ASSUME \A p \in P : row[<<Spare, p>>] # NoFrame
               PROVE  FALSE
    OBVIOUS
  <2> DEFINE T == {x \in vids : x[2] = d /\ x[3][2] \in P}
             g == [x \in T |-> x[3][2]]
  <2>1. IsFiniteSet(T) /\ Cardinality(T) <= Cardinality(vids)
        /\ Cardinality(vids) <= MaxVidmaps /\ Cardinality(T) \in Nat /\ Cardinality(vids) \in Nat
    BY FS_Subset, FS_CardinalityType DEF VidOK
  <2>2. \A p \in P : \E x \in T : g[x] = p
    <3> TAKE p \in P
    <3>1. row[<<Spare, p>>] = V /\ <<Spare, p>> \in Cells
      BY <1>4, SpareFacts, CellFacts
    <3>2. d \in DOMAIN Maps(M)
      BY <1>1, FlatFacts DEF Maps
    <3>3. PICK t \in Tasks : <<t, d, <<Spare, p>> >> \in vids
      BY <3>1, <3>2 DEF VidOK
    <3> DEFINE x == <<t, d, <<Spare, p>> >>
    <3>4. x \in T /\ x[3][2] = p
      BY <3>3
    <3> HIDE DEF x
    <3> QED BY <3>4
  <2>3. g \in Surjection(T, P)
    BY <2>2 DEF Surjection
  <2>4. Cardinality(P) <= Cardinality(T)
    BY <2>1, <2>3, FS_Surjection
  <2> QED BY <1>3, <1>4, <2>1, <2>4
<1>8. Spare \notin LargeIn(M, d) /\ \A l \in LargeIn(M, d) : Spare < l
  <2>1. \A l \in LargeSlots(u) : Spare < l
    BY SpareFacts
  <2>2. Spare \in Nat
    BY SpareFacts
  <2>3. ~(Spare < Spare)
    BY <2>2
  <2> QED BY <2>1, <2>3
<1> HIDE DEF row
<1>9. Spare \in RoomOf(row, LargeIn(M, d))
  BY <1>7, <1>8, SpareFacts DEF RoomOf
<1>10. Spare \in Room(M, d)
  BY <1>1, <1>9, RoomFacts DEF row
<1> QED BY <1>8, <1>10 DEF Spared

\* Counts are counts of tasks.
LEMMA GoodTypes ==
  ASSUME NEW M, NEW X, NEW V, Good(M, X, V), M.panic \in {"no", "oom"},
         Cardinality(DOMAIN M.dir) <= Cardinality(Tasks)
  PROVE  PhysTypes(M) /\ Split(M.phys) /\ Fields(M)
<1> DEFINE w == Maps(M)
           O == Held(M, X)
<1>1. /\ Shape(M.dir, M.table) /\ Counted(w, M.phys, O, V) /\ M.content \in [Frames -> Values]
      /\ Split(M.phys) /\ Fields(M)
  BY DEF Good
<1>2. DOMAIN w = DOMAIN M.dir
  BY <1>1, FlatFacts DEF Maps
<1>3. Cardinality(Tasks) \in Nat
  BY MemoryAssumption, FS_CardinalityType
<1> HIDE DEF w, O
<1>4. ASSUME NEW f \in Frames
      PROVE  M.phys[f] \in -2 .. Cardinality(Tasks)
  <2>1. M.phys[f] = IF f \in O \/ f < Preallocated THEN KERNEL
                    ELSE IF Users(w, f) = {} THEN InitPage[f] ELSE Cardinality(Users(w, f))
    BY <1>1 DEF Counted, Counts, Count
  <2>2. IsFiniteSet(DOMAIN w) /\ Cardinality(DOMAIN w) \in Nat
    BY <1>1, FS_CardinalityType DEF Counted
  <2>3. Cardinality(Users(w, f)) \in Nat /\ Cardinality(Users(w, f)) <= Cardinality(DOMAIN w)
    BY <2>2, UsersFinite
  <2>4. InitPage[f] \in {UNUSED, KERNEL, UNAVAIL}
    BY NumberFacts
  <2>5. Cardinality(Users(w, f)) \in -2 .. Cardinality(Tasks)
    BY <1>2, <1>3, <2>2, <2>3
  <2>6. InitPage[f] \in -2 .. Cardinality(Tasks) /\ KERNEL \in -2 .. Cardinality(Tasks)
    BY <1>3, <2>4, NumberFacts
  <2> QED BY <2>1, <2>5, <2>6
<1>5. M.phys \in [Frames -> -2 .. Cardinality(Tasks)]
  BY <1>1, <1>4 DEF Counted
<1>6. \A d \in DOMAIN M.dir : d \in SmallFrame /\ M.dir[d] \in [UserSlots -> Entries]
  BY <1>1 DEF Shape, DirsOK
<1>7. \A f \in DOMAIN M.table : f \in SmallFrame /\ M.table[f] \in [Pages -> Entries]
  BY <1>1 DEF Shape, TablesOK
<1> QED BY <1>1, <1>5, <1>6, <1>7 DEF PhysTypes

LEMMA DirsCounted ==
  ASSUME NEW M, NEW m, NEW s, NEW vids, NEW V, NEW H, NEW sub, NEW act, NEW prog, NEW b,
         TaskTypes(DOMAIN M.dir, m, s, vids, V, H, sub, act, prog, b), TaskOK(m, s, sub, act)
  PROVE  Cardinality(DOMAIN M.dir) <= Cardinality(Tasks)
<1>1. DOMAIN s = DOMAIN M.dir
  BY DEF TaskTypes
<1>2. ASSUME NEW d \in DOMAIN s
      PROVE  TasksOf(m, d) # {}
  <2>1. s[d].refcount \in 1 .. Cardinality(Tasks)
    BY DEF TaskTypes
  <2>2. s[d].refcount = Cardinality(TasksOf(m, d))
    BY DEF TaskOK
  <2> QED BY <2>1, <2>2, TasksOfFacts
<1> QED BY <1>1, <1>2, DirsFew

LEMMA SoundWhole ==
  ASSUME NEW M, NEW m, NEW s, NEW vids, NEW V, NEW H, NEW sub, NEW act, NEW prog, NEW b,
         TaskTypes(DOMAIN M.dir, m, s, vids, V, H, sub, act, prog, b), M.panic = "no",
         Whole(M, m, s, vids, V, H, sub, act, prog)
  PROVE  Sound(M, m, s, vids, V, H, sub, act, prog, b)
<1>1. Good(M, KeptOf(H, V), V) /\ TaskOK(m, s, sub, act)
  BY DEF Whole
<1>2. Cardinality(DOMAIN M.dir) <= Cardinality(Tasks)
  BY <1>1, DirsCounted
<1>3. PhysTypes(M) /\ Split(M.phys) /\ Fields(M)
  BY <1>1, <1>2, GoodTypes
<1> QED BY <1>3 DEF Sound

LEMMA SoundPanics ==
  ASSUME NEW K, PhysTypes(K), Split(K.phys), Fields(K), K.panic \in {"no", "oom"},
         NEW M, M = Panics(K, "oom"),
         NEW m, NEW s, NEW vids, NEW V, NEW H, NEW sub, NEW act, NEW prog, NEW b,
         TaskTypes(DOMAIN K.dir, m, s, vids, V, H, sub, act, prog, b)
  PROVE  Sound(M, m, s, vids, V, H, sub, act, prog, b)
<1>1. /\ Fields(M) /\ M.phys = K.phys /\ M.dir = K.dir /\ M.table = K.table
      /\ M.content = K.content /\ M.panic = IF K.panic = "no" THEN "oom" ELSE K.panic
  BY PanicsFacts
<1>2. M.panic = "oom"
  BY <1>1 DEF PhysTypes
<1>3. PhysTypes(M)
  BY <1>1, <1>2 DEF PhysTypes
<1> QED BY <1>1, <1>2, <1>3 DEF Sound

LEMMA SoundGaveUp ==
  ASSUME NEW K, PhysTypes(K), NEW M, GaveUp(K, M), NEW t \in Tasks,
         NEW m, NEW s, NEW vids, NEW V, NEW H, NEW sub, NEW act, NEW prog, NEW b,
         TaskTypes(DOMAIN K.dir, m, s, vids, V, H, sub, act, prog, b)
  PROVE  Sound(M, m, s, vids, V, H, sub, act, prog, b)
<1>1. /\ M.panic = "oom" /\ DOMAIN M.dir = DOMAIN K.dir /\ DOMAIN M.table = DOMAIN K.table
      /\ Fields(M) /\ Shape(M.dir, M.table) /\ Split(M.phys) /\ M.content = K.content
  BY DEF GaveUp
<1>2. M.phys \in [Frames -> -2 .. Cardinality(Tasks)]
  <2>1. PICK f \in Frames : M.phys = Given(K.phys, {f}, 1)
    BY DEF GaveUp
  <2>2. K.phys \in [Frames -> -2 .. Cardinality(Tasks)]
    BY DEF PhysTypes
  <2>3. Cardinality(Tasks) \in Nat /\ Cardinality(Tasks) # 0
    BY MemoryAssumption, FS_CardinalityType, FS_EmptySet
  <2>4. 1 \in -2 .. Cardinality(Tasks)
    BY <2>3
  <2> QED BY <2>1, <2>2, <2>4 DEF Given
<1>3. \A d \in DOMAIN M.dir : d \in SmallFrame /\ M.dir[d] \in [UserSlots -> Entries]
  BY <1>1 DEF Shape, DirsOK
<1>4. \A f \in DOMAIN M.table : f \in SmallFrame /\ M.table[f] \in [Pages -> Entries]
  BY <1>1 DEF Shape, TablesOK
<1>5. M.content \in [Frames -> Values]
  BY <1>1 DEF PhysTypes
<1>6. PhysTypes(M)
  BY <1>1, <1>2, <1>3, <1>4, <1>5 DEF PhysTypes
<1> QED BY <1>1, <1>6 DEF Sound

LEMMA NowFacts ==
  /\ Now.phys = phys /\ Now.dir = dir /\ Now.table = table /\ Now.content = content
  /\ Now.panic = panic /\ Fields(Now)
BY DEF Now, Fields

LEMMA BecomesFacts ==
  ASSUME NEW M, Fields(M), Becomes(M)
  PROVE  Now' = M
<1>1. M = [phys |-> M.phys, dir |-> M.dir, table |-> M.table, content |-> M.content, panic |-> M.panic]
  BY DEF Fields
<1>2. /\ phys' = M.phys /\ dir' = M.dir /\ table' = M.table
      /\ content' = M.content /\ panic' = M.panic
  BY DEF Becomes
<1> QED BY <1>1, <1>2 DEF Now

\* A step that leaves the screen where it is, and the directories to their tasks.
LEMMA WholeStep ==
  ASSUME NEW M, NEW m, NEW s, NEW vids, NEW V, NEW H, NEW sub, NEW act, NEW prog,
         Whole(M, m, s, vids, V, H, sub, act, prog),
         NEW N, NEW G, Good(N, KeptOf(G, V), V), V \notin G, DOMAIN N.dir = DOMAIN M.dir,
         \A d \in DOMAIN M.dir : \A a \in Cells : Maps(N)[d][a] = V <=> Maps(M)[d][a] = V,
         NEW r, DOMAIN r = DOMAIN s, \A d \in DOMAIN s : r[d].refcount = s[d].refcount,
         NEW do, \A t \in Tasks : \/ do[t] = act[t]
                                  \/ /\ m[t] # NoFrame
                                     /\ do[t] \in {User, Doomed} \/ \A x \in vids : x[1] # t,
         \A x \in vids : x[1] \in Tasks,
         NEW p, \A t \in Tasks : m[t] # NoFrame => LayOf(N, V, m[t], r, sub[t], do[t], p[t])
  PROVE  Whole(N, m, r, vids, V, G, sub, do, p)
<1>1. /\ Good(M, KeptOf(H, V), V) /\ V \in SmallFrame \union {Screen}
      /\ VidOK(Maps(M), V, vids, m, sub, act) /\ TaskOK(m, s, sub, act)
  BY DEF Whole
<1>2. Shape(M.dir, M.table) /\ Shape(N.dir, N.table)
  BY <1>1 DEF Good
<1>3. DOMAIN Maps(M) = DOMAIN M.dir /\ DOMAIN Maps(N) = DOMAIN M.dir
  BY <1>2, FlatFacts DEF Maps
<1>4. VidOK(Maps(N), V, vids, m, sub, do)
  <2>1. \A d \in DOMAIN Maps(N) : \A a \in Cells :
          Maps(N)[d][a] = V <=> \E t \in Tasks : <<t, d, a>> \in vids
    <3> TAKE d \in DOMAIN Maps(N)
    <3> TAKE a \in Cells
    <3>1. d \in DOMAIN M.dir /\ d \in DOMAIN Maps(M)
      BY <1>3
    <3>2. Maps(N)[d][a] = V <=> Maps(M)[d][a] = V
      BY <3>1
    <3>3. Maps(M)[d][a] = V <=> \E t \in Tasks : <<t, d, a>> \in vids
      BY <1>1, <3>1 DEF VidOK
    <3> QED BY <3>2, <3>3
  <2>2. \A x \in vids : m[x[1]] = x[2] /\ sub[x[1]] = "ECE391" /\ act[x[1]] \in {User, Doomed}
    BY <1>1 DEF VidOK
  <2>3. \A x \in vids : do[x[1]] \in {User, Doomed}
    BY <2>2
  <2>4. IsFiniteSet(vids) /\ Cardinality(vids) <= MaxVidmaps
    BY <1>1 DEF VidOK
  <2> QED BY <2>1, <2>2, <2>3, <2>4 DEF VidOK
<1>5. TaskOK(m, r, sub, do)
  BY <1>1 DEF TaskOK
<1>6. LayOK(N, V, m, r, sub, do, p)
  BY DEF LayOK
<1> QED BY <1>1, <1>4, <1>5, <1>6 DEF Whole

WithContent(M, f, v) == [M EXCEPT !.content[f] = v]

LEMMA StoredRecord ==
  ASSUME NEW M, Fields(M), NEW f, NEW v
  PROVE  WithContent(M, f, v)
           = [phys |-> M.phys, dir |-> M.dir, table |-> M.table, content |-> Stored(M.content, f, v),
              panic |-> M.panic]
<1> DEFINE N == WithContent(M, f, v)
           c == Stored(M.content, f, v)
<1>1. M = [phys |-> M.phys, dir |-> M.dir, table |-> M.table, content |-> M.content, panic |-> M.panic]
  BY DEF Fields
<1>2. N = [M EXCEPT !.content = c]
  BY DEF Stored, WithContent
<1> HIDE DEF N, c
<1>3. N = [phys |-> M.phys, dir |-> M.dir, table |-> M.table, content |-> c, panic |-> M.panic]
  BY <1>1, <1>2
<1> QED BY <1>3 DEF N, c

\* What programs see in a frame is nothing to the rest.
LEMMA StoredFacts ==
  ASSUME NEW M, NEW X, NEW V, Good(M, X, V), NEW f, NEW v \in Values,
         NEW N, N = WithContent(M, f, v)
  PROVE  /\ Good(N, X, V) /\ Maps(N) = Maps(M) /\ N.dir = M.dir /\ N.panic = M.panic
         /\ \A d : LargeIn(N, d) = LargeIn(M, d)
<1>1. /\ Fields(M) /\ Shape(M.dir, M.table) /\ Counted(Maps(M), M.phys, Held(M, X), V)
      /\ Split(M.phys) /\ DOMAIN M.dir \intersect DOMAIN M.table = {}
      /\ X \intersect (DOMAIN M.dir \union DOMAIN M.table) = {}
      /\ V \in X \union {Screen} /\ M.content \in [Frames -> Values]
  BY DEF Good
<1> DEFINE c == Stored(M.content, f, v)
<1>2. c \in [Frames -> Values]
  BY <1>1 DEF Stored
<1> HIDE DEF c
<1>3. N = [phys |-> M.phys, dir |-> M.dir, table |-> M.table, content |-> c, panic |-> M.panic]
  <2>1. Fields(M)
    BY <1>1
  <2> QED BY <2>1, StoredRecord DEF c
<1>4. /\ Fields(N) /\ N.phys = M.phys /\ N.dir = M.dir /\ N.table = M.table /\ N.panic = M.panic
      /\ N.content = c
  BY <1>3 DEF Fields
<1>5. N.content \in [Frames -> Values]
  BY <1>2, <1>4
<1>6. Maps(N) = Maps(M) /\ Held(N, X) = Held(M, X) /\ \A d : LargeIn(N, d) = LargeIn(M, d)
  BY <1>4 DEF Maps, Held, LargeIn
<1> QED BY <1>1, <1>4, <1>5, <1>6 DEF Good

LEMMA LaySame ==
  ASSUME NEW M, NEW V, NEW d, NEW s, NEW u, NEW a, NEW p, LayOf(M, V, d, s, u, a, p),
         NEW N, LargeIn(N, d) \subseteq LargeIn(M, d),
         \A q \in Pages : \/ Maps(N)[d][<<Spare, q>>] \in {NoFrame, V}
                          \/ Maps(N)[d][<<Spare, q>>] = Maps(M)[d][<<Spare, q>>],
         NEW b, b = a \/ b \in {User, Thread, Doomed} \/ \E c : b = Wait(c)
  PROVE  LayOf(N, V, d, s, u, b, p)
<1>1. (\E k \in Nat : b = Load(k)) => (\E k \in Nat : a = Load(k))
  BY ActFacts
<1> QED BY <1>1 DEF LayOf

LEMMA Before ==
  ASSUME NEW M, NEW m, NEW s, NEW vids, NEW V, NEW H, NEW sub, NEW act, NEW prog, NEW b,
         Sound(M, m, s, vids, V, H, sub, act, prog, b), M.panic = "no"
  PROVE  /\ Whole(M, m, s, vids, V, H, sub, act, prog) /\ Good(M, KeptOf(H, V), V) /\ Fields(M)
         /\ PhysTypes(M) /\ Split(M.phys) /\ Shape(M.dir, M.table) /\ DOMAIN Maps(M) = DOMAIN M.dir
         /\ VidOK(Maps(M), V, vids, m, sub, act) /\ TaskOK(m, s, sub, act)
         /\ LayOK(M, V, m, s, sub, act, prog)
         /\ TaskTypes(DOMAIN M.dir, m, s, vids, V, H, sub, act, prog, b)
         /\ V \notin H /\ V \in SmallFrame \union {Screen}
<1>1. /\ Whole(M, m, s, vids, V, H, sub, act, prog) /\ PhysTypes(M) /\ Split(M.phys) /\ Fields(M)
      /\ TaskTypes(DOMAIN M.dir, m, s, vids, V, H, sub, act, prog, b)
  BY DEF Sound
<1>2. /\ Good(M, KeptOf(H, V), V) /\ VidOK(Maps(M), V, vids, m, sub, act) /\ TaskOK(m, s, sub, act)
      /\ LayOK(M, V, m, s, sub, act, prog) /\ V \notin H /\ V \in SmallFrame \union {Screen}
  BY <1>1 DEF Whole
<1>3. Shape(M.dir, M.table)
  BY <1>2 DEF Good
<1>4. DOMAIN Maps(M) = DOMAIN M.dir
  BY <1>3, FlatFacts DEF Maps
<1> QED BY <1>1, <1>2, <1>3, <1>4

\* What is true of a task that has a directory.
LEMMA BeforeTask ==
  ASSUME NEW M, NEW m, NEW s, NEW vids, NEW V, NEW H, NEW sub, NEW act, NEW prog, NEW b,
         Sound(M, m, s, vids, V, H, sub, act, prog, b), M.panic = "no",
         NEW t \in Tasks, m[t] # NoFrame
  PROVE  /\ m[t] \in DOMAIN M.dir /\ m[t] \in DOMAIN s /\ m[t] \in DOMAIN Maps(M)
         /\ sub[t] \in Subsystems
         /\ LayOf(M, V, m[t], s, sub[t], act[t], prog[t]) /\ Spared(M, m[t])
         /\ s[m[t]] \in [refcount : 1 .. Cardinality(Tasks), brk : Nat]
<1>1. /\ Good(M, KeptOf(H, V), V) /\ DOMAIN Maps(M) = DOMAIN M.dir
      /\ LayOK(M, V, m, s, sub, act, prog) /\ VidOK(Maps(M), V, vids, m, sub, act)
      /\ TaskTypes(DOMAIN M.dir, m, s, vids, V, H, sub, act, prog, b)
  BY Before
<1>2. m[t] \in DOMAIN M.dir /\ m[t] \in DOMAIN s /\ sub[t] \in Subsystems
  BY <1>1 DEF TaskTypes
<1>3. s[m[t]] \in [refcount : 1 .. Cardinality(Tasks), brk : Nat]
  BY <1>1, <1>2 DEF TaskTypes
<1>4. LayOf(M, V, m[t], s, sub[t], act[t], prog[t])
  BY <1>1 DEF LayOK
<1>5. Spared(M, m[t])
  <2>1. /\ LargeIn(M, m[t]) \subseteq LargeSlots(sub[t])
        /\ \A p \in Pages : Maps(M)[m[t]][<<Spare, p>>] \in {NoFrame, V}
    BY <1>4 DEF LayOf
  <2> QED BY <1>1, <1>2, <2>1, SparedFacts
<1> QED BY <1>1, <1>2, <1>3, <1>4, <1>5

LEMMA VidTypes ==
  ASSUME NEW D, NEW m, NEW s, NEW vids, NEW V, NEW H, NEW sub, NEW act, NEW prog, NEW b,
         TaskTypes(D, m, s, vids, V, H, sub, act, prog, b), NEW x \in vids
  PROVE  x[1] \in Tasks /\ x[2] \in D /\ x[3] \in Cells /\ x = <<x[1], x[2], x[3]>>
<1>1. x \in Tasks \X D \X Cells
  BY DEF TaskTypes
<1> QED BY <1>1

Doing(act, t, x) == [act EXCEPT ![t] = x]

\* A task does something else.
LEMMA ActTypes ==
  ASSUME NEW D, NEW m, NEW s, NEW vids, NEW V, NEW H, NEW sub, NEW act, NEW prog, NEW b,
         TaskTypes(D, m, s, vids, V, H, sub, act, prog, b), NEW t \in Tasks, NEW x,
         x \in {User, Thread, Doomed} \/ (\E c \in Tasks : x = Wait(c)),
         NEW do, do = Doing(act, t, x)
  PROVE  /\ TaskTypes(D, m, s, vids, V, H, sub, do, prog, b)
         /\ do[t] = x /\ \A u \in Tasks : u # t => do[u] = act[u]
<1>1. act = [u \in Tasks |-> act[u]] /\ \A u \in Tasks : ActOK(act[u], prog[u])
  BY DEF TaskTypes
<1>2. do = [u \in Tasks |-> IF u = t THEN x ELSE act[u]]
  BY <1>1 DEF Doing
<1>3. do[t] = x /\ (\A u \in Tasks : u # t => do[u] = act[u]) /\ do = [u \in Tasks |-> do[u]]
  BY <1>2
<1>4. ActOK(x, prog[t])
  BY DEF ActOK
<1>5. \A u \in Tasks : ActOK(do[u], prog[u])
  BY <1>1, <1>3, <1>4
<1> QED BY <1>3, <1>5 DEF TaskTypes

LEMMA RewrittenWhole ==
  ASSUME NEW M, NEW m, NEW s, NEW vids, NEW V, NEW H, NEW sub, NEW act, NEW prog, NEW b,
         Sound(M, m, s, vids, V, H, sub, act, prog, b), M.panic = "no",
         NEW t \in Tasks, m[t] # NoFrame, NEW a \in Cells, Maps(M)[m[t]][a] # V,
         NEW N, Rewritten(M, N, m[t], a, KeptOf(H, V), V),
         NEW do, do[t] \in {User, Doomed}, \A u \in Tasks : u # t => do[u] = act[u]
  PROVE  Whole(N, m, s, vids, V, H, sub, do, prog) /\ DOMAIN N.dir = DOMAIN M.dir /\ N.panic = "no"
<1> DEFINE d == m[t]
           w == Maps(M)
<1>1. /\ Whole(M, m, s, vids, V, H, sub, act, prog) /\ DOMAIN w = DOMAIN M.dir
      /\ TaskTypes(DOMAIN M.dir, m, s, vids, V, H, sub, act, prog, b) /\ V \notin H
      /\ Shape(M.dir, M.table)
  BY Before
<1>2. d \in DOMAIN M.dir
  BY BeforeTask
<1> HIDE DEF d, w
<1>3. /\ Good(N, KeptOf(H, V), V) /\ DOMAIN N.dir = DOMAIN M.dir /\ N.panic = "no" /\ SameLarge(M, N)
      /\ w[d][a] # NoFrame /\ w[d][a] # V
  BY DEF Rewritten, d, w
<1>4. PICK f : f \notin {NoFrame, V} /\ Maps(N) = Replaced(w, d, a, f)
  BY DEF Rewritten, d, w
<1>5. w \in [DOMAIN M.dir -> Rows]
  BY <1>1, FlatFacts DEF w, Maps
<1>6. \A c \in DOMAIN M.dir : \A e \in Cells :
        IF c = d /\ e = a THEN Maps(N)[c][e] = f ELSE Maps(N)[c][e] = w[c][e]
  BY <1>2, <1>4, <1>5 DEF Replaced, RowSet, Rows
<1>7. \A c \in DOMAIN M.dir : \A e \in Cells : Maps(N)[c][e] = V <=> w[c][e] = V
  BY <1>3, <1>4, <1>6
<1>8. ASSUME NEW u \in Tasks, m[u] # NoFrame
      PROVE  LayOf(N, V, m[u], s, sub[u], do[u], prog[u])
  <2>1. LayOf(M, V, m[u], s, sub[u], act[u], prog[u]) /\ m[u] \in DOMAIN M.dir
    BY <1>8, BeforeTask
  <2>2. LargeIn(N, m[u]) = LargeIn(M, m[u])
    BY <1>3, <2>1 DEF SameLarge
  <2>3. ASSUME NEW q \in Pages
        PROVE  Maps(N)[m[u]][<<Spare, q>>] = Maps(M)[m[u]][<<Spare, q>>]
    <3>1. <<Spare, q>> \in Cells
      BY SpareFacts, CellFacts
    <3>2. w[m[u]][<<Spare, q>>] \in {NoFrame, V}
      BY <2>1 DEF LayOf, w
    <3>3. ~(m[u] = d /\ <<Spare, q>> = a)
      BY <1>3, <3>2
    <3> QED BY <1>6, <2>1, <3>1, <3>3 DEF w
  <2>4. do[u] = act[u] \/ do[u] \in {User, Thread, Doomed}
    BY <1>1
  <2> QED BY <2>1, <2>2, <2>3, <2>4, LaySame
<1>9. \A x \in vids : x[1] \in Tasks
  BY <1>1, VidTypes
<1>10. \A u \in Tasks : do[u] = act[u] \/ (m[u] # NoFrame /\ (do[u] \in {User, Doomed} \/ \A x \in vids : x[1] # u))
  OBVIOUS
<1>11. Whole(N, m, s, vids, V, H, sub, do, prog)
  BY <1>1, <1>3, <1>7, <1>8, <1>9, <1>10, WholeStep DEF w
<1> QED BY <1>3, <1>11

\* No page changes place.
LEMMA SameWhole ==
  ASSUME NEW M, NEW m, NEW s, NEW vids, NEW V, NEW H, NEW sub, NEW act, NEW prog,
         Whole(M, m, s, vids, V, H, sub, act, prog), \A x \in vids : x[1] \in Tasks,
         \A u \in Tasks : m[u] # NoFrame => m[u] \in DOMAIN M.dir,
         NEW N, NEW G, Good(N, KeptOf(G, V), V), V \notin G, DOMAIN N.dir = DOMAIN M.dir,
         Maps(N) = Maps(M), \A d \in DOMAIN M.dir : LargeIn(N, d) = LargeIn(M, d),
         NEW do, \A u \in Tasks : do[u] = act[u] \/ (m[u] # NoFrame /\ do[u] \in {User, Doomed})
  PROVE  Whole(N, m, s, vids, V, G, sub, do, prog)
<1>1. LayOK(M, V, m, s, sub, act, prog)
  BY DEF Whole
<1>2. ASSUME NEW u \in Tasks, m[u] # NoFrame
      PROVE  LayOf(N, V, m[u], s, sub[u], do[u], prog[u])
  <2>1. LayOf(M, V, m[u], s, sub[u], act[u], prog[u])
    BY <1>1, <1>2 DEF LayOK
  <2>2. LargeIn(N, m[u]) = LargeIn(M, m[u])
    BY <1>2
  <2>3. \A q \in Pages : Maps(N)[m[u]][<<Spare, q>>] = Maps(M)[m[u]][<<Spare, q>>]
    OBVIOUS
  <2>4. do[u] = act[u] \/ do[u] \in {User, Thread, Doomed}
    OBVIOUS
  <2> QED BY <2>1, <2>2, <2>3, <2>4, LaySame
<1>3. \A d \in DOMAIN M.dir : \A e \in Cells : Maps(N)[d][e] = V <=> Maps(M)[d][e] = V
  OBVIOUS
<1>4. \A u \in Tasks : do[u] = act[u] \/ (m[u] # NoFrame /\ (do[u] \in {User, Doomed} \/ \A x \in vids : x[1] # u))
  OBVIOUS
<1> QED BY <1>2, <1>3, <1>4, WholeStep

LEMMA NotSeen ==
  ASSUME NEW w, NEW V, NEW vids, NEW m, NEW s, NEW sub, NEW act,
         VidOK(w, V, vids, m, sub, act), TaskOK(m, s, sub, act),
         NEW t \in Tasks, m[t] \in DOMAIN w, m[t] # NoFrame, NEW a \in Cells, <<t, m[t], a>> \notin vids
  PROVE  w[m[t]][a] # V
BY SeesIt

LEMMA VidTasks ==
  ASSUME NEW D, NEW m, NEW s, NEW vids, NEW V, NEW H, NEW sub, NEW act, NEW prog, NEW b,
         TaskTypes(D, m, s, vids, V, H, sub, act, prog, b)
  PROVE  /\ \A x \in vids : x[1] \in Tasks
         /\ \A u \in Tasks : m[u] # NoFrame => m[u] \in D
BY VidTypes DEF TaskTypes

LEMMA AddressFacts == Addresses \subseteq Cells
BY MemoryAssumption DEF Cells, Pages

-----------------------------------------------------------------------------
(* Every action preserves it. *)

\* The memory after a write by a program.
Written(M, d, a, v) ==
  LET e == Entry(M, d, a)
      c == CloneCow(M, d, a)
  IN  IF e.rw THEN WithContent(M, e.frame, v)
      ELSE IF c.ok THEN WithContent(c.M, Entry(c.M, d, a).frame, v) ELSE c.M

LEMMA WrittenSound ==
  ASSUME NEW M, NEW m, NEW s, NEW vids, NEW V, NEW H, NEW sub, NEW act, NEW prog, NEW b,
         Sound(M, m, s, vids, V, H, sub, act, prog, b), M.panic = "no",
         NEW t \in Tasks, m[t] # NoFrame, NEW a \in Cells, NEW v \in Values,
         Entry(M, m[t], a).large => a[2] = 0, <<t, m[t], a>> \notin vids,
         NEW x \in {User, Doomed}, NEW do, do = Doing(act, t, x),
         NEW N, N = Written(M, m[t], a, v)
  PROVE  Sound(N, m, s, vids, V, H, sub, do, prog, b) /\ Fields(N)
<1> DEFINE d == m[t]
           e == Entry(M, d, a)
           c == CloneCow(M, d, a)
           g == Entry(c.M, d, a).frame
           X == KeptOf(H, V)
<1>0. Whole(M, m, s, vids, V, H, sub, act, prog) /\ V \notin H
  BY Before
<1>1. /\ Whole(M, m, s, vids, V, H, sub, act, prog) /\ Good(M, X, V) /\ Fields(M)
      /\ PhysTypes(M) /\ DOMAIN Maps(M) = DOMAIN M.dir
      /\ VidOK(Maps(M), V, vids, m, sub, act) /\ TaskOK(m, s, sub, act)
      /\ TaskTypes(DOMAIN M.dir, m, s, vids, V, H, sub, act, prog, b) /\ V \notin H
  BY Before
<1>2. d \in DOMAIN M.dir /\ Spared(M, d)
  BY BeforeTask
<1>3. Maps(M)[d][a] # V
  BY <1>1, <1>2, NotSeen
<1>4. /\ TaskTypes(DOMAIN M.dir, m, s, vids, V, H, sub, do, prog, b)
      /\ do[t] = x /\ \A u \in Tasks : u # t => do[u] = act[u]
  BY <1>1, ActTypes
<1>5. (\A y \in vids : y[1] \in Tasks) /\ \A u \in Tasks : m[u] # NoFrame => m[u] \in DOMAIN M.dir
  BY <1>1, VidTasks
<1>6. \A u \in Tasks : do[u] = act[u] \/ (m[u] # NoFrame /\ do[u] \in {User, Doomed})
  BY <1>4
<1>7. N = IF e.rw THEN WithContent(M, e.frame, v) ELSE IF c.ok THEN WithContent(c.M, g, v) ELSE c.M
  BY DEF Written
<1>8. CowDid(M, c, d, a, X, V)
  BY <1>1, <1>2, <1>3, CloneCowFacts
<1> HIDE DEF d, e, c, g, X
<1>9. CASE N = WithContent(M, e.frame, v)
  <2>1. /\ Good(N, X, V) /\ Maps(N) = Maps(M) /\ N.dir = M.dir /\ N.panic = "no"
        /\ \A r : LargeIn(N, r) = LargeIn(M, r)
    BY <1>1, <1>9, StoredFacts
  <2>0. /\ Good(N, KeptOf(H, V), V) /\ Maps(N) = Maps(M) /\ DOMAIN N.dir = DOMAIN M.dir
        /\ \A r \in DOMAIN M.dir : LargeIn(N, r) = LargeIn(M, r)
    BY <2>1 DEF X
  <2>2. Whole(N, m, s, vids, V, H, sub, do, prog)
    BY <1>0, <1>5, <1>6, <2>0, SameWhole
  <2> QED BY <1>4, <2>1, <2>2, SoundWhole DEF Good
<1>10. CASE ~e.rw /\ c.ok
  <2>1. Rewritten(M, c.M, d, a, X, V)
    BY <1>8, <1>10 DEF CowDid
  <2> DEFINE K == c.M
  <2>2. /\ Whole(K, m, s, vids, V, H, sub, do, prog) /\ DOMAIN K.dir = DOMAIN M.dir /\ K.panic = "no"
    <3>1. Rewritten(M, K, m[t], a, KeptOf(H, V), V) /\ Maps(M)[m[t]][a] # V
      BY <1>3, <2>1 DEF d, X
    <3>2. do[t] \in {User, Doomed} /\ \A u \in Tasks : u # t => do[u] = act[u]
      BY <1>4
    <3> HIDE DEF K
    <3> QED BY <3>1, <3>2, RewrittenWhole
  <2> HIDE DEF K
  <2>3. N = WithContent(K, g, v)
    BY <1>7, <1>10 DEF K
  <2>4. Good(K, X, V)
    BY <2>2 DEF Whole, X
  <2>5. /\ Good(N, X, V) /\ Maps(N) = Maps(K) /\ N.dir = K.dir /\ N.panic = "no"
        /\ \A r : LargeIn(N, r) = LargeIn(K, r)
    BY <2>2, <2>3, <2>4, StoredFacts
  <2>6. \A u \in Tasks : m[u] # NoFrame => m[u] \in DOMAIN K.dir
    BY <1>5, <2>2
  <2>7. \A u \in Tasks : do[u] = do[u] \/ (m[u] # NoFrame /\ do[u] \in {User, Doomed})
    OBVIOUS
  <2>8. Whole(N, m, s, vids, V, H, sub, do, prog)
    BY <1>1, <1>5, <2>2, <2>5, <2>6, <2>7, SameWhole DEF X
  <2>9. TaskTypes(DOMAIN N.dir, m, s, vids, V, H, sub, do, prog, b)
    BY <1>4, <2>2, <2>5
  <2> QED BY <2>5, <2>8, <2>9, SoundWhole DEF Good
<1>11. CASE ~e.rw /\ ~c.ok
  <2>1. N = c.M
    BY <1>7, <1>11
  <2>2. CASE N = M
    <3>0. Good(M, KeptOf(H, V), V)
      BY <1>1 DEF X
    <3>1. Whole(M, m, s, vids, V, H, sub, do, prog)
      BY <1>0, <1>5, <1>6, <3>0, SameWhole
    <3> QED BY <1>1, <1>4, <2>2, <3>1, SoundWhole
  <2>3. CASE Rewritten(M, N, d, a, X, V)
    <3>1. /\ Whole(N, m, s, vids, V, H, sub, do, prog) /\ DOMAIN N.dir = DOMAIN M.dir /\ N.panic = "no"
      <4>1. Rewritten(M, N, m[t], a, KeptOf(H, V), V) /\ Maps(M)[m[t]][a] # V
        BY <1>3, <2>3 DEF d, X
      <4>2. do[t] \in {User, Doomed} /\ \A u \in Tasks : u # t => do[u] = act[u]
        BY <1>4
      <4> QED BY <4>1, <4>2, RewrittenWhole
    <3>2. TaskTypes(DOMAIN N.dir, m, s, vids, V, H, sub, do, prog, b)
      BY <1>4, <3>1
    <3>3. Fields(N)
      BY <2>3 DEF Rewritten, Good
    <3> QED BY <3>1, <3>2, <3>3, SoundWhole
  <2>4. CASE GaveUp(M, N)
    <3>1. Fields(N)
      BY <2>4 DEF GaveUp
    <3> QED BY <1>1, <1>4, <2>4, <3>1, SoundGaveUp
  <2> QED BY <1>8, <2>1, <2>2, <2>3, <2>4 DEF CowDid
<1> QED BY <1>7, <1>9, <1>10, <1>11

LEMMA UserWriteKeeps ==
  ASSUME MemoryInv, NEW t \in Tasks, NEW a \in Addresses, NEW v \in Values, UserWrite(t, a, v)
  PROVE  MemoryInv'
<1> DEFINE N == Written(Now, mm[t], a, v)
           x == IF Entry(Now, mm[t], a).rw \/ CloneCow(Now, mm[t], a).ok THEN User ELSE Doomed
           do == Doing(doing, t, x)
<1>1. a \in Cells /\ panic = "no" /\ mm[t] # NoFrame
  BY AddressFacts DEF UserWrite, InUserMode, Lives
<1>2. (Entry(Now, mm[t], a).large => a[2] = 0) /\ <<t, mm[t], a>> \notin vidmaps
  BY DEF UserWrite
<1>3. Becomes(N) /\ doing' = do
  BY DEF UserWrite, Written, WithContent, Doing
<1>4. /\ mm' = mm /\ mms' = mms /\ vidmaps' = vidmaps /\ video' = video /\ heap' = heap
      /\ subsystem' = subsystem /\ program' = program /\ births' = births
  BY DEF UserWrite
<1>5. x \in {User, Doomed} /\ Now.panic = "no"
  BY <1>1, NowFacts
<1> HIDE DEF N, x
<1>6. Sound(N, mm, mms, vidmaps, video, heap, subsystem, do, program, births) /\ Fields(N)
  BY <1>1, <1>2, <1>5, WrittenSound DEF MemoryInv, N
<1>7. Now' = N
  BY <1>3, <1>6, BecomesFacts
<1> QED BY <1>3, <1>4, <1>6, <1>7 DEF MemoryInv

LEMMA StoredSound ==
  ASSUME NEW M, NEW m, NEW s, NEW vids, NEW V, NEW H, NEW sub, NEW act, NEW prog, NEW b,
         Sound(M, m, s, vids, V, H, sub, act, prog, b), M.panic = "no",
         NEW f, NEW v \in Values, NEW N, N = WithContent(M, f, v)
  PROVE  Sound(N, m, s, vids, V, H, sub, act, prog, b) /\ Fields(N)
<1>1. Whole(M, m, s, vids, V, H, sub, act, prog) /\ V \notin H
  BY Before
<1>2. Good(M, KeptOf(H, V), V)
  BY Before
<1>3. TaskTypes(DOMAIN M.dir, m, s, vids, V, H, sub, act, prog, b)
  BY Before
<1>4. (\A y \in vids : y[1] \in Tasks) /\ \A u \in Tasks : m[u] # NoFrame => m[u] \in DOMAIN M.dir
  BY <1>3, VidTasks
<1>5. /\ Good(N, KeptOf(H, V), V) /\ Maps(N) = Maps(M) /\ N.dir = M.dir /\ N.panic = "no"
      /\ \A r : LargeIn(N, r) = LargeIn(M, r)
  BY <1>2, StoredFacts
<1>6. DOMAIN N.dir = DOMAIN M.dir /\ \A r \in DOMAIN M.dir : LargeIn(N, r) = LargeIn(M, r)
  BY <1>5
<1>7. Whole(N, m, s, vids, V, H, sub, act, prog)
  BY <1>1, <1>4, <1>5, <1>6, SameWhole
<1>8. TaskTypes(DOMAIN N.dir, m, s, vids, V, H, sub, act, prog, b)
  BY <1>3, <1>6
<1> QED BY <1>5, <1>7, <1>8, SoundWhole DEF Good

LEMMA KernelWriteKeeps ==
  ASSUME MemoryInv, NEW t \in Tasks, NEW a \in Addresses, NEW v \in Values, KernelWrite(t, a, v)
  PROVE  MemoryInv'
<1> DEFINE f == Entry(Now, mm[t], a).frame
           N == WithContent(Now, f, v)
<1>1. Now.panic = "no"
  BY NowFacts DEF KernelWrite, InUserMode, Lives
<1>2. Becomes(N)
  BY DEF KernelWrite, WithContent
<1>3. /\ mm' = mm /\ mms' = mms /\ vidmaps' = vidmaps /\ video' = video /\ heap' = heap
      /\ subsystem' = subsystem /\ doing' = doing /\ program' = program /\ births' = births
  BY DEF KernelWrite
<1> HIDE DEF N, f
<1>4. Sound(N, mm, mms, vidmaps, video, heap, subsystem, doing, program, births) /\ Fields(N)
  BY <1>1, StoredSound DEF MemoryInv, N
<1>5. Now' = N
  BY <1>2, <1>4, BecomesFacts
<1> QED BY <1>3, <1>4, <1>5 DEF MemoryInv

\* The kernel takes the heap's block.
LEMMA HeapAllocKeeps ==
  ASSUME MemoryInv, HeapAlloc
  PROVE  MemoryInv'
<1> DEFINE F == heap'
           N == Mark(Now, F, KERNEL)
           X == KeptOf(heap, video)
           Y == KeptOf(F, video)
<1>1. Now.panic = "no" /\ heap = {}
  BY NowFacts DEF HeapAlloc
<1>2. /\ Whole(Now, mm, mms, vidmaps, video, heap, subsystem, doing, program)
      /\ Good(Now, X, video)
      /\ TaskTypes(DOMAIN Now.dir, mm, mms, vidmaps, video, heap, subsystem, doing, program, births)
  BY <1>1, Before DEF MemoryInv
<1>3. F \in SUBSET FreeSmall(Now)
  <2>1. Consecutive(Now, HeapBlock) \subseteq SmallFrame /\ SmallFrame \subseteq Nat
    BY NumberFacts DEF Consecutive, Frames
  <2>2. Min(Consecutive(Now, HeapBlock)) \in Consecutive(Now, HeapBlock)
    BY <2>1, MinFacts DEF HeapAlloc
  <2>3. F = Min(Consecutive(Now, HeapBlock)) .. Min(Consecutive(Now, HeapBlock)) + HeapBlock - 1
    BY DEF HeapAlloc
  <2> QED BY <2>2, <2>3 DEF Consecutive
<1>4. Becomes(N)
  BY DEF HeapAlloc
<1>5. /\ mm' = mm /\ mms' = mms /\ vidmaps' = vidmaps /\ video' = video
      /\ subsystem' = subsystem /\ doing' = doing /\ program' = program /\ births' = births
  BY DEF HeapAlloc
<1> HIDE DEF N, F, X, Y
<1>6. F \in SUBSET Frames /\ \A f \in F : Now.phys[f] = UNUSED
  BY <1>3, FreeSmallFacts
<1>7. /\ Fields(N) /\ N.phys = Given(Now.phys, F, KERNEL) /\ N.dir = Now.dir /\ N.table = Now.table
      /\ N.content = Now.content /\ N.panic = "no"
  BY <1>1, NowFacts, MarkFacts DEF N
<1>8. /\ Counted(Maps(Now), Now.phys, Held(Now, X), video) /\ Split(Now.phys)
      /\ Shape(Now.dir, Now.table) /\ DOMAIN Now.dir \intersect DOMAIN Now.table = {}
      /\ X \intersect (DOMAIN Now.dir \union DOMAIN Now.table) = {}
      /\ video \in X \union {Screen} /\ Now.content \in [Frames -> Values]
  BY <1>2 DEF Good
<1>9. Counted(Maps(Now), N.phys, Held(Now, X) \union F, video)
  BY <1>6, <1>7, <1>8, FramesOwned
<1>10. Split(N.phys)
  BY <1>3, <1>7, <1>8, SplitSmall
<1>11. Y = X \union F
  BY <1>1 DEF X, Y, KeptOf
<1>12. F \intersect (DOMAIN Now.dir \union DOMAIN Now.table) = {} /\ video \notin F
  <2>1. \A f \in F : f # video /\ f \notin DOMAIN Now.dir /\ f \notin DOMAIN Now.table
    BY <1>2, <1>3, FreeIsNobodys
  <2> QED BY <2>1
<1>13. Maps(N) = Maps(Now) /\ Held(N, Y) = Held(Now, X) \union F
  BY <1>7, <1>11 DEF Maps, Held
<1>14. Good(N, Y, video)
  <2>1. Y \intersect (DOMAIN N.dir \union DOMAIN N.table) = {}
    BY <1>7, <1>8, <1>11, <1>12
  <2>2. video \in Y \union {Screen}
    BY <1>8, <1>11
  <2>3. Counted(Maps(N), N.phys, Held(N, Y), video)
    BY <1>9, <1>13
  <2> QED BY <1>7, <1>8, <1>10, <2>1, <2>2, <2>3 DEF Good
<1>15. (\A y \in vidmaps : y[1] \in Tasks) /\ \A u \in Tasks : mm[u] # NoFrame => mm[u] \in DOMAIN Now.dir
  BY <1>2, VidTasks
<1>16. Whole(N, mm, mms, vidmaps, video, F, subsystem, doing, program)
  <2>1. /\ Good(N, KeptOf(F, video), video) /\ video \notin F
        /\ DOMAIN N.dir = DOMAIN Now.dir /\ Maps(N) = Maps(Now)
        /\ \A d \in DOMAIN Now.dir : LargeIn(N, d) = LargeIn(Now, d)
    BY <1>7, <1>12, <1>13, <1>14 DEF Y, LargeIn
  <2>2. Whole(Now, mm, mms, vidmaps, video, heap, subsystem, doing, program)
    BY <1>2
  <2> QED BY <1>15, <2>1, <2>2, SameWhole
<1>17. TaskTypes(DOMAIN N.dir, mm, mms, vidmaps, video, F, subsystem, doing, program, births)
  BY <1>2, <1>6, <1>7 DEF TaskTypes
<1>18. Sound(N, mm, mms, vidmaps, video, F, subsystem, doing, program, births)
  BY <1>7, <1>16, <1>17, SoundWhole
<1>19. Now' = N
  BY <1>4, <1>7, BecomesFacts
<1> QED BY <1>5, <1>18, <1>19 DEF MemoryInv, F

LEMMA HeapFreeKeeps ==
  ASSUME MemoryInv, HeapFree
  PROVE  MemoryInv'
<1> DEFINE N == Mark(Now, heap, UNUSED)
           X == KeptOf(heap, video)
           Y == KeptOf({}, video)
<1>1. Now.panic = "no"
  BY NowFacts DEF HeapFree
<1>2. /\ Whole(Now, mm, mms, vidmaps, video, heap, subsystem, doing, program)
      /\ Good(Now, X, video) /\ video \notin heap
      /\ TaskTypes(DOMAIN Now.dir, mm, mms, vidmaps, video, heap, subsystem, doing, program, births)
  BY <1>1, Before DEF MemoryInv
<1>3. heap \in SUBSET Held(Now, X)
  BY DEF Held, X, KeptOf
<1> HIDE DEF X, Y
<1>4. /\ FreeKernel(Now, heap) = Mark(Now, heap, UNUSED)
      /\ Counted(Maps(Now), Given(Now.phys, heap, UNUSED), Held(Now, X) \ heap, video)
      /\ Split(Given(Now.phys, heap, UNUSED))
  BY <1>2, <1>3, GivenBackFacts
<1>5. Becomes(N)
  BY <1>4 DEF HeapFree
<1>6. /\ mm' = mm /\ mms' = mms /\ vidmaps' = vidmaps /\ video' = video /\ heap' = {}
      /\ subsystem' = subsystem /\ doing' = doing /\ program' = program /\ births' = births
  BY DEF HeapFree
<1> HIDE DEF N
<1>7. /\ Fields(N) /\ N.phys = Given(Now.phys, heap, UNUSED) /\ N.dir = Now.dir /\ N.table = Now.table
      /\ N.content = Now.content /\ N.panic = "no"
  BY <1>1, NowFacts, MarkFacts DEF N
<1>8. /\ Shape(Now.dir, Now.table) /\ DOMAIN Now.dir \intersect DOMAIN Now.table = {}
      /\ X \intersect (DOMAIN Now.dir \union DOMAIN Now.table) = {}
      /\ Now.content \in [Frames -> Values]
  BY <1>2 DEF Good
<1>9. Y = X \ heap /\ heap \subseteq X /\ video \in Y \union {Screen}
  BY <1>2 DEF X, Y, KeptOf
<1>10. Maps(N) = Maps(Now) /\ Held(N, Y) = Held(Now, X) \ heap
  <2>1. Maps(N) = Maps(Now)
    BY <1>7 DEF Maps
  <2>2. heap \intersect (DOMAIN Now.dir \union DOMAIN Now.table) = {}
    BY <1>8, <1>9
  <2> QED BY <1>7, <1>9, <2>1, <2>2 DEF Held
<1>11. Good(N, Y, video)
  <2>1. Y \intersect (DOMAIN N.dir \union DOMAIN N.table) = {}
    BY <1>7, <1>8, <1>9
  <2>2. Counted(Maps(N), N.phys, Held(N, Y), video) /\ Split(N.phys)
    BY <1>4, <1>7, <1>10
  <2> QED BY <1>7, <1>8, <1>9, <2>1, <2>2 DEF Good
<1>12. (\A y \in vidmaps : y[1] \in Tasks) /\ \A u \in Tasks : mm[u] # NoFrame => mm[u] \in DOMAIN Now.dir
  BY <1>2, VidTasks
<1> DEFINE G == {}
<1>13. /\ Good(N, KeptOf(G, video), video) /\ video \notin G
       /\ DOMAIN N.dir = DOMAIN Now.dir /\ Maps(N) = Maps(Now)
       /\ \A d \in DOMAIN Now.dir : LargeIn(N, d) = LargeIn(Now, d)
  BY <1>7, <1>10, <1>11 DEF Y, LargeIn
<1> HIDE DEF G
<1>14. Whole(N, mm, mms, vidmaps, video, G, subsystem, doing, program)
  <2>1. Whole(Now, mm, mms, vidmaps, video, heap, subsystem, doing, program)
    BY <1>2
  <2> QED BY <1>12, <1>13, <2>1, SameWhole
<1>15. TaskTypes(DOMAIN N.dir, mm, mms, vidmaps, video, G, subsystem, doing, program, births)
  BY <1>2, <1>7 DEF TaskTypes, G
<1>16. Sound(N, mm, mms, vidmaps, video, G, subsystem, doing, program, births)
  BY <1>7, <1>14, <1>15, SoundWhole
<1>17. Now' = N
  BY <1>5, <1>7, BecomesFacts
<1>18. heap' = G
  BY <1>6 DEF G
<1> QED BY <1>6, <1>16, <1>17, <1>18 DEF MemoryInv

-----------------------------------------------------------------------------
(* A task's directory gets pages, or loses some. *)

\* N is M with other pages in directory d, none where the screen is or was, and
\* large ones in the slots L.
Near(M, N, d, L, X, V) ==
  /\ Good(N, X, V) /\ DOMAIN N.dir = DOMAIN M.dir /\ N.panic = M.panic
  /\ \A c \in DOMAIN M.dir : c # d => LargeIn(N, c) \subseteq LargeIn(M, c)
  /\ LargeIn(N, d) \subseteq LargeIn(M, d) \union L
  /\ \A c \in DOMAIN M.dir : \A a \in Cells :
       /\ Maps(N)[c][a] = V <=> Maps(M)[c][a] = V
       /\ a[1] = Spare => Maps(N)[c][a] = Maps(M)[c][a] \/ Maps(N)[c][a] = NoFrame

LEMMA GrownNear ==
  ASSUME NEW M, NEW X, NEW V, Good(M, X, V), NEW d \in DOMAIN M.dir, NEW s, s # Spare,
         NEW N, Good(N, X, V), Grown(M, N, d, s, V), NEW L,
         LargeIn(N, d) \subseteq LargeIn(M, d) \union L,
         \A c \in DOMAIN M.dir : c # d => LargeIn(N, c) = LargeIn(M, c)
  PROVE  Near(M, N, d, L, X, V)
<1>1. V # NoFrame
  <2>1. V \in Held(M, X) \union {Screen} /\ \A f \in Held(M, X) : Usable(f)
    BY DEF Good, Counted
  <2> QED BY <2>1, NumberFacts DEF Screen, NoFrame
<1>2. ASSUME NEW c \in DOMAIN M.dir, NEW a \in Cells
      PROVE  /\ Maps(N)[c][a] = V <=> Maps(M)[c][a] = V
             /\ a[1] = Spare => Maps(N)[c][a] = Maps(M)[c][a]
  <2>1. \/ Maps(N)[c][a] = Maps(M)[c][a]
        \/ c = d /\ a[1] = s /\ Maps(M)[c][a] = NoFrame /\ Maps(N)[c][a] \notin {NoFrame, V}
    BY DEF Grown
  <2> QED BY <1>1, <2>1
<1>3. DOMAIN N.dir = DOMAIN M.dir /\ N.panic = M.panic
  BY DEF Grown
<1> QED BY <1>2, <1>3 DEF Near

LEMMA ReleasedNear ==
  ASSUME NEW M, NEW X, NEW V, Good(M, X, V), NEW d \in DOMAIN M.dir, \A a \in Cells : Maps(M)[d][a] # V,
         NEW A, NEW N, Released(M, N, d, A, X, V), NEW L
  PROVE  Near(M, N, d, L, X, V)
<1> DEFINE w == Maps(M)
           v == [a \in Cells |-> IF a \in A THEN NoFrame ELSE w[d][a]]
<1>1. Shape(M.dir, M.table)
  BY DEF Good
<1>2. w \in [DOMAIN M.dir -> Rows]
  BY <1>1, FlatFacts DEF Maps
<1>3. V # NoFrame
  <2>1. V \in Held(M, X) \union {Screen} /\ \A f \in Held(M, X) : Usable(f)
    BY DEF Good, Counted
  <2> QED BY <2>1, NumberFacts DEF Screen, NoFrame
<1>4. Maps(N) = RowSet(w, d, v)
  BY DEF Released
<1>5. \A a \in Cells : v[a] = NoFrame \/ v[a] = w[d][a]
  OBVIOUS
<1> HIDE DEF v
<1>6. \A c \in DOMAIN M.dir : Maps(N)[c] = IF c = d THEN v ELSE w[c]
  BY <1>2, <1>4 DEF RowSet
<1>7. ASSUME NEW c \in DOMAIN M.dir, NEW a \in Cells
      PROVE  /\ Maps(N)[c][a] = V <=> w[c][a] = V
             /\ Maps(N)[c][a] = w[c][a] \/ Maps(N)[c][a] = NoFrame
  <2>1. CASE c = d
    <3>1. Maps(N)[c][a] = v[a]
      BY <1>6, <2>1
    <3> QED BY <1>3, <1>5, <2>1, <3>1
  <2>2. CASE c # d
    BY <1>6, <2>2
  <2> QED BY <2>1, <2>2
<1>8. /\ Good(N, X, V) /\ DOMAIN N.dir = DOMAIN M.dir /\ N.panic = M.panic
      /\ \A c \in DOMAIN M.dir : LargeIn(N, c) \subseteq LargeIn(M, c)
  BY DEF Released
<1> QED BY <1>7, <1>8 DEF Near

\* Task t goes on to do[t], with its program p[t] and its break in r.
TaskStep(t, m, s, vids, sub, act, prog, r, do, p) ==
  /\ DOMAIN r = DOMAIN s
  /\ \A d \in DOMAIN s : r[d].refcount = s[d].refcount /\ (d # m[t] => r[d].brk = s[d].brk)
  /\ sub[t] = "LINUX" => r[m[t]].brk \in {0} \union BreaksOf("LINUX")
  /\ do[t] = act[t] \/ do[t] \in {User, Doomed} \/ \A x \in vids : x[1] # t
  /\ \A u \in Tasks : u # t => do[u] = act[u] /\ p[u] = prog[u]
  /\ (\E k \in Nat : do[t] = Load(k)) => \E q \in Programs : q.subsystem = sub[t] /\ p[t] = q.segments

LEMMA NearWhole ==
  ASSUME NEW M, NEW m, NEW s, NEW vids, NEW V, NEW H, NEW sub, NEW act, NEW prog, NEW b,
         Sound(M, m, s, vids, V, H, sub, act, prog, b), M.panic = "no",
         NEW t \in Tasks, m[t] # NoFrame, NEW L, L \subseteq LargeSlots(sub[t]),
         NEW N, Near(M, N, m[t], L, KeptOf(H, V), V),
         NEW r, NEW do, NEW p, TaskStep(t, m, s, vids, sub, act, prog, r, do, p)
  PROVE  Whole(N, m, r, vids, V, H, sub, do, p) /\ DOMAIN N.dir = DOMAIN M.dir /\ N.panic = "no"
<1>1. /\ Whole(M, m, s, vids, V, H, sub, act, prog) /\ TaskOK(m, s, sub, act)
      /\ TaskTypes(DOMAIN M.dir, m, s, vids, V, H, sub, act, prog, b) /\ V \notin H
  BY Before
<1>2. /\ Good(N, KeptOf(H, V), V) /\ DOMAIN N.dir = DOMAIN M.dir /\ N.panic = "no"
      /\ \A c \in DOMAIN M.dir : \A a \in Cells : Maps(N)[c][a] = V <=> Maps(M)[c][a] = V
  BY DEF Near
<1>3. \A x \in vids : x[1] \in Tasks
  BY <1>1, VidTypes
<1>4. \A u \in Tasks : \/ do[u] = act[u]
                       \/ m[u] # NoFrame /\ (do[u] \in {User, Doomed} \/ \A x \in vids : x[1] # u)
  BY DEF TaskStep
<1>5. ASSUME NEW u \in Tasks, m[u] # NoFrame
      PROVE  LayOf(N, V, m[u], r, sub[u], do[u], p[u])
  <2>1. LayOf(M, V, m[u], s, sub[u], act[u], prog[u]) /\ m[u] \in DOMAIN M.dir /\ m[u] \in DOMAIN s
    BY <1>5, BeforeTask
  <2>2. ASSUME m[u] = m[t], u # t
        PROVE  sub[u] = "LINUX" /\ sub[t] = "LINUX"
    BY <1>1, <1>5, <2>2 DEF TaskOK
  <2>3. m[u] = m[t] => sub[u] = sub[t]
    BY <2>2
  <2>4. LargeIn(N, m[u]) \subseteq LargeSlots(sub[u])
    <3>1. LargeIn(M, m[u]) \subseteq LargeSlots(sub[u])
      BY <2>1 DEF LayOf
    <3>2. CASE m[u] = m[t]
      <4>1. LargeIn(N, m[t]) \subseteq LargeIn(M, m[t]) \union L
        BY DEF Near
      <4> QED BY <2>3, <3>1, <3>2, <4>1
    <3>3. CASE m[u] # m[t]
      <4>1. LargeIn(N, m[u]) \subseteq LargeIn(M, m[u])
        BY <2>1, <3>3 DEF Near
      <4> QED BY <3>1, <4>1
    <3> QED BY <3>2, <3>3
  <2>5. ASSUME NEW q \in Pages
        PROVE  Maps(N)[m[u]][<<Spare, q>>] \in {NoFrame, V}
    <3>1. <<Spare, q>> \in Cells /\ <<Spare, q>>[1] = Spare
      BY SpareFacts, CellFacts
    <3>2. Maps(M)[m[u]][<<Spare, q>>] \in {NoFrame, V}
      BY <2>1 DEF LayOf
    <3>3. \/ Maps(N)[m[u]][<<Spare, q>>] = Maps(M)[m[u]][<<Spare, q>>]
          \/ Maps(N)[m[u]][<<Spare, q>>] = NoFrame
      BY <2>1, <3>1 DEF Near
    <3> QED BY <3>2, <3>3
  <2>6. ASSUME sub[u] = "LINUX"
        PROVE  r[m[u]].brk \in {0} \union BreaksOf("LINUX")
    <3>1. s[m[u]].brk \in {0} \union BreaksOf("LINUX")
      BY <2>1, <2>6 DEF LayOf
    <3>2. CASE m[u] = m[t]
      BY <2>3, <2>6, <3>2 DEF TaskStep
    <3>3. CASE m[u] # m[t]
      <4>1. r[m[u]].brk = s[m[u]].brk
        BY <2>1, <3>3 DEF TaskStep
      <4> QED BY <3>1, <4>1
    <3> QED BY <3>2, <3>3
  <2>7. (\E k \in Nat : do[u] = Load(k)) => \E q \in Programs : q.subsystem = sub[u] /\ p[u] = q.segments
    <3>1. CASE u = t
      BY <3>1 DEF TaskStep
    <3>2. CASE u # t
      <4>1. (\E k \in Nat : act[u] = Load(k)) => \E q \in Programs : q.subsystem = sub[u] /\ prog[u] = q.segments
        BY <2>1 DEF LayOf
      <4>2. do[u] = act[u] /\ p[u] = prog[u]
        BY <3>2 DEF TaskStep
      <4> QED BY <4>1, <4>2
    <3> QED BY <3>1, <3>2
  <2> QED BY <2>4, <2>5, <2>6, <2>7 DEF LayOf
<1>6. Whole(N, m, r, vids, V, H, sub, do, p)
  <2>1. Whole(M, m, s, vids, V, H, sub, act, prog) /\ V \notin H
    BY <1>1
  <2>2. DOMAIN r = DOMAIN s /\ \A d \in DOMAIN s : r[d].refcount = s[d].refcount
    BY DEF TaskStep
  <2> QED BY <1>2, <1>3, <1>4, <1>5, <2>1, <2>2, WholeStep
<1> QED BY <1>2, <1>6

\* Small pages are requested where programs have small pages, or at the start.
LEMMA SmallRequest ==
  ASSUME NEW M, NEW m, NEW s, NEW vids, NEW V, NEW H, NEW sub, NEW act, NEW prog, NEW b,
         Sound(M, m, s, vids, V, H, sub, act, prog, b), M.panic = "no",
         NEW t \in Tasks, m[t] # NoFrame, NEW i \in Nat, NEW n \in Nat, NEW rw \in BOOLEAN,
         i \div NumEntries \in {0} \union SmallSlots(sub[t]),
         NEW r, r = RequestSmall(M, m[t], i, n, rw), NEW L
  PROVE  Near(M, r.M, m[t], L, KeptOf(H, V), V) /\ r.ok \in BOOLEAN
<1> DEFINE z == i \div NumEntries
           X == KeptOf(H, V)
           d == m[t]
<1>1. Good(M, X, V)
  BY Before
<1>2. d \in DOMAIN M.dir /\ sub[t] \in Subsystems /\ LayOf(M, V, d, s, sub[t], act[t], prog[t])
  BY BeforeTask
<1>3. z # Spare
  BY <1>2, SpareFacts, NumberFacts
<1>4. z \notin LargeIn(M, d)
  <2>1. LargeIn(M, d) \subseteq LargeSlots(sub[t])
    BY <1>2 DEF LayOf
  <2>2. CASE z = 0
    <3>1. \A l \in LargeSlots(sub[t]) : Spare < l
      BY <1>2, SpareFacts
    <3>2. 0 \notin LargeSlots(sub[t])
      BY <3>1, SpareFacts
    <3> QED BY <2>1, <2>2, <3>2
  <2>3. CASE z \in SmallSlots(sub[t])
    <3>1. LargeSlots(sub[t]) \intersect SmallSlots(sub[t]) = {}
      BY <1>2, LayoutAssumption
    <3> QED BY <2>1, <2>3, <3>1
  <2> QED BY <2>2, <2>3
<1>5. Asked(M, r, d, z, X, V)
  BY <1>1, <1>2, RequestSmallFacts
<1>6. ~(z \in UserSlots /\ M.dir[d][z].large)
  BY <1>4 DEF LargeIn
<1>7. Good(r.M, X, V) /\ Grown(M, r.M, d, z, V) /\ SameLarge(M, r.M) /\ r.ok \in BOOLEAN
  <2> HIDE DEF z, X, d
  <2> QED BY <1>5, <1>6 DEF Asked
<1>8. \A c \in DOMAIN M.dir : LargeIn(r.M, c) = LargeIn(M, c)
  BY <1>7 DEF SameLarge
<1>9. LargeIn(r.M, d) \subseteq LargeIn(M, d) \union L
  BY <1>2, <1>8
<1> HIDE DEF z, X, d
<1>10. Near(M, r.M, d, L, X, V)
  BY <1>1, <1>2, <1>3, <1>7, <1>8, <1>9, GrownNear
<1> QED BY <1>7, <1>10 DEF d, X

LEMMA BreakFacts ==
  /\ IndexWidth \in Nat \ {0}
  /\ \A n \in {0} \union BreaksOf("LINUX") :
       n \in Nat => /\ n % IndexWidth \in Nat
                    /\ (n % IndexWidth) \div NumEntries \in {0} \union SmallSlots("LINUX")
  /\ Breaks \subseteq BreaksOf("LINUX") /\ Breaks \subseteq Nat
<1>1. IndexWidth \in Nat \ {0} /\ Breaks \subseteq Nat
  BY MemoryAssumption
<1>2. Breaks \subseteq BreaksOf("LINUX")
  BY DEF BreaksOf
<1>3. ASSUME NEW n \in {0} \union BreaksOf("LINUX"), n \in Nat
      PROVE  /\ n % IndexWidth \in Nat
             /\ (n % IndexWidth) \div NumEntries \in {0} \union SmallSlots("LINUX")
  <2>1. n % IndexWidth \in Nat
    BY <1>1, <1>3
  <2>2. CASE n = 0
    <3>1. n % IndexWidth = 0
      BY <1>1, <2>2
    <3>2. 0 \div NumEntries = 0
      BY NumberFacts
    <3> QED BY <2>1, <3>1, <3>2
  <2>3. CASE n \in BreaksOf("LINUX")
    BY <2>1, <2>3 DEF SmallSlots
  <2> QED BY <2>2, <2>3
<1> QED BY <1>1, <1>2, <1>3

\* What do_brk makes of a memory.
Broken(M, d, old, n) ==
  LET to  == n % IndexWidth
      cur == old % IndexWidth
  IN  IF to > cur THEN RequestSmall(M, d, cur, to - cur, TRUE)
      ELSE [ok |-> TRUE, M |-> IF n < old THEN FreePages(M, d, to .. cur - 1) ELSE M]

\* The mm_structs with another break.
BrkOf(s, d, n) == [s EXCEPT ![d].brk = n]

LEMMA BrkOfFacts ==
  ASSUME NEW D, NEW m, NEW s, NEW vids, NEW V, NEW H, NEW sub, NEW act, NEW prog, NEW b,
         TaskTypes(D, m, s, vids, V, H, sub, act, prog, b), NEW d \in D, NEW n \in Nat,
         NEW r, r = BrkOf(s, d, n)
  PROVE  /\ TaskTypes(D, m, r, vids, V, H, sub, act, prog, b)
         /\ DOMAIN r = DOMAIN s /\ \A c \in DOMAIN s : r[c].refcount = s[c].refcount
         /\ \A c \in DOMAIN s : c # d => r[c].brk = s[c].brk
         /\ r[d].brk = n
<1>1. DOMAIN s = D /\ \A c \in DOMAIN s : s[c] \in [refcount : 1 .. Cardinality(Tasks), brk : Nat]
  BY DEF TaskTypes
<1>2. DOMAIN r = D
  BY <1>1 DEF BrkOf
<1>3. \A c \in D : c # d => r[c] = s[c]
  BY <1>1 DEF BrkOf
<1>4. r[d] = [s[d] EXCEPT !.brk = n]
  BY <1>1 DEF BrkOf
<1>5. r[d] \in [refcount : 1 .. Cardinality(Tasks), brk : Nat] /\ r[d].brk = n /\ r[d].refcount = s[d].refcount
  BY <1>1, <1>4
<1>6. \A c \in D : r[c] \in [refcount : 1 .. Cardinality(Tasks), brk : Nat]
  BY <1>1, <1>3, <1>5
<1>7. TaskTypes(D, m, r, vids, V, H, sub, act, prog, b)
  BY <1>2, <1>6 DEF TaskTypes
<1>8. \A c \in D : r[c].refcount = s[c].refcount
  BY <1>3, <1>5
<1> QED BY <1>1, <1>2, <1>3, <1>5, <1>7, <1>8

LEMMA BrokenNear ==
  ASSUME NEW M, NEW m, NEW s, NEW vids, NEW V, NEW H, NEW sub, NEW act, NEW prog, NEW b,
         Sound(M, m, s, vids, V, H, sub, act, prog, b), M.panic = "no",
         NEW t \in Tasks, m[t] # NoFrame, sub[t] = "LINUX", NEW n \in Breaks,
         NEW r, r = Broken(M, m[t], s[m[t]].brk, n), NEW L
  PROVE  Near(M, r.M, m[t], L, KeptOf(H, V), V) /\ r.ok \in BOOLEAN
<1> DEFINE d == m[t]
           X == KeptOf(H, V)
           old == s[d].brk
           to == n % IndexWidth
           cur == old % IndexWidth
<1>1. Good(M, X, V) /\ VidOK(Maps(M), V, vids, m, sub, act) /\ TaskOK(m, s, sub, act)
  BY Before
<1>2. /\ d \in DOMAIN M.dir /\ d \in DOMAIN Maps(M) /\ LayOf(M, V, d, s, sub[t], act[t], prog[t])
      /\ s[d] \in [refcount : 1 .. Cardinality(Tasks), brk : Nat]
  BY BeforeTask
<1>3. old \in Nat /\ old \in {0} \union BreaksOf("LINUX")
  BY <1>2 DEF LayOf
<1>4. to \in Nat /\ cur \in Nat /\ cur \div NumEntries \in {0} \union SmallSlots("LINUX")
  <2>1. n \in Nat /\ n \in {0} \union BreaksOf("LINUX")
    BY BreakFacts
  <2>2. \A k \in {0} \union BreaksOf("LINUX") :
          k \in Nat => /\ k % IndexWidth \in Nat
                       /\ (k % IndexWidth) \div NumEntries \in {0} \union SmallSlots("LINUX")
    BY BreakFacts
  <2>3. to \in Nat
    BY <2>1, <2>2
  <2> QED BY <1>3, <2>2, <2>3
<1>5. r = IF to > cur THEN RequestSmall(M, d, cur, to - cur, TRUE)
          ELSE [ok |-> TRUE, M |-> IF n < old THEN FreePages(M, d, to .. cur - 1) ELSE M]
  BY DEF Broken
<1> HIDE DEF d, X, old, to, cur
<1>6. CASE to > cur
  <2>1. r = RequestSmall(M, d, cur, to - cur, TRUE) /\ to - cur \in Nat
    BY <1>4, <1>5, <1>6
  <2>2. cur \div NumEntries \in {0} \union SmallSlots(sub[t])
    BY <1>4
  <2> DEFINE q == to - cur
             rw == TRUE
  <2>3. r = RequestSmall(M, m[t], cur, q, rw) /\ q \in Nat /\ rw \in BOOLEAN
    BY <2>1 DEF d
  <2> HIDE DEF q, rw
  <2>4. Near(M, r.M, m[t], L, KeptOf(H, V), V) /\ r.ok \in BOOLEAN
    BY <1>4, <2>2, <2>3, SmallRequest
  <2> QED BY <2>4
<1>7. CASE ~(to > cur) /\ n < old
  <2> DEFINE I == to .. cur - 1
             N == FreePages(M, d, I)
  <2>1. r.M = N /\ r.ok = TRUE
    BY <1>5, <1>7
  <2>2. \A a \in Cells : Maps(M)[m[t]][a] # V
    BY <1>1, <1>2, OwnRow DEF d
  <2> HIDE DEF N, I
  <2>3. PICK A \in SUBSET Cells : Released(M, N, d, A, X, V)
    BY <1>1, <1>2, <2>2, FreePagesFacts DEF N, d
  <2>4. Near(M, N, d, L, X, V)
    BY <1>1, <1>2, <2>2, <2>3, ReleasedNear DEF d
  <2> QED BY <2>1, <2>4 DEF d, X
<1>8. CASE ~(to > cur) /\ ~(n < old)
  <2>1. r.M = M /\ r.ok = TRUE
    BY <1>5, <1>8
  <2>2. Near(M, M, m[t], L, X, V)
    BY <1>1 DEF Near
  <2> QED BY <2>1, <2>2 DEF X
<1> QED BY <1>6, <1>7, <1>8

LEMMA NearSound ==
  ASSUME NEW M, NEW m, NEW s, NEW vids, NEW V, NEW H, NEW sub, NEW act, NEW prog, NEW b,
         Sound(M, m, s, vids, V, H, sub, act, prog, b), M.panic = "no",
         NEW t \in Tasks, m[t] # NoFrame, NEW L, L \subseteq LargeSlots(sub[t]),
         NEW N, Near(M, N, m[t], L, KeptOf(H, V), V), NEW k \in Nat,
         sub[t] = "LINUX" => k \in {0} \union BreaksOf("LINUX"),
         NEW r, r = BrkOf(s, m[t], k)
  PROVE  Sound(N, m, r, vids, V, H, sub, act, prog, b) /\ Fields(N)
<1>1. TaskTypes(DOMAIN M.dir, m, s, vids, V, H, sub, act, prog, b)
  BY Before
<1>2. m[t] \in DOMAIN M.dir /\ LayOf(M, V, m[t], s, sub[t], act[t], prog[t])
  BY BeforeTask
<1>3. /\ TaskTypes(DOMAIN M.dir, m, r, vids, V, H, sub, act, prog, b)
      /\ DOMAIN r = DOMAIN s /\ \A c \in DOMAIN s : r[c].refcount = s[c].refcount
      /\ \A c \in DOMAIN s : c # m[t] => r[c].brk = s[c].brk
      /\ r[m[t]].brk = k
  <2> DEFINE d == m[t]
             D == DOMAIN M.dir
  <2>1. TaskTypes(D, m, s, vids, V, H, sub, act, prog, b) /\ d \in D /\ r = BrkOf(s, d, k)
    BY <1>1, <1>2
  <2> HIDE DEF d, D
  <2>2. /\ TaskTypes(D, m, r, vids, V, H, sub, act, prog, b)
        /\ DOMAIN r = DOMAIN s /\ \A c \in DOMAIN s : r[c].refcount = s[c].refcount
        /\ \A c \in DOMAIN s : c # d => r[c].brk = s[c].brk
        /\ r[d].brk = k
    BY <2>1, BrkOfFacts
  <2> QED BY <2>2 DEF d, D
<1>4. (\E j \in Nat : act[t] = Load(j)) => \E q \in Programs : q.subsystem = sub[t] /\ prog[t] = q.segments
  BY <1>2 DEF LayOf
<1>5. sub[t] = "LINUX" => r[m[t]].brk \in {0} \union BreaksOf("LINUX")
  BY <1>3
<1>6. TaskStep(t, m, s, vids, sub, act, prog, r, act, prog)
  BY <1>3, <1>4, <1>5 DEF TaskStep
<1>7. Whole(N, m, r, vids, V, H, sub, act, prog) /\ DOMAIN N.dir = DOMAIN M.dir /\ N.panic = "no"
  BY <1>6, NearWhole
<1>9. Sound(N, m, r, vids, V, H, sub, act, prog, b)
  BY <1>3, <1>7, SoundWhole
<1> QED BY <1>9 DEF Sound

LEMMA BrkKeeps ==
  ASSUME MemoryInv, NEW t \in Tasks, NEW n \in Breaks, Brk(t, n)
  PROVE  MemoryInv'
<1> DEFINE old == mms[mm[t]].brk
           r == Broken(Now, mm[t], old, n)
           N == r.M
           k == IF r.ok THEN n ELSE old
           s == BrkOf(mms, mm[t], k)
           L == {}
<1>1. Now.panic = "no" /\ mm[t] # NoFrame /\ subsystem[t] = "LINUX" /\ Becomes(N)
  BY NowFacts DEF Brk, Linux, InUserMode, Lives, Broken
<1>2. /\ mm' = mm /\ mms' = s /\ vidmaps' = vidmaps /\ video' = video /\ heap' = heap
      /\ subsystem' = subsystem /\ doing' = doing /\ program' = program /\ births' = births
  BY DEF Brk, Broken, BrkOf
<1>4. /\ mms[mm[t]] \in [refcount : 1 .. Cardinality(Tasks), brk : Nat]
      /\ LayOf(Now, video, mm[t], mms, subsystem[t], doing[t], program[t])
  BY <1>1, BeforeTask DEF MemoryInv
<1> HIDE DEF r, L, s
<1>5. Near(Now, N, mm[t], L, KeptOf(heap, video), video)
  BY <1>1, BrokenNear DEF MemoryInv, r
<1>6. k \in Nat /\ k \in {0} \union BreaksOf("LINUX")
  <2>1. old \in Nat /\ old \in {0} \union BreaksOf("LINUX")
    BY <1>1, <1>4 DEF LayOf
  <2>2. n \in Nat /\ n \in BreaksOf("LINUX")
    BY BreakFacts
  <2> QED BY <2>1, <2>2
<1>7. L \subseteq LargeSlots(subsystem[t])
  BY DEF L
<1> HIDE DEF k, N
<1>8. s = BrkOf(mms, mm[t], k)
  BY DEF s
<1>9. Sound(N, mm, s, vidmaps, video, heap, subsystem, doing, program, births) /\ Fields(N)
  <2>1. Sound(Now, mm, mms, vidmaps, video, heap, subsystem, doing, program, births)
    BY DEF MemoryInv
  <2>2. subsystem[t] = "LINUX" => k \in {0} \union BreaksOf("LINUX")
    BY <1>6
  <2>3. k \in Nat /\ Now.panic = "no" /\ mm[t] # NoFrame
    BY <1>1, <1>6
  <2> QED BY <1>5, <1>7, <1>8, <2>1, <2>2, <2>3, NearSound
<1>10. Now' = N
  BY <1>1, <1>9, BecomesFacts
<1> QED BY <1>2, <1>9, <1>10 DEF MemoryInv

\* The segments of a program lie where those of its subsystem do.
LEMMA SegmentFacts ==
  ASSUME NEW q \in Programs, NEW k \in DOMAIN q.segments, NEW seg, seg = q.segments[k]
  PROVE  /\ q.subsystem \in Subsystems /\ q.segments \in Seq(Segments)
         /\ seg \in Segments /\ seg.slot * NumEntries + seg.page \in Nat
         /\ seg.slot * NumEntries + seg.page + seg.num \in Nat
         /\ (seg.slot * NumEntries + seg.page) \div NumEntries = seg.slot
         /\ seg.large => seg.slot \in LargeSlots(q.subsystem) /\ seg.slot \in UserSlots
         /\ ~seg.large => seg.slot \in SmallSlots(q.subsystem)
         /\ ~seg.large /\ q.subsystem = "LINUX"
              => seg.slot * NumEntries + seg.page + seg.num \in BreaksOf("LINUX")
<1>1. /\ q.subsystem \in Subsystems /\ q.segments \in Seq(Segments)
      /\ seg.large => seg.slot \in UserSlots
  BY ProgramsAssumption
<1>2. seg \in Segments /\ seg \in Range(q.segments)
  BY <1>1 DEF Range
<1>3. seg.slot \in Nat /\ seg.page \in 0 .. NumEntries - 1 /\ seg.num \in Nat /\ seg.large \in BOOLEAN
  BY <1>2, NumberFacts DEF Segments
<1>4. /\ seg.slot * NumEntries + seg.page \in Nat
      /\ seg.slot * NumEntries + seg.page + seg.num \in Nat
      /\ (seg.slot * NumEntries + seg.page) \div NumEntries = seg.slot
  <2>1. NumEntries \in Nat \ {0}
    BY NumberFacts
  <2> DEFINE x == seg.slot
             y == seg.page
  <2>2. x \in Nat /\ y \in 0 .. NumEntries - 1
    BY <1>3
  <2> HIDE DEF x, y
  <2>3. x * NumEntries + y \in Nat
    BY <2>1, <2>2
  <2>4. (x * NumEntries + y) \div NumEntries = x
    BY <2>1, <2>2
  <2> QED BY <1>3, <2>3, <2>4 DEF x, y
<1>5. seg \in SegmentsOf(q.subsystem, seg.large)
  BY <1>2 DEF SegmentsOf
<1>6. seg.large => seg.slot \in LargeSlots(q.subsystem)
  <2> SUFFICES ASSUME seg.large
               PROVE  seg.slot \in LargeSlots(q.subsystem)
    OBVIOUS
  <2>1. seg.large = TRUE
    BY <1>3
  <2> QED BY <1>5, <2>1 DEF LargeSlots
<1>7. ASSUME ~seg.large
      PROVE  /\ seg.slot \in SmallSlots(q.subsystem)
             /\ q.subsystem = "LINUX" => seg.slot * NumEntries + seg.page + seg.num \in BreaksOf("LINUX")
  <2>1. seg.large = FALSE
    BY <1>3, <1>7
  <2>2. seg \in SegmentsOf(q.subsystem, FALSE)
    BY <1>5, <2>1
  <2>3. seg.slot \in SmallSlots(q.subsystem)
    BY <2>2 DEF SmallSlots
  <2>4. q.subsystem = "LINUX" => seg.slot * NumEntries + seg.page + seg.num \in BreaksOf("LINUX")
    BY <2>2 DEF BreaksOf
  <2> QED BY <2>3, <2>4
<1> QED BY <1>1, <1>2, <1>4, <1>6, <1>7

\* The file's data comes into the frames F.
FilledWith(M, F, v) ==
  [M EXCEPT !.content = [f \in Frames |-> IF f \in F THEN v ELSE M.content[f]]]

LEMMA FilledWithNear ==
  ASSUME NEW M, NEW N, NEW d, NEW L, NEW X, NEW V, Near(M, N, d, L, X, V),
         NEW F, NEW v \in Values, NEW W, W = FilledWith(N, F, v)
  PROVE  Near(M, W, d, L, X, V)
<1> DEFINE c == [f \in Frames |-> IF f \in F THEN v ELSE N.content[f]]
<1>1. Good(N, X, V)
  BY DEF Near
<1>2. N = [phys |-> N.phys, dir |-> N.dir, table |-> N.table, content |-> N.content, panic |-> N.panic]
  BY <1>1 DEF Good, Fields
<1>3. c \in [Frames -> Values]
  BY <1>1 DEF Good
<1>4. W = [N EXCEPT !.content = c]
  BY DEF FilledWith
<1> HIDE DEF c
<1>5. W = [phys |-> N.phys, dir |-> N.dir, table |-> N.table, content |-> c, panic |-> N.panic]
  BY <1>2, <1>4
<1>6. /\ W.phys = N.phys /\ W.dir = N.dir /\ W.table = N.table /\ W.content = c /\ W.panic = N.panic
      /\ Fields(W)
  BY <1>5 DEF Fields
<1>7. Maps(W) = Maps(N) /\ Held(W, X) = Held(N, X)
  BY <1>6 DEF Maps, Held
<1>8. Good(W, X, V)
  BY <1>1, <1>3, <1>6, <1>7 DEF Good
<1>9. \A e : LargeIn(W, e) = LargeIn(N, e)
  BY <1>6 DEF LargeIn
<1> QED BY <1>6, <1>7, <1>8, <1>9 DEF Near

\* The request of exec for a segment.
SegmentRequest(M, d, seg) ==
  IF seg.large THEN RequestLarge(M, d, seg.slot)
  ELSE RequestSmall(M, d, seg.slot * NumEntries + seg.page, seg.num, seg.rw)

LEMMA SegmentNear ==
  ASSUME NEW M, NEW m, NEW s, NEW vids, NEW V, NEW H, NEW sub, NEW act, NEW prog, NEW b,
         Sound(M, m, s, vids, V, H, sub, act, prog, b), M.panic = "no",
         NEW t \in Tasks, m[t] # NoFrame, NEW q \in Programs, q.subsystem = sub[t],
         NEW k \in DOMAIN q.segments, NEW seg, seg = q.segments[k],
         NEW r, r = SegmentRequest(M, m[t], seg), NEW L, L = LargeSlots(sub[t])
  PROVE  Near(M, r.M, m[t], L, KeptOf(H, V), V) /\ r.ok \in BOOLEAN
<1>1. /\ seg \in Segments /\ seg.slot * NumEntries + seg.page \in Nat
      /\ (seg.slot * NumEntries + seg.page) \div NumEntries = seg.slot
      /\ seg.large => seg.slot \in L /\ seg.slot \in UserSlots
      /\ ~seg.large => seg.slot \in SmallSlots(sub[t])
  BY SegmentFacts
<1>2. CASE seg.large
  <2> DEFINE X == KeptOf(H, V)
             d == m[t]
             l == seg.slot
  <2>1. Good(M, X, V)
    BY Before
  <2>2. d \in DOMAIN M.dir /\ sub[t] \in Subsystems
    BY BeforeTask
  <2>3. l \in UserSlots /\ l \in L /\ r = RequestLarge(M, d, l)
    BY <1>1, <1>2 DEF SegmentRequest
  <2>4. l # Spare
    BY <2>2, <2>3, SpareFacts
  <2> HIDE DEF X, d, l
  <2>5. AskedLarge(M, r, d, l, X, V)
    BY <2>1, <2>2, <2>3, RequestLargeFacts
  <2>6. Good(r.M, X, V) /\ Grown(M, r.M, d, l, V) /\ r.ok \in BOOLEAN
    BY <2>5 DEF AskedLarge
  <2>7. \A c \in DOMAIN M.dir : c # d => LargeIn(r.M, c) = LargeIn(M, c)
    BY <2>5 DEF AskedLarge
  <2>8. LargeIn(r.M, d) \subseteq LargeIn(M, d) \union L
    <3>1. LargeIn(r.M, d) \subseteq LargeIn(M, d) \union {l}
      BY <2>2, <2>5 DEF AskedLarge
    <3> QED BY <2>3, <3>1
  <2>9. Near(M, r.M, d, L, X, V)
    BY <2>1, <2>2, <2>4, <2>6, <2>7, <2>8, GrownNear
  <2> QED BY <2>6, <2>9 DEF d, X
<1>3. CASE ~seg.large
  <2> DEFINE i == seg.slot * NumEntries + seg.page
             n == seg.num
             rw == seg.rw
  <2>1. i \in Nat /\ n \in Nat /\ rw \in BOOLEAN
    BY <1>1 DEF Segments
  <2>2. i \div NumEntries \in {0} \union SmallSlots(sub[t])
    BY <1>1, <1>3
  <2>3. r = RequestSmall(M, m[t], i, n, rw)
    BY <1>3 DEF SegmentRequest
  <2> HIDE DEF i, n, rw
  <2> QED BY <2>1, <2>2, <2>3, SmallRequest
<1> QED BY <1>2, <1>3

\* The mm_structs, what the task does and its program after that request.
LoadBrk(s, d, seg, ok) ==
  IF ok /\ ~seg.large /\ seg.rw /\ (s[d].brk = 0 \/ seg.bss)
    THEN BrkOf(s, d, seg.slot * NumEntries + seg.page + seg.num) ELSE s

LoadMore(prog, t, k, ok) == ok /\ k < Len(prog[t])

LoadAct(act, prog, t, k, ok) ==
  Doing(act, t, IF LoadMore(prog, t, k, ok) THEN Load(k + 1) ELSE IF ok THEN User ELSE Doomed)

LoadProgram(prog, t, k, ok) ==
  [prog EXCEPT ![t] = IF LoadMore(prog, t, k, ok) THEN prog[t] ELSE << >>]

\* The break of a program for subsystem u; the mm_structs, but for d's break.
BrkOK(u, n) == u = "LINUX" => n \in {0} \union BreaksOf("LINUX")

MmsStep(s, r, d) ==
  /\ DOMAIN r = DOMAIN s
  /\ \A c \in DOMAIN s : r[c].refcount = s[c].refcount /\ (c # d => r[c].brk = s[c].brk)

LEMMA LoadBrkFacts ==
  ASSUME NEW D, NEW m, NEW s, NEW vids, NEW V, NEW H, NEW sub, NEW act, NEW prog, NEW b,
         TaskTypes(D, m, s, vids, V, H, sub, act, prog, b), NEW d \in D, NEW u,
         BrkOK(u, s[d].brk),
         NEW q \in Programs, q.subsystem = u, NEW k \in DOMAIN q.segments,
         NEW seg, seg = q.segments[k], NEW ok, NEW r, r = LoadBrk(s, d, seg, ok)
  PROVE  /\ TaskTypes(D, m, r, vids, V, H, sub, act, prog, b)
         /\ MmsStep(s, r, d) /\ BrkOK(u, r[d].brk)
<1> DEFINE n == seg.slot * NumEntries + seg.page + seg.num
<1>1. n \in Nat
  BY SegmentFacts
<1>2. ~seg.large /\ u = "LINUX" => n \in BreaksOf("LINUX")
  BY SegmentFacts
<1>3. CASE r = s
  BY <1>3 DEF MmsStep
<1>4. CASE r # s
  <2>1. ~seg.large /\ r = BrkOf(s, d, n)
    BY <1>4 DEF LoadBrk
  <2> HIDE DEF n
  <2>2. /\ TaskTypes(D, m, r, vids, V, H, sub, act, prog, b)
        /\ DOMAIN r = DOMAIN s /\ \A c \in DOMAIN s : r[c].refcount = s[c].refcount
        /\ \A c \in DOMAIN s : c # d => r[c].brk = s[c].brk
        /\ r[d].brk = n
    BY <1>1, <2>1, BrkOfFacts
  <2> QED BY <1>2, <2>1, <2>2 DEF MmsStep, BrkOK
<1> QED BY <1>3, <1>4

LEMMA LoadActFacts ==
  ASSUME NEW D, NEW m, NEW s, NEW vids, NEW V, NEW H, NEW sub, NEW act, NEW prog, NEW b,
         TaskTypes(D, m, s, vids, V, H, sub, act, prog, b), NEW t \in Tasks,
         NEW q \in Programs, prog[t] = q.segments, NEW k \in DOMAIN q.segments, NEW ok,
         NEW do, do = LoadAct(act, prog, t, k, ok), NEW p, p = LoadProgram(prog, t, k, ok)
  PROVE  /\ TaskTypes(D, m, s, vids, V, H, sub, do, p, b)
         /\ \A u \in Tasks : u # t => do[u] = act[u] /\ p[u] = prog[u]
         /\ (\E j \in Nat : do[t] = Load(j)) => p[t] = q.segments
<1> DEFINE more == LoadMore(prog, t, k, ok)
           x == IF more THEN Load(k + 1) ELSE IF ok THEN User ELSE Doomed
           y == IF more THEN prog[t] ELSE << >>
<1>1. /\ act = [u \in Tasks |-> act[u]] /\ \A u \in Tasks : ActOK(act[u], prog[u])
      /\ prog \in [Tasks -> {z.segments : z \in Programs} \union {<< >>}]
  BY DEF TaskTypes
<1>2. do = Doing(act, t, x)
  BY DEF LoadAct
<1>3. p = [prog EXCEPT ![t] = y]
  BY DEF LoadProgram
<1>4. more => k + 1 \in DOMAIN q.segments
  <2>1. q.segments \in Seq(Segments)
    BY ProgramsAssumption
  <2>2. DOMAIN q.segments = 1 .. Len(q.segments) /\ Len(q.segments) \in Nat
    BY <2>1
  <2>3. k \in 1 .. Len(q.segments)
    BY <2>2
  <2>4. more => k < Len(q.segments)
    BY DEF LoadMore
  <2> QED BY <2>2, <2>3, <2>4
<1>5. ActOK(x, y)
  <2>1. CASE more
    <3>1. x = Load(k + 1) /\ y = q.segments
      BY <2>1
    <3> QED BY <1>4, <2>1, <3>1 DEF ActOK
  <2>2. CASE ~more
    <3>1. x = User \/ x = Doomed
      BY <2>2
    <3> QED BY <3>1 DEF ActOK
  <2> QED BY <2>1, <2>2
<1>6. (\E j \in Nat : x = Load(j)) => y = q.segments
  <2>1. CASE more
    BY <2>1
  <2>2. CASE ~more
    <3>1. x = User \/ x = Doomed
      BY <2>2
    <3> QED BY <3>1, ActFacts
  <2> QED BY <2>1, <2>2
<1>7. y \in {z.segments : z \in Programs} \union {<< >>}
  <2>1. y = q.segments \/ y = << >>
    OBVIOUS
  <2> HIDE DEF y
  <2> QED BY <2>1
<1> HIDE DEF x, y, more
<1>8. do = [u \in Tasks |-> do[u]] /\ do[t] = x /\ \A u \in Tasks : u # t => do[u] = act[u]
  BY <1>1, <1>2, Zenon DEF Doing
<1>9. /\ p \in [Tasks -> {z.segments : z \in Programs} \union {<< >>}] /\ p[t] = y
      /\ \A u \in Tasks : u # t => p[u] = prog[u]
  BY <1>1, <1>3, <1>7
<1>10. ASSUME NEW u \in Tasks
       PROVE  ActOK(do[u], p[u])
  <2>1. CASE u = t
    BY <1>5, <1>8, <1>9, <2>1
  <2>2. CASE u # t
    BY <1>1, <1>8, <1>9, <2>2
  <2> QED BY <2>1, <2>2
<1>11. TaskTypes(D, m, s, vids, V, H, sub, do, p, b)
  <2>1. /\ m \in [Tasks -> D \union {NoFrame}]
        /\ DOMAIN s = D
        /\ \A d \in DOMAIN s : s[d] \in [refcount : 1 .. Cardinality(Tasks), brk : Nat]
        /\ \A z \in vids : z \in Tasks \X D \X Cells
        /\ V \in Frames /\ H \in SUBSET Frames
        /\ sub \in [Tasks -> Subsystems]
        /\ b \in 0 .. MaxBirths
    BY DEF TaskTypes
  <2> QED BY <1>8, <1>9, <1>10, <2>1 DEF TaskTypes
<1> QED BY <1>6, <1>8, <1>9, <1>11

\* The memory after that request, with the frames F of the segment's pages.
Loaded(r, F, seg, u) ==
  IF r.ok THEN FilledWith(r.M, F, seg.data)
  ELSE IF u = "ECE391" THEN Panics(r.M, "oom") ELSE r.M

LEMMA LoadSound ==
  ASSUME NEW M, NEW m, NEW s, NEW vids, NEW V, NEW H, NEW sub, NEW act, NEW prog, NEW b,
         Sound(M, m, s, vids, V, H, sub, act, prog, b), M.panic = "no",
         NEW t \in Tasks, m[t] # NoFrame, NEW k \in DOMAIN prog[t], act[t] = Load(k),
         NEW seg, seg = prog[t][k], NEW r, r = SegmentRequest(M, m[t], seg),
         NEW F, NEW N, N = Loaded(r, F, seg, sub[t]),
         NEW h, h = LoadBrk(s, m[t], seg, r.ok),
         NEW do, do = LoadAct(act, prog, t, k, r.ok), NEW p, p = LoadProgram(prog, t, k, r.ok)
  PROVE  Sound(N, m, h, vids, V, H, sub, do, p, b) /\ Fields(N)
<1> DEFINE d == m[t]
           D == DOMAIN M.dir
           X == KeptOf(H, V)
           L == LargeSlots(sub[t])
<1>1. /\ TaskTypes(D, m, s, vids, V, H, sub, act, prog, b)
      /\ VidOK(Maps(M), V, vids, m, sub, act) /\ TaskOK(m, s, sub, act)
  BY Before
<1>2. LayOf(M, V, d, s, sub[t], act[t], prog[t]) /\ d \in D
  BY BeforeTask
<1>3. k \in Nat
  <2>1. prog[t] \in {z.segments : z \in Programs} \union {<< >>}
    BY <1>1 DEF TaskTypes
  <2>2. \A z \in Programs : z.segments \in Seq(Segments)
    BY ProgramsAssumption
  <2>3. prog[t] \in Seq(Segments)
    BY <2>1, <2>2
  <2>4. DOMAIN prog[t] = 1 .. Len(prog[t])
    BY <2>3
  <2> QED BY <2>4
<1>4. PICK q \in Programs : q.subsystem = sub[t] /\ prog[t] = q.segments
  BY <1>2, <1>3 DEF LayOf
<1>5. k \in DOMAIN q.segments /\ seg = q.segments[k]
  BY <1>4
<1>6. seg.data \in Values
  <2>1. seg \in Segments
    BY <1>5, SegmentFacts
  <2> QED BY <2>1 DEF Segments
<1>7. Near(M, r.M, m[t], L, X, V) /\ r.ok \in BOOLEAN
  <2> HIDE DEF L
  <2>1. L = LargeSlots(sub[t])
    BY DEF L
  <2> QED BY <1>4, <1>5, <2>1, SegmentNear
<1>8. sub[t] = "LINUX" => s[d].brk \in {0} \union BreaksOf("LINUX")
  BY <1>2 DEF LayOf
<1> DEFINE ok == r.ok
           u == sub[t]
<1>9. TaskTypes(D, m, h, vids, V, H, sub, act, prog, b) /\ MmsStep(s, h, d) /\ BrkOK(u, h[d].brk)
  <2>1. h = LoadBrk(s, d, seg, ok) /\ q.subsystem = u
    BY <1>4
  <2>2. BrkOK(u, s[d].brk)
    BY <1>8 DEF BrkOK
  <2>3. TaskTypes(D, m, s, vids, V, H, sub, act, prog, b) /\ d \in D
    BY <1>1, <1>2
  <2> HIDE DEF d, D, ok, u
  <2> QED BY <1>5, <2>1, <2>2, <2>3, LoadBrkFacts
<1>10. /\ TaskTypes(D, m, h, vids, V, H, sub, do, p, b)
       /\ \A c \in Tasks : c # t => do[c] = act[c] /\ p[c] = prog[c]
       /\ (\E j \in Nat : do[t] = Load(j)) => p[t] = q.segments
  <2>1. do = LoadAct(act, prog, t, k, ok) /\ p = LoadProgram(prog, t, k, ok)
    OBVIOUS
  <2>2. TaskTypes(D, m, h, vids, V, H, sub, act, prog, b)
    BY <1>9
  <2>3. prog[t] = q.segments /\ k \in DOMAIN q.segments
    BY <1>4
  <2> HIDE DEF D, ok
  <2> QED BY <2>1, <2>2, <2>3, LoadActFacts
<1>11. \A x \in vids : x[1] # t
  <2>1. \A x \in vids : act[x[1]] \in {User, Doomed}
    BY <1>1 DEF VidOK
  <2> QED BY <2>1, ActFacts
<1>12. TaskStep(t, m, s, vids, sub, act, prog, h, do, p)
  BY <1>4, <1>9, <1>10, <1>11, Zenon DEF TaskStep, MmsStep, BrkOK
<1>13. ASSUME NEW W, Near(M, W, m[t], L, X, V)
       PROVE  Sound(W, m, h, vids, V, H, sub, do, p, b) /\ Fields(W)
  <2> HIDE DEF L, D
  <2>1. L \subseteq LargeSlots(sub[t])
    BY DEF L
  <2>2. Whole(W, m, h, vids, V, H, sub, do, p) /\ DOMAIN W.dir = DOMAIN M.dir /\ W.panic = "no"
    BY <1>12, <1>13, <2>1, NearWhole
  <2>3. TaskTypes(DOMAIN W.dir, m, h, vids, V, H, sub, do, p, b)
    BY <1>10, <2>2 DEF D
  <2>4. Sound(W, m, h, vids, V, H, sub, do, p, b)
    BY <2>2, <2>3, SoundWhole
  <2> QED BY <2>4 DEF Sound
<1>14. CASE r.ok
  <2> DEFINE v == seg.data
  <2>1. N = FilledWith(r.M, F, v)
    BY <1>14 DEF Loaded
  <2> HIDE DEF v, L, X
  <2>2. Near(M, N, m[t], L, X, V)
    BY <1>6, <1>7, <2>1, FilledWithNear DEF v
  <2> QED BY <1>13, <2>2
<1>15. CASE ~r.ok /\ sub[t] # "ECE391"
  <2>1. N = r.M
    BY <1>15 DEF Loaded
  <2> QED BY <1>7, <1>13, <2>1
<1>16. CASE ~r.ok /\ sub[t] = "ECE391"
  <2> DEFINE K == r.M
  <2>1. N = Panics(K, "oom")
    BY <1>16 DEF Loaded
  <2>2. Sound(K, m, h, vids, V, H, sub, do, p, b)
    BY <1>7, <1>13
  <2> HIDE DEF K
  <2>3. PhysTypes(K) /\ Split(K.phys) /\ Fields(K) /\ TaskTypes(DOMAIN K.dir, m, h, vids, V, H, sub, do, p, b)
    BY <2>2 DEF Sound
  <2>4. K.panic \in {"no", "oom"}
    BY <1>7 DEF Near, K
  <2>5. Sound(N, m, h, vids, V, H, sub, do, p, b)
    BY <2>1, <2>3, <2>4, SoundPanics
  <2> QED BY <2>5 DEF Sound
<1> QED BY <1>14, <1>15, <1>16

LEMMA LoadSegmentKeeps ==
  ASSUME MemoryInv, NEW t \in Tasks, LoadSegment(t)
  PROVE  MemoryInv'
<1>1. PICK k \in DOMAIN program[t] :
        LET d   == mm[t]
            seg == program[t][k]
            i   == seg.slot * NumEntries + seg.page
            r   == IF seg.large THEN RequestLarge(Now, d, seg.slot)
                   ELSE RequestSmall(Now, d, i, seg.num, seg.rw)
            F   == {Entry(r.M, d, <<seg.slot, p>>).frame : p \in seg.page .. seg.page + seg.num - 1}
            M   == [r.M EXCEPT !.content = [f \in Frames |-> IF f \in F THEN seg.data ELSE r.M.content[f]]]
            more == r.ok /\ k < Len(program[t])
        IN  /\ Lives(t) /\ doing[t] = Load(k)
            /\ Becomes(IF r.ok THEN M
                       ELSE IF subsystem[t] = "ECE391" THEN Panics(r.M, "oom") ELSE r.M)
            /\ mms' = IF r.ok /\ ~seg.large /\ seg.rw /\ (mms[d].brk = 0 \/ seg.bss)
                        THEN [mms EXCEPT ![d].brk = i + seg.num] ELSE mms
            /\ doing' = [doing EXCEPT ![t] = IF more THEN Load(k + 1) ELSE IF r.ok THEN User ELSE Doomed]
            /\ program' = [program EXCEPT ![t] = IF more THEN program[t] ELSE << >>]
            /\ UNCHANGED <<mm, vidmaps, video, heap, subsystem, births>>
  BY Zenon DEF LoadSegment
<1> DEFINE seg == program[t][k]
           r == SegmentRequest(Now, mm[t], seg)
           F == {Entry(r.M, mm[t], <<seg.slot, p>>).frame : p \in seg.page .. seg.page + seg.num - 1}
           N == Loaded(r, F, seg, subsystem[t])
           h == LoadBrk(mms, mm[t], seg, r.ok)
           do == LoadAct(doing, program, t, k, r.ok)
           p == LoadProgram(program, t, k, r.ok)
<1>2. Now.panic = "no" /\ mm[t] # NoFrame /\ doing[t] = Load(k)
  BY <1>1, NowFacts, Zenon DEF Lives
<1>3. Becomes(N)
  BY <1>1, Zenon DEF SegmentRequest, Loaded, FilledWith
<1>4. mms' = h
  BY <1>1, Zenon DEF SegmentRequest, LoadBrk, BrkOf
<1>5. doing' = do /\ program' = p
  BY <1>1, Zenon DEF SegmentRequest, LoadAct, LoadProgram, LoadMore, Doing
<1>6. /\ mm' = mm /\ vidmaps' = vidmaps /\ video' = video /\ heap' = heap
      /\ subsystem' = subsystem /\ births' = births
  BY <1>1, Zenon
<1>7. /\ r = SegmentRequest(Now, mm[t], seg) /\ N = Loaded(r, F, seg, subsystem[t])
      /\ h = LoadBrk(mms, mm[t], seg, r.ok) /\ seg = program[t][k]
      /\ do = LoadAct(doing, program, t, k, r.ok) /\ p = LoadProgram(program, t, k, r.ok)
  OBVIOUS
<1>8. Sound(Now, mm, mms, vidmaps, video, heap, subsystem, doing, program, births)
  BY DEF MemoryInv
<1> HIDE DEF seg, r, F, N, h, do, p
<1>9. Sound(N, mm, h, vidmaps, video, heap, subsystem, do, p, births) /\ Fields(N)
  BY <1>2, <1>7, <1>8, LoadSound
<1>10. Now' = N
  BY <1>3, <1>9, BecomesFacts
<1> QED BY <1>4, <1>5, <1>6, <1>9, <1>10 DEF MemoryInv

-----------------------------------------------------------------------------
(* Tasks come, go, and change their directories. *)

Fresh(k) == [refcount |-> 1, brk |-> k]

\* The mm_structs without one user of d.
Leave(s, d) ==
  IF s[d].refcount > 1 THEN [s EXCEPT ![d].refcount = @ - 1] ELSE Without(s, {d})

\* Nothing but task t is different, and others that have no directory rest.
Apart(t, m, sub, sub2, act2) ==
  /\ \A u \in Tasks : u # t => sub2[u] = sub[u]
  /\ \A u \in Tasks : u # t /\ m[u] = NoFrame => act2[u] = User

LEMMA PutFacts ==
  ASSUME NEW s, NEW n, NEW x, n \notin DOMAIN s, NEW r, r = Put(s, n, x)
  PROVE  /\ \A d : d \in DOMAIN r <=> d \in DOMAIN s \/ d = n
         /\ r[n] = x /\ \A d \in DOMAIN s : r[d] = s[d]
BY DEF Put

LEMMA MovedFacts ==
  ASSUME NEW D, NEW m \in [Tasks -> D], NEW t \in Tasks, NEW x
  PROVE  Moved(m, t, x)[t] = x /\ \A u \in Tasks : u # t => Moved(m, t, x)[u] = m[u]
BY DEF Moved

\* A task gets a directory of its own.
LEMMA TaskBorn ==
  ASSUME NEW m, NEW s, NEW sub, NEW act, TaskOK(m, s, sub, act), NoFrame \notin DOMAIN s,
         m \in [Tasks -> DOMAIN s \union {NoFrame}], NEW c \in Tasks, m[c] = NoFrame,
         NEW n, n \notin DOMAIN s, n # NoFrame, NEW k,
         NEW sub2, NEW act2, Apart(c, m, sub, sub2, act2)
  PROVE  TaskOK(Moved(m, c, n), Put(s, n, Fresh(k)), sub2, act2)
<1> DEFINE D == DOMAIN s \union {NoFrame}
           m2 == Moved(m, c, n)
           x == Fresh(k)
           s2 == Put(s, n, x)
<1>0. m \in [Tasks -> D]
  OBVIOUS
<1> HIDE DEF D, x
<1>1. m2[c] = n /\ \A u \in Tasks : u # c => m2[u] = m[u]
  BY <1>0, MovedFacts
<1>2. /\ \A d : d \in DOMAIN s2 <=> d \in DOMAIN s \/ d = n
      /\ s2[n] = x /\ \A d \in DOMAIN s : s2[d] = s[d]
  <2>1. s2 = Put(s, n, x)
    OBVIOUS
  <2> HIDE DEF s2
  <2> QED BY <2>1, PutFacts
<1>3. /\ Cardinality(TasksOf(m2, n)) = Cardinality(TasksOf(m, n)) + 1
      /\ \A d : d # NoFrame /\ d # n => TasksOf(m2, d) = TasksOf(m, d)
  <2>1. m \in [Tasks -> D] /\ n # m[c] /\ m2 = Moved(m, c, n)
    BY <1>0
  <2> HIDE DEF m2
  <2>2. /\ Cardinality(TasksOf(m2, n)) = Cardinality(TasksOf(m, n)) + 1
        /\ \A d : d # m[c] /\ d # n => TasksOf(m2, d) = TasksOf(m, d)
    BY <2>1, TaskMoved
  <2> QED BY <2>2
<1> HIDE DEF m2, s2
<1>4. Cardinality(TasksOf(m, n)) = 0
  <2>1. TasksOf(m, n) = {}
    BY DEF TasksOf
  <2> QED BY <2>1, TasksOfFacts
<1>5. ASSUME NEW d \in DOMAIN s2
      PROVE  s2[d].refcount = Cardinality(TasksOf(m2, d))
  <2>1. CASE d = n
    BY <1>2, <1>3, <1>4, <2>1 DEF Fresh, x
  <2>2. CASE d \in DOMAIN s
    <3>1. TasksOf(m2, d) = TasksOf(m, d)
      BY <1>3, <2>2
    <3>2. s[d].refcount = Cardinality(TasksOf(m, d))
      BY <2>2 DEF TaskOK
    <3> QED BY <1>2, <2>2, <3>1, <3>2
  <2> QED BY <1>2, <2>1, <2>2
<1>6. ASSUME NEW t \in Tasks, NEW u \in Tasks, t # u, m2[t] = m2[u], m2[t] # NoFrame
      PROVE  sub2[t] = "LINUX"
  <2>1. \A v \in Tasks : m[v] # n
    OBVIOUS
  <2>2. t # c /\ u # c
    BY <1>1, <1>6, <2>1
  <2>3. m[t] = m[u] /\ m[t] # NoFrame
    BY <1>1, <1>6, <2>2
  <2>4. sub[t] = "LINUX"
    BY <1>6, <2>3 DEF TaskOK
  <2> QED BY <2>2, <2>4 DEF Apart
<1>7. ASSUME NEW t \in Tasks, m2[t] = NoFrame
      PROVE  act2[t] = User
  BY <1>1, <1>7 DEF Apart
<1>8. TaskOK(m2, s2, sub2, act2)
  BY <1>5, <1>6, <1>7 DEF TaskOK
<1> QED BY <1>8 DEF m2, s2, x

\* A task leaves its directory.
LEMMA LeaveFacts ==
  ASSUME NEW s, NEW d \in DOMAIN s, s[d].refcount \in Nat \ {0},
         s[d] = [refcount |-> s[d].refcount, brk |-> s[d].brk], NEW r, r = Leave(s, d)
  PROVE  /\ DOMAIN r = IF s[d].refcount = 1 THEN DOMAIN s \ {d} ELSE DOMAIN s
         /\ \A c \in DOMAIN s : c # d => r[c] = s[c]
         /\ d \in DOMAIN r => /\ s[d].refcount > 1
                              /\ r[d] = [refcount |-> s[d].refcount - 1, brk |-> s[d].brk]
<1>1. CASE s[d].refcount > 1
  <2>1. r = [s EXCEPT ![d].refcount = @ - 1]
    BY <1>1 DEF Leave
  <2>2. DOMAIN r = DOMAIN s /\ (\A c \in DOMAIN s : c # d => r[c] = s[c])
        /\ r[d] = [s[d] EXCEPT !.refcount = @ - 1]
    BY <2>1
  <2>3. r[d] = [refcount |-> s[d].refcount - 1, brk |-> s[d].brk]
    BY <2>2
  <2> QED BY <1>1, <2>2, <2>3
<1>2. CASE ~(s[d].refcount > 1)
  <2>1. r = Without(s, {d})
    BY <1>2 DEF Leave
  <2>2. DOMAIN r = DOMAIN s \ {d} /\ \A c \in DOMAIN s : c # d => r[c] = s[c]
    BY <2>1 DEF Without
  <2>3. s[d].refcount = 1
    BY <1>2
  <2> QED BY <2>2, <2>3
<1> QED BY <1>1, <1>2

LEMMA TaskLeft ==
  ASSUME NEW m, NEW s, NEW sub, NEW act, TaskOK(m, s, sub, act), NoFrame \notin DOMAIN s,
         m \in [Tasks -> DOMAIN s \union {NoFrame}], NEW t \in Tasks, NEW d, d = m[t], d # NoFrame,
         s[d] = [refcount |-> s[d].refcount, brk |-> s[d].brk],
         NEW r, r = Leave(s, d),
         NEW sub2, NEW act2, Apart(t, m, sub, sub2, act2), act2[t] = User
  PROVE  /\ TaskOK(Moved(m, t, NoFrame), r, sub2, act2)
         /\ s[d].refcount \in Nat \ {0}
         /\ s[d].refcount = 1 => \A u \in Tasks : u # t => m[u] # d
<1> DEFINE D == DOMAIN s \union {NoFrame}
           m2 == Moved(m, t, NoFrame)
<1>0. m \in [Tasks -> D]
  OBVIOUS
<1> HIDE DEF D
<1>1. m2[t] = NoFrame /\ \A u \in Tasks : u # t => m2[u] = m[u]
  BY <1>0, MovedFacts
<1>2. d \in DOMAIN s
  OBVIOUS
<1>3. /\ Cardinality(TasksOf(m2, d)) = Cardinality(TasksOf(m, d)) - 1
      /\ \A c : c # d /\ c # NoFrame => TasksOf(m2, c) = TasksOf(m, c)
  <2> DEFINE x == NoFrame
  <2>1. m \in [Tasks -> D] /\ x # m[t] /\ m2 = Moved(m, t, x)
    BY <1>0
  <2> HIDE DEF m2, x
  <2>2. /\ Cardinality(TasksOf(m2, m[t])) = Cardinality(TasksOf(m, m[t])) - 1
        /\ \A c : c # m[t] /\ c # x => TasksOf(m2, c) = TasksOf(m, c)
    BY <2>1, TaskMoved
  <2> QED BY <2>2 DEF x
<1> HIDE DEF m2
<1>4. s[d].refcount = Cardinality(TasksOf(m, d))
  BY <1>2 DEF TaskOK
<1>5. s[d].refcount \in Nat \ {0}
  <2>1. t \in TasksOf(m, d)
    BY DEF TasksOf
  <2>2. Cardinality(TasksOf(m, d)) \in Nat /\ (Cardinality(TasksOf(m, d)) = 0 <=> TasksOf(m, d) = {})
    BY TasksOfFacts
  <2> QED BY <1>4, <2>1, <2>2
<1>6. /\ DOMAIN r = IF s[d].refcount = 1 THEN DOMAIN s \ {d} ELSE DOMAIN s
      /\ \A c \in DOMAIN s : c # d => r[c] = s[c]
      /\ d \in DOMAIN r => /\ s[d].refcount > 1
                           /\ r[d] = [refcount |-> s[d].refcount - 1, brk |-> s[d].brk]
  BY <1>2, <1>5, LeaveFacts
<1>7. ASSUME NEW c \in DOMAIN r
      PROVE  r[c].refcount = Cardinality(TasksOf(m2, c))
  <2>0. c \in DOMAIN s /\ c # NoFrame
    BY <1>6
  <2>1. CASE c = d
    <3>1. r[d].refcount = s[d].refcount - 1
      BY <1>6, <2>1
    <3> QED BY <1>3, <1>4, <2>1, <3>1
  <2>2. CASE c # d
    <3>1. TasksOf(m2, c) = TasksOf(m, c)
      BY <1>3, <2>0, <2>2
    <3>2. s[c].refcount = Cardinality(TasksOf(m, c))
      BY <2>0 DEF TaskOK
    <3> QED BY <1>6, <2>0, <2>2, <3>1, <3>2
  <2> QED BY <2>1, <2>2
<1>8. ASSUME NEW v \in Tasks, NEW u \in Tasks, v # u, m2[v] = m2[u], m2[v] # NoFrame
      PROVE  sub2[v] = "LINUX"
  <2>1. v # t /\ u # t
    BY <1>1, <1>8
  <2>2. m[v] = m[u] /\ m[v] # NoFrame
    BY <1>1, <1>8, <2>1
  <2>3. sub[v] = "LINUX"
    BY <1>8, <2>2 DEF TaskOK
  <2> QED BY <2>1, <2>3 DEF Apart
<1>9. ASSUME NEW u \in Tasks, m2[u] = NoFrame
      PROVE  act2[u] = User
  BY <1>1, <1>9 DEF Apart
<1>10. TaskOK(m2, r, sub2, act2)
  BY <1>7, <1>8, <1>9 DEF TaskOK
<1>11. ASSUME s[d].refcount = 1, NEW u \in Tasks, u # t
       PROVE  m[u] # d
  <2>1. TasksOf(m2, d) = {}
    <3>1. Cardinality(TasksOf(m2, d)) = 0
      BY <1>3, <1>4, <1>11
    <3> QED BY <3>1, TasksOfFacts
  <2>2. u \notin TasksOf(m2, d)
    BY <2>1
  <2> QED BY <1>1, <1>11, <2>2 DEF TasksOf
<1> QED BY <1>5, <1>10, <1>11 DEF m2

\* The types of what the tasks do.
DoTypes(sub, act, prog, b) ==
  /\ sub \in [Tasks -> Subsystems]
  /\ act = [t \in Tasks |-> act[t]] /\ \A t \in Tasks : ActOK(act[t], prog[t])
  /\ prog \in [Tasks -> {q.segments : q \in Programs} \union {<< >>}]
  /\ b \in 0 .. MaxBirths

LEMMA DoTypesFacts ==
  ASSUME NEW D, NEW m, NEW s, NEW vids, NEW V, NEW H, NEW sub, NEW act, NEW prog, NEW b
  PROVE  TaskTypes(D, m, s, vids, V, H, sub, act, prog, b)
           <=> /\ m \in [Tasks -> D \union {NoFrame}]
               /\ DOMAIN s = D
               /\ \A d \in DOMAIN s : s[d] \in [refcount : 1 .. Cardinality(Tasks), brk : Nat]
               /\ \A x \in vids : x \in Tasks \X D \X Cells
               /\ V \in Frames /\ H \in SUBSET Frames
               /\ DoTypes(sub, act, prog, b)
BY DEF TaskTypes, DoTypes

LEMMA TaskNumber ==
  ASSUME NEW t \in Tasks
  PROVE  Cardinality(Tasks) \in Nat /\ Cardinality(Tasks) >= 1
<1>1. IsFiniteSet(Tasks)
  BY MemoryAssumption
<1>2. Cardinality(Tasks) \in Nat /\ Cardinality(Tasks) # 0
  BY <1>1, FS_CardinalityType, FS_EmptySet
<1> QED BY <1>2

LEMMA TypesBorn ==
  ASSUME NEW D, NEW m, NEW s, NEW vids, NEW V, NEW H, NEW sub, NEW act, NEW prog, NEW b,
         TaskTypes(D, m, s, vids, V, H, sub, act, prog, b), NEW c \in Tasks,
         NEW n, n \notin D, NEW k \in Nat, NEW D2, D2 = D \union {n},
         NEW sub2, NEW act2, NEW prog2, NEW b2, DoTypes(sub2, act2, prog2, b2),
         NEW m2, m2 = Moved(m, c, n), NEW s2, s2 = Put(s, n, Fresh(k))
  PROVE  TaskTypes(D2, m2, s2, vids, V, H, sub2, act2, prog2, b2)
<1>1. /\ m \in [Tasks -> D \union {NoFrame}]
      /\ DOMAIN s = D
      /\ \A d \in DOMAIN s : s[d] \in [refcount : 1 .. Cardinality(Tasks), brk : Nat]
      /\ \A x \in vids : x \in Tasks \X D \X Cells
      /\ V \in Frames /\ H \in SUBSET Frames
  BY DEF TaskTypes
<1>2. m2 \in [Tasks -> D2 \union {NoFrame}]
  <2> DEFINE E == D \union {NoFrame}
             E2 == D2 \union {NoFrame}
  <2>1. m \in [Tasks -> E] /\ n \in E2 /\ E \subseteq E2
    BY <1>1
  <2> HIDE DEF E, E2
  <2>2. m2 \in [Tasks -> E2]
    BY <2>1 DEF Moved
  <2> QED BY <2>2 DEF E2
<1> DEFINE f == Fresh(k)
<1>3. f \in [refcount : 1 .. Cardinality(Tasks), brk : Nat]
  BY TaskNumber DEF Fresh
<1>4. /\ \A d : d \in DOMAIN s2 <=> d \in DOMAIN s \/ d = n
      /\ s2[n] = f /\ \A d \in DOMAIN s : s2[d] = s[d]
  <2>1. s2 = Put(s, n, f) /\ n \notin DOMAIN s
    BY <1>1
  <2> HIDE DEF f
  <2> QED BY <2>1, PutFacts
<1> HIDE DEF f
<1>5. DOMAIN s2 = D2
  BY <1>1, <1>4
<1>6. \A d \in DOMAIN s2 : s2[d] \in [refcount : 1 .. Cardinality(Tasks), brk : Nat]
  <2> TAKE d \in DOMAIN s2
  <2>1. CASE d = n
    BY <1>3, <1>4, <2>1
  <2>2. CASE d \in DOMAIN s
    BY <1>1, <1>4, <2>2
  <2> QED BY <1>4, <2>1, <2>2
<1>7. \A x \in vids : x \in Tasks \X D2 \X Cells
  <2>1. D \subseteq D2
    OBVIOUS
  <2>2. Tasks \X D \X Cells \subseteq Tasks \X D2 \X Cells
    BY <2>1
  <2> QED BY <1>1, <2>2
<1> QED BY <1>1, <1>2, <1>5, <1>6, <1>7, DoTypesFacts

LEMMA TypesLeft ==
  ASSUME NEW D, NEW m, NEW s, NEW vids, NEW V, NEW H, NEW sub, NEW act, NEW prog, NEW b,
         TaskTypes(D, m, s, vids, V, H, sub, act, prog, b), NEW t \in Tasks,
         NEW d, d = m[t], d # NoFrame, NEW r, r = Leave(s, d), NEW D2, D2 = DOMAIN r,
         s[d].refcount = 1 => \A u \in Tasks : u # t => m[u] # d,
         \A x \in vids : x[1] # t /\ m[x[1]] = x[2],
         NEW sub2, NEW act2, NEW prog2, NEW b2, DoTypes(sub2, act2, prog2, b2),
         NEW m2, m2 = Moved(m, t, NoFrame)
  PROVE  TaskTypes(D2, m2, r, vids, V, H, sub2, act2, prog2, b2)
<1>1. /\ m \in [Tasks -> D \union {NoFrame}]
      /\ DOMAIN s = D
      /\ \A c \in DOMAIN s : s[c] \in [refcount : 1 .. Cardinality(Tasks), brk : Nat]
      /\ \A x \in vids : x \in Tasks \X D \X Cells
      /\ V \in Frames /\ H \in SUBSET Frames
  BY DEF TaskTypes
<1>2. d \in D /\ d \in DOMAIN s
  BY <1>1
<1>3. s[d] \in [refcount : 1 .. Cardinality(Tasks), brk : Nat]
  BY <1>1, <1>2
<1>4. /\ s[d].refcount \in 1 .. Cardinality(Tasks) /\ s[d].brk \in Nat
      /\ s[d] = [refcount |-> s[d].refcount, brk |-> s[d].brk]
  BY <1>3
<1>5. s[d].refcount \in Nat \ {0} /\ Cardinality(Tasks) \in Nat
  BY <1>4, TaskNumber
<1>6. /\ DOMAIN r = IF s[d].refcount = 1 THEN DOMAIN s \ {d} ELSE DOMAIN s
      /\ \A c \in DOMAIN s : c # d => r[c] = s[c]
      /\ d \in DOMAIN r => /\ s[d].refcount > 1
                           /\ r[d] = [refcount |-> s[d].refcount - 1, brk |-> s[d].brk]
  BY <1>2, <1>4, <1>5, LeaveFacts
<1>7. \A u \in Tasks : u # t => m[u] \in D2 \union {NoFrame}
  BY <1>1, <1>6
<1>8. m2 \in [Tasks -> D2 \union {NoFrame}]
  <2> DEFINE E2 == D2 \union {NoFrame}
  <2>1. NoFrame \in E2 /\ \A u \in Tasks : u # t => m[u] \in E2
    BY <1>7
  <2> HIDE DEF E2
  <2>2. m2 \in [Tasks -> E2]
    BY <1>1, <2>1 DEF Moved
  <2> QED BY <2>2 DEF E2
<1>9. \A c \in DOMAIN r : r[c] \in [refcount : 1 .. Cardinality(Tasks), brk : Nat]
  <2> TAKE c \in DOMAIN r
  <2>1. CASE c = d
    <3>1. s[d].refcount - 1 \in 1 .. Cardinality(Tasks)
      BY <1>4, <1>5, <1>6, <2>1
    <3>2. r[d] = [refcount |-> s[d].refcount - 1, brk |-> s[d].brk]
      BY <1>6, <2>1
    <3> QED BY <1>4, <2>1, <3>1, <3>2
  <2>2. CASE c # d
    <3>1. c \in DOMAIN s /\ r[c] = s[c]
      BY <1>6, <2>2
    <3> QED BY <1>1, <3>1
  <2> QED BY <2>1, <2>2
<1>10. ASSUME NEW x \in vids
       PROVE  x \in Tasks \X D2 \X Cells
  <2>1. x[1] \in Tasks /\ x[2] \in D /\ x[3] \in Cells /\ x = <<x[1], x[2], x[3]>>
    BY <1>1
  <2>2. x[1] # t /\ m[x[1]] = x[2]
    OBVIOUS
  <2>3. x[2] \in D2
    <3>1. CASE s[d].refcount = 1
      <4>1. x[2] # d
        BY <2>1, <2>2, <3>1
      <4> QED BY <1>1, <1>6, <2>1, <3>1, <4>1
    <3>2. CASE s[d].refcount # 1
      BY <1>1, <1>6, <2>1, <3>2
    <3> QED BY <3>1, <3>2
  <2> QED BY <2>1, <2>3
<1> QED BY <1>1, <1>8, <1>9, <1>10, DoTypesFacts

\* Every directory of N is as it was in M, or new and without the screen.
Kin(M, N, V) ==
  \A c \in DOMAIN N.dir :
    IF c \in DOMAIN M.dir
      THEN /\ \A a \in Cells : Maps(N)[c][a] = Maps(M)[c][a]
           /\ LargeIn(N, c) \subseteq LargeIn(M, c)
      ELSE \A a \in Cells : Maps(N)[c][a] # V

\* What the other tasks do when t comes, goes or changes its directory.
GoOn(t, m, s, vids, sub, act, prog, D, m2, s2, sub2, act2, prog2) ==
  /\ \A u \in Tasks : u # t => m2[u] = m[u] /\ sub2[u] = sub[u] /\ prog2[u] = prog[u]
  /\ \A u \in Tasks : u # t => \/ act2[u] = act[u] \/ act2[u] = User
                               \/ (\E e : act2[u] = Wait(e)) /\ \A x \in vids : x[1] # u
  /\ \A u \in Tasks : u # t /\ m[u] # NoFrame => m[u] \in D /\ s2[m[u]].brk = s[m[u]].brk

LEMMA DirsWhole ==
  ASSUME NEW M, NEW m, NEW s, NEW vids, NEW V, NEW H, NEW sub, NEW act, NEW prog, NEW b,
         Sound(M, m, s, vids, V, H, sub, act, prog, b), M.panic = "no",
         NEW N, Good(N, KeptOf(H, V), V), Kin(M, N, V), NEW t \in Tasks, \A x \in vids : x[1] # t,
         NEW m2, NEW s2, NEW sub2, NEW act2, NEW prog2,
         GoOn(t, m, s, vids, sub, act, prog, DOMAIN N.dir, m2, s2, sub2, act2, prog2),
         TaskOK(m2, s2, sub2, act2),
         m2[t] # NoFrame => LayOf(N, V, m2[t], s2, sub2[t], act2[t], prog2[t])
  PROVE  Whole(N, m2, s2, vids, V, H, sub2, act2, prog2)
<1>1. /\ VidOK(Maps(M), V, vids, m, sub, act) /\ TaskOK(m, s, sub, act)
      /\ TaskTypes(DOMAIN M.dir, m, s, vids, V, H, sub, act, prog, b)
  BY Before
<1>2. V \notin H /\ V \in SmallFrame \union {Screen} /\ DOMAIN Maps(M) = DOMAIN M.dir
  BY Before
<1>3. DOMAIN Maps(N) = DOMAIN N.dir
  <2>1. Shape(N.dir, N.table)
    BY DEF Good
  <2> QED BY <2>1, FlatFacts DEF Maps
<1>4. \A x \in vids : x[1] \in Tasks /\ x[2] \in DOMAIN M.dir
  <2> TAKE x \in vids
  <2> QED BY <1>1, VidTypes
<1>5. VidOK(Maps(N), V, vids, m2, sub2, act2)
  <2>1. ASSUME NEW d \in DOMAIN Maps(N), NEW a \in Cells
        PROVE  Maps(N)[d][a] = V <=> \E u \in Tasks : <<u, d, a>> \in vids
    <3>1. CASE d \in DOMAIN M.dir
      <4>1. Maps(N)[d][a] = Maps(M)[d][a]
        BY <1>3, <3>1 DEF Kin
      <4>2. Maps(M)[d][a] = V <=> \E u \in Tasks : <<u, d, a>> \in vids
        BY <1>1, <1>2, <3>1 DEF VidOK
      <4> QED BY <4>1, <4>2
    <3>2. CASE d \notin DOMAIN M.dir
      <4>1. Maps(N)[d][a] # V
        BY <1>3, <3>2 DEF Kin
      <4>2. ASSUME NEW u \in Tasks, <<u, d, a>> \in vids
            PROVE  FALSE
        <5> DEFINE x == <<u, d, a>>
        <5>1. x \in vids /\ x[2] = d
          BY <4>2
        <5> HIDE DEF x
        <5> QED BY <1>4, <3>2, <5>1
      <4> QED BY <4>1, <4>2
    <3> QED BY <3>1, <3>2
  <2>2. ASSUME NEW x \in vids
        PROVE  m2[x[1]] = x[2] /\ sub2[x[1]] = "ECE391" /\ act2[x[1]] \in {User, Doomed}
    <3>1. x[1] \in Tasks /\ x[1] # t
      BY <1>4
    <3>2. m[x[1]] = x[2] /\ sub[x[1]] = "ECE391" /\ act[x[1]] \in {User, Doomed}
      BY <1>1 DEF VidOK
    <3>3. m2[x[1]] = m[x[1]] /\ sub2[x[1]] = sub[x[1]]
      BY <3>1 DEF GoOn
    <3>4. act2[x[1]] = act[x[1]] \/ act2[x[1]] = User
      BY <3>1 DEF GoOn
    <3> QED BY <3>2, <3>3, <3>4
  <2>3. IsFiniteSet(vids) /\ Cardinality(vids) <= MaxVidmaps
    BY <1>1 DEF VidOK
  <2> QED BY <2>1, <2>2, <2>3 DEF VidOK
<1>6. ASSUME NEW u \in Tasks, m2[u] # NoFrame
      PROVE  LayOf(N, V, m2[u], s2, sub2[u], act2[u], prog2[u])
  <2>1. CASE u = t
    BY <1>6, <2>1
  <2>2. CASE u # t
    <3>1. m2[u] = m[u] /\ sub2[u] = sub[u] /\ prog2[u] = prog[u]
      BY <2>2 DEF GoOn
    <3>2. m[u] \in DOMAIN N.dir /\ s2[m[u]].brk = s[m[u]].brk
      BY <1>6, <2>2, <3>1 DEF GoOn
    <3>3. LayOf(M, V, m[u], s, sub[u], act[u], prog[u]) /\ m[u] \in DOMAIN M.dir
      BY <1>6, <3>1, BeforeTask
    <3>4. act2[u] = act[u] \/ act2[u] \in {User, Thread, Doomed} \/ \E e : act2[u] = Wait(e)
      BY <2>2 DEF GoOn
    <3>5. LargeIn(N, m[u]) \subseteq LargeIn(M, m[u])
      BY <3>2, <3>3 DEF Kin
    <3>6. ASSUME NEW q \in Pages
          PROVE  Maps(N)[m[u]][<<Spare, q>>] = Maps(M)[m[u]][<<Spare, q>>]
      <4>1. <<Spare, q>> \in Cells
        BY SpareFacts, CellFacts
      <4> QED BY <3>2, <3>3, <4>1 DEF Kin
    <3>7. LayOf(N, V, m[u], s, sub[u], act2[u], prog[u])
      BY <3>3, <3>4, <3>5, <3>6, LaySame
    <3>8. LayOf(N, V, m[u], s2, sub[u], act2[u], prog[u])
      BY <3>2, <3>7 DEF LayOf
    <3> QED BY <3>1, <3>8
  <2> QED BY <2>1, <2>2
<1>7. LayOK(N, V, m2, s2, sub2, act2, prog2)
  BY <1>6 DEF LayOK
<1> QED BY <1>2, <1>5, <1>7 DEF Whole

LEMMA BornKin ==
  ASSUME NEW M, NEW N, NEW n, NEW v, NEW X, NEW V, Good(M, X, V), Born(M, N, n, v, X, V),
         \A a \in Cells : v[a] # V
  PROVE  /\ Kin(M, N, V) /\ Maps(N)[n] = v
         /\ \A c : c \in DOMAIN N.dir <=> c \in DOMAIN M.dir \/ c = n
<1> DEFINE w == Maps(M)
           u == Maps(N)
<1>1. u = Put(w, n, v) /\ n \notin DOMAIN M.dir /\ DOMAIN N.dir = DOMAIN M.dir \union {n}
  BY DEF Born
<1>2. \A c \in DOMAIN M.dir : LargeIn(N, c) = LargeIn(M, c)
  BY DEF Born
<1>3. DOMAIN w = DOMAIN M.dir
  <2>1. Shape(M.dir, M.table)
    BY DEF Good
  <2> QED BY <2>1, FlatFacts DEF Maps
<1> HIDE DEF w, u
<1>4. u[n] = v /\ \A c \in DOMAIN w : u[c] = w[c]
  BY <1>1, <1>3, PutFacts
<1>5. Kin(M, N, V)
  BY <1>1, <1>2, <1>3, <1>4 DEF Kin, w, u
<1> QED BY <1>1, <1>4, <1>5 DEF u

LEMMA FreedKin ==
  ASSUME NEW M, NEW N, NEW d, NEW X, NEW V, Good(M, X, V), Freed(M, N, d, X, V)
  PROVE  Kin(M, N, V)
<1> DEFINE w == Maps(M)
           u == Maps(N)
<1>1. u = Without(w, {d}) /\ DOMAIN N.dir = DOMAIN M.dir \ {d}
  BY DEF Freed
<1>2. \A c \in DOMAIN N.dir : LargeIn(N, c) \subseteq LargeIn(M, c)
  BY DEF Freed
<1>3. DOMAIN w = DOMAIN M.dir
  <2>1. Shape(M.dir, M.table)
    BY DEF Good
  <2> QED BY <2>1, FlatFacts DEF Maps
<1> HIDE DEF w, u
<1>4. \A c \in DOMAIN N.dir : u[c] = w[c]
  BY <1>1, <1>3 DEF Without
<1> QED BY <1>1, <1>2, <1>4 DEF Kin, w, u

LEMMA KinTwice ==
  ASSUME NEW M, NEW K, NEW N, NEW V, Kin(M, K, V), Kin(K, N, V),
         DOMAIN M.dir \subseteq DOMAIN K.dir, DOMAIN N.dir \subseteq DOMAIN K.dir
  PROVE  Kin(M, N, V)
BY DEF Kin

\* What t and the child c do after a clone.
CloneActs(t, c, act, act2) ==
  /\ \A u \in Tasks : u # t /\ u # c => act2[u] = act[u]
  /\ act2[t] = act[t] \/ \E e : act2[t] = Wait(e)
  /\ act2[c] \in {User, Thread}

\* Nothing of the screen is in d; t has a Linux program, or waits after its clone;
\* and what is left of a and b when there was memory, or not.
Unseen(M, d, V) == \A a \in Cells : Maps(M)[d][a] # V
Forks(t, sub, act2) == sub[t] = "LINUX" \/ \E e \in Tasks : act2[t] = Wait(e)
After(N, a, b) == IF N.panic = "no" THEN a ELSE b

LEMMA ClonedSound ==
  ASSUME NEW M, NEW m, NEW s, NEW vids, NEW V, NEW H, NEW sub, NEW act, NEW prog, NEW b,
         Sound(M, m, s, vids, V, H, sub, act, prog, b), M.panic = "no",
         NEW t \in Tasks, m[t] # NoFrame, Unseen(M, m[t], V),
         NEW c \in Tasks, m[c] = NoFrame, NEW n, NEW N,
         Born(M, N, n, Maps(M)[m[t]], KeptOf(H, V), V), LargeIn(N, n) = LargeIn(M, m[t]),
         NEW act2, CloneActs(t, c, act, act2),
         NEW sub2, sub2 = Moved(sub, c, sub[t]), NEW b2, DoTypes(sub2, act2, prog, b2),
         NEW m2, m2 = Moved(m, c, n), NEW s2, s2 = Put(s, n, Fresh(s[m[t]].brk))
  PROVE  Sound(N, m2, s2, vids, V, H, sub2, act2, prog, b2)
<1> DEFINE D == DOMAIN M.dir
           d == m[t]
           X == KeptOf(H, V)
           v == Maps(M)[m[t]]
           k == s[m[t]].brk
<1>1. /\ TaskTypes(D, m, s, vids, V, H, sub, act, prog, b)
      /\ VidOK(Maps(M), V, vids, m, sub, act) /\ TaskOK(m, s, sub, act)
  BY Before
<1>2. Good(M, X, V)
  BY Before
<1>3. d \in D /\ LayOf(M, V, d, s, sub[t], act[t], prog[t])
  BY BeforeTask
<1>4. s[d] \in [refcount : 1 .. Cardinality(Tasks), brk : Nat]
  BY BeforeTask
<1>5. k \in Nat
  BY <1>4
<1>6. /\ m \in [Tasks -> D \union {NoFrame}] /\ DOMAIN s = D
      /\ sub \in [Tasks -> Subsystems]
  BY <1>1 DEF TaskTypes
<1>7. /\ n \notin D /\ n \in SmallFrame /\ DOMAIN N.dir = D \union {n} /\ N.panic = "no"
      /\ Good(N, X, V)
  BY DEF Born
<1>8. n # NoFrame /\ NoFrame \notin D
  <2>1. D \subseteq SmallFrame
    BY <1>2 DEF Good, Shape, DirsOK
  <2> QED BY <1>7, <2>1, NumberFacts
<1>9. /\ Kin(M, N, V) /\ Maps(N)[n] = v
      /\ \A e : e \in DOMAIN N.dir <=> e \in D \/ e = n
  <2> HIDE DEF v, X
  <2>1. Born(M, N, n, v, X, V) /\ \A a \in Cells : v[a] # V
    BY DEF v, X, Unseen
  <2> QED BY <1>2, <2>1, BornKin
<1>10. m2[c] = n /\ \A u \in Tasks : u # c => m2[u] = m[u]
  <2> DEFINE E == D \union {NoFrame}
  <2>1. m \in [Tasks -> E]
    BY <1>6
  <2> HIDE DEF E
  <2> QED BY <2>1 DEF Moved
<1>11. sub2[c] = sub[t] /\ \A u \in Tasks : u # c => sub2[u] = sub[u]
  <2>1. sub \in [Tasks -> Subsystems]
    BY <1>6
  <2> QED BY <2>1 DEF Moved
<1>12. /\ \A e : e \in DOMAIN s2 <=> e \in DOMAIN s \/ e = n
       /\ s2[n] = Fresh(k) /\ \A e \in DOMAIN s : s2[e] = s[e]
  <2> DEFINE f == Fresh(k)
  <2>1. s2 = Put(s, n, f) /\ n \notin DOMAIN s
    BY <1>6, <1>7
  <2> HIDE DEF f
  <2>2. /\ \A e : e \in DOMAIN s2 <=> e \in DOMAIN s \/ e = n
        /\ s2[n] = f /\ \A e \in DOMAIN s : s2[e] = s[e]
    BY <2>1, PutFacts
  <2> QED BY <2>2 DEF f
<1>13. TaskTypes(DOMAIN N.dir, m2, s2, vids, V, H, sub2, act2, prog, b2)
  <2> DEFINE D2 == DOMAIN N.dir
  <2>1. D2 = D \union {n}
    BY <1>7
  <2>2. s2 = Put(s, n, Fresh(k))
    OBVIOUS
  <2> HIDE DEF D, D2, k
  <2> QED BY <1>1, <1>5, <1>7, <2>1, <2>2, TypesBorn
<1>14. TaskOK(m2, s2, sub2, act2)
  <2>1. Apart(c, m, sub, sub2, act2)
    <3>1. \A u \in Tasks : m[u] = NoFrame => act[u] = User
      BY <1>1 DEF TaskOK
    <3>2. \A u \in Tasks : u # c /\ m[u] = NoFrame => act2[u] = User
      BY <3>1 DEF CloneActs
    <3> QED BY <1>11, <3>2 DEF Apart
  <2>2. NoFrame \notin DOMAIN s /\ n \notin DOMAIN s /\ m \in [Tasks -> DOMAIN s \union {NoFrame}]
    BY <1>6, <1>7, <1>8
  <2>3. TaskOK(Moved(m, c, n), Put(s, n, Fresh(k)), sub2, act2)
    <3> HIDE DEF k
    <3> QED BY <1>1, <1>8, <2>1, <2>2, TaskBorn
  <2> QED BY <2>3
<1>15. \A x \in vids : x[1] # c
  <2>1. \A x \in vids : x[1] \in Tasks /\ x[2] \in D
    <3> TAKE x \in vids
    <3> QED BY <1>1, VidTypes
  <2>2. \A x \in vids : m[x[1]] = x[2]
    BY <1>1 DEF VidOK
  <2> QED BY <1>8, <2>1, <2>2
<1>16. GoOn(c, m, s, vids, sub, act, prog, DOMAIN N.dir, m2, s2, sub2, act2, prog)
  <2>0. \A x \in vids : x[1] # t
    <3> SUFFICES ASSUME NEW x \in vids, x[1] = t
                 PROVE  FALSE
      OBVIOUS
    <3>1. x = <<x[1], x[2], x[3]>> /\ x[2] \in D /\ x[3] \in Cells
      BY <1>1, VidTypes
    <3>2. m[t] = x[2] /\ m[t] \in DOMAIN Maps(M)
      BY <1>1, BeforeTask DEF VidOK
    <3>3. <<t, m[t], x[3]>> \in vids
      BY <3>1, <3>2
    <3>4. Maps(M)[m[t]][x[3]] = V
      BY <1>1, <3>1, <3>2, <3>3 DEF VidOK
    <3> QED BY <3>1, <3>4 DEF Unseen
  <2>1. \A u \in Tasks : u # c => \/ act2[u] = act[u] \/ act2[u] = User
                                  \/ (\E e : act2[u] = Wait(e)) /\ \A x \in vids : x[1] # u
    BY <2>0 DEF CloneActs
  <2>2. ASSUME NEW u \in Tasks, m[u] # NoFrame
        PROVE  m[u] \in DOMAIN N.dir /\ s2[m[u]].brk = s[m[u]].brk
    <3>1. m[u] \in D /\ m[u] \in DOMAIN s
      BY <1>6, <2>2
    <3> QED BY <1>9, <1>12, <3>1
  <2> QED BY <1>10, <1>11, <2>1, <2>2 DEF GoOn
<1>17. LayOf(N, V, m2[c], s2, sub2[c], act2[c], prog[c])
  <2>1. /\ LargeIn(M, d) \subseteq LargeSlots(sub[t])
        /\ \A p \in Pages : Maps(M)[d][<<Spare, p>>] \in {NoFrame, V}
        /\ sub[t] = "LINUX" => s[d].brk \in {0} \union BreaksOf("LINUX")
    BY <1>3 DEF LayOf
  <2>2. s2[n].brk = s[d].brk
    BY <1>12 DEF Fresh
  <2>3. \A j : act2[c] # Load(j)
    BY ActFacts DEF CloneActs
  <2> QED BY <1>9, <1>10, <1>11, <2>1, <2>2, <2>3 DEF LayOf
<1>18. Whole(N, m2, s2, vids, V, H, sub2, act2, prog)
  <2>1. m2[c] # NoFrame => LayOf(N, V, m2[c], s2, sub2[c], act2[c], prog[c])
    BY <1>17
  <2>2. Good(N, KeptOf(H, V), V) /\ Kin(M, N, V)
    BY <1>7, <1>9
  <2> QED BY <1>14, <1>15, <1>16, <2>1, <2>2, DirsWhole
<1> QED BY <1>7, <1>13, <1>18, SoundWhole

\* A memory that ran out at once.
LEMMA OutSound ==
  ASSUME NEW M, NEW m, NEW s, NEW vids, NEW V, NEW H, NEW sub, NEW act, NEW prog, NEW b,
         Sound(M, m, s, vids, V, H, sub, act, prog, b), M.panic = "no",
         NEW sub2, NEW act2, NEW prog2, NEW b2, DoTypes(sub2, act2, prog2, b2),
         NEW N, N = Panics(M, "oom")
  PROVE  Sound(N, m, s, vids, V, H, sub2, act2, prog2, b2)
<1>1. PhysTypes(M) /\ Split(M.phys) /\ Fields(M)
  BY DEF Sound
<1>2. TaskTypes(DOMAIN M.dir, m, s, vids, V, H, sub, act, prog, b)
  BY DEF Sound
<1>3. TaskTypes(DOMAIN M.dir, m, s, vids, V, H, sub2, act2, prog2, b2)
  BY <1>2, DoTypesFacts
<1> QED BY <1>1, <1>3, SoundPanics

\* The panic when the copy would have a vidmap.
LEMMA ScreenSound ==
  ASSUME NEW M, NEW m, NEW s, NEW vids, NEW V, NEW H, NEW sub, NEW act, NEW prog, NEW b,
         Sound(M, m, s, vids, V, H, sub, act, prog, b), M.panic = "no",
         NEW sub2, NEW act2, NEW prog2, NEW b2, DoTypes(sub2, act2, prog2, b2), Shows(vids, act2),
         NEW N, N = Panics(M, "screen")
  PROVE  Sound(N, m, s, vids, V, H, sub2, act2, prog2, b2)
<1>1. PhysTypes(M) /\ Split(M.phys) /\ Fields(M)
      /\ TaskTypes(DOMAIN M.dir, m, s, vids, V, H, sub, act, prog, b)
  BY DEF Sound
<1>2. TaskTypes(DOMAIN M.dir, m, s, vids, V, H, sub2, act2, prog2, b2)
  BY <1>1, DoTypesFacts
<1>3. /\ Fields(N) /\ N.phys = M.phys /\ N.dir = M.dir /\ N.table = M.table
      /\ N.content = M.content /\ N.panic = "screen"
  BY <1>1, PanicsFacts
<1>4. PhysTypes(N)
  BY <1>1, <1>3 DEF PhysTypes
<1> QED BY <1>1, <1>2, <1>3, <1>4 DEF Sound

LEMMA CloneSound ==
  ASSUME NEW M, NEW m, NEW s, NEW vids, NEW V, NEW H, NEW sub, NEW act, NEW prog, NEW b,
         Sound(M, m, s, vids, V, H, sub, act, prog, b), M.panic = "no",
         V = video, NEW t \in Tasks, m[t] # NoFrame,
         NEW c \in Tasks, m[c] = NoFrame, NEW n, n = Min(FreeSmall(M)),
         NEW N, N = CloneDirectory(M, m[t]),
         NEW act2, CloneActs(t, c, act, act2), Forks(t, sub, act2),
         NEW sub2, sub2 = Moved(sub, c, sub[t]), NEW b2, DoTypes(sub2, act2, prog, b2),
         NEW m2, m2 = After(N, Moved(m, c, n), m),
         NEW s2, s2 = After(N, Put(s, n, Fresh(s[m[t]].brk)), s)
  PROVE  Sound(N, m2, s2, vids, V, H, sub2, act2, prog, b2) /\ Fields(N)
<1> DEFINE X == KeptOf(H, V)
           d == m[t]
           v == Maps(M)[m[t]]
<1>1. /\ VidOK(Maps(M), V, vids, m, sub, act) /\ TaskOK(m, s, sub, act)
      /\ Good(M, X, V) /\ Fields(M)
  BY Before
<1>2. d \in DOMAIN M.dir /\ d \in DOMAIN Maps(M)
  BY BeforeTask
<1>3. ASSUME \A a \in Cells : Maps(M)[d][a] # V
      PROVE  \/ N = Panics(M, "oom")
             \/ Born(M, N, n, v, X, V) /\ LargeIn(N, n) = LargeIn(M, d) /\ Unseen(M, d, V)
  <2> HIDE DEF X, d
  <2>2. \/ N = Panics(M, "oom")
        \/ Born(M, N, n, Maps(M)[d], X, V) /\ LargeIn(N, n) = LargeIn(M, d)
    BY <1>1, <1>2, <1>3, CloneDirectoryFacts DEF d
  <2> QED BY <1>3, <2>2 DEF d, Unseen
<1>4. ASSUME NEW a \in Cells, Maps(M)[d][a] = V
      PROVE  (N = Panics(M, "oom") \/ N = Panics(M, "screen")) /\ Shows(vids, act2)
  <2>1. N = Panics(M, "oom") \/ N = Panics(M, "screen")
    <3>1. Good(M, X, video) /\ (\E e \in Cells : Maps(M)[d][e] = video)
      BY <1>1, <1>4
    <3> HIDE DEF X, d
    <3> QED BY <1>2, <3>1, CloneDirectorySeen DEF d
  <2>2. PICK x \in vids : x[1] = t /\ sub[t] = "ECE391"
    BY <1>1, <1>2, <1>4, SeesIt
  <2>3. PICK e \in Tasks : act2[t] = Wait(e)
    BY <2>2 DEF Forks
  <2> QED BY <2>1, <2>2, <2>3 DEF Shows
<1>5. CASE N = Panics(M, "oom")
  <2>1. N.panic = "oom"
    BY <1>1, <1>5, PanicsFacts
  <2>2. m2 = m /\ s2 = s
    BY <2>1 DEF After
  <2>3. Sound(N, m, s, vids, V, H, sub2, act2, prog, b2)
    BY <1>5, OutSound
  <2> QED BY <2>2, <2>3 DEF Sound
<1>6. CASE Born(M, N, n, v, X, V) /\ LargeIn(N, n) = LargeIn(M, d) /\ Unseen(M, d, V)
  <2>1. N.panic = "no"
    BY <1>6 DEF Born
  <2>2. m2 = Moved(m, c, n) /\ s2 = Put(s, n, Fresh(s[m[t]].brk))
    BY <2>1 DEF After
  <2>3. /\ Born(M, N, n, Maps(M)[m[t]], KeptOf(H, V), V) /\ LargeIn(N, n) = LargeIn(M, m[t])
        /\ Unseen(M, m[t], V)
    BY <1>6
  <2>4. Sound(N, m2, s2, vids, V, H, sub2, act2, prog, b2)
    BY <2>2, <2>3, ClonedSound
  <2> QED BY <2>4 DEF Sound
<1>7. CASE N = Panics(M, "screen") /\ Shows(vids, act2)
  <2>1. N.panic = "screen"
    BY <1>1, <1>7, PanicsFacts
  <2>2. m2 = m /\ s2 = s
    BY <2>1 DEF After
  <2>3. Sound(N, m, s, vids, V, H, sub2, act2, prog, b2)
    BY <1>7, ScreenSound
  <2> QED BY <2>2, <2>3 DEF Sound
<1> QED BY <1>3, <1>4, <1>5, <1>6, <1>7

\* Clone, as Fork and Execute do it.
LEMMA CloneKeeps ==
  ASSUME MemoryInv, NEW t \in Tasks, NEW c \in Tasks, Clone(t, c),
         panic = "no", mm[t] # NoFrame, Forks(t, subsystem, doing'),
         CloneActs(t, c, doing, doing'),
         doing' = [u \in Tasks |-> doing'[u]], \A u \in Tasks : ActOK(doing'[u], program[u])
  PROVE  MemoryInv'
<1> DEFINE N == CloneDirectory(Now, mm[t])
           n == Min(FreeSmall(Now))
           f == Fresh(mms[mm[t]].brk)
           m2 == After(N, Moved(mm, c, n), mm)
           s2 == After(N, Put(mms, n, f), mms)
           sub2 == Moved(subsystem, c, subsystem[t])
<1>1. mm[c] = NoFrame /\ births < MaxBirths /\ births' = births + 1 /\ Becomes(N)
  BY DEF Clone, NotThere
<1>2. mm' = m2
  BY DEF Clone, Moved, After
<1>3. mms' = s2
  BY DEF Clone, Fresh, After
<1>4. /\ vidmaps' = vidmaps /\ video' = video /\ heap' = heap /\ program' = program
      /\ subsystem' = sub2
  BY DEF Clone, Moved
<1>5. Now.panic = "no"
  BY NowFacts
<1>6. TaskTypes(DOMAIN Now.dir, mm, mms, vidmaps, video, heap, subsystem, doing, program, births)
  BY <1>5, Before DEF MemoryInv
<1> DEFINE act2 == doing'
           b2 == births'
<1>7. DoTypes(sub2, act2, program, b2)
  <2>1. /\ subsystem \in [Tasks -> Subsystems] /\ births \in 0 .. MaxBirths
        /\ program \in [Tasks -> {q.segments : q \in Programs} \union {<< >>}]
    BY <1>6 DEF TaskTypes
  <2>2. sub2 \in [Tasks -> Subsystems]
    BY <2>1 DEF Moved
  <2>3. b2 \in 0 .. MaxBirths
    BY <1>1, <2>1, MemoryAssumption
  <2> HIDE DEF sub2, b2
  <2> QED BY <2>1, <2>2, <2>3 DEF DoTypes
<1>8. CloneActs(t, c, doing, act2) /\ Forks(t, subsystem, act2)
  OBVIOUS
<1>9. /\ sub2 = Moved(subsystem, c, subsystem[t]) /\ N = CloneDirectory(Now, mm[t])
      /\ n = Min(FreeSmall(Now))
      /\ m2 = After(N, Moved(mm, c, n), mm)
      /\ s2 = After(N, Put(mms, n, Fresh(mms[mm[t]].brk)), mms)
  OBVIOUS
<1>10. Sound(Now, mm, mms, vidmaps, video, heap, subsystem, doing, program, births)
  BY DEF MemoryInv
<1> HIDE DEF N, n, f, m2, s2, sub2, act2, b2
<1>11. Sound(N, m2, s2, vidmaps, video, heap, sub2, act2, program, b2) /\ Fields(N)
  BY <1>1, <1>5, <1>7, <1>8, <1>9, <1>10, CloneSound
<1>12. Now' = N
  BY <1>1, <1>11, BecomesFacts
<1>13. doing' = act2 /\ births' = b2
  BY DEF act2, b2
<1> QED BY <1>2, <1>3, <1>4, <1>11, <1>12, <1>13 DEF MemoryInv

LEMMA ForkKeeps ==
  ASSUME MemoryInv, NEW t \in Tasks, NEW c \in Tasks, Fork(t, c)
  PROVE  MemoryInv'
<1>1. /\ Clone(t, c) /\ doing' = doing /\ mm[c] = NoFrame
      /\ panic = "no" /\ mm[t] # NoFrame /\ Forks(t, subsystem, doing')
  BY DEF Fork, Linux, InUserMode, Lives, Clone, NotThere, Forks
<1>2. Now.panic = "no"
  BY <1>1, NowFacts
<1>3. /\ TaskTypes(DOMAIN Now.dir, mm, mms, vidmaps, video, heap, subsystem, doing, program, births)
      /\ TaskOK(mm, mms, subsystem, doing)
  BY <1>2, Before DEF MemoryInv
<1>4. doing[c] = User
  BY <1>1, <1>3 DEF TaskOK
<1>5. CloneActs(t, c, doing, doing')
  BY <1>1, <1>4 DEF CloneActs
<1>6. doing' = [u \in Tasks |-> doing'[u]] /\ \A u \in Tasks : ActOK(doing'[u], program[u])
  BY <1>1, <1>3 DEF TaskTypes
<1> QED BY <1>1, <1>5, <1>6, CloneKeeps

LEMMA ExecuteKeeps ==
  ASSUME MemoryInv, NEW t \in Tasks, NEW c \in Tasks, Execute(t, c)
  PROVE  MemoryInv'
<1> DEFINE D == DOMAIN Now.dir
           do == Doing(Doing(doing, t, Wait(c)), c, Thread)
<1>1. /\ Clone(t, c) /\ doing' = do /\ mm[c] = NoFrame
      /\ panic = "no" /\ mm[t] # NoFrame
  BY DEF Execute, Ece391, InUserMode, Lives, Clone, NotThere, Doing
<1>2. Now.panic = "no"
  BY <1>1, NowFacts
<1>3. TaskTypes(D, mm, mms, vidmaps, video, heap, subsystem, doing, program, births)
  BY <1>2, Before DEF MemoryInv
<1>4. /\ doing = [u \in Tasks |-> doing[u]] /\ \A u \in Tasks : ActOK(doing[u], program[u])
  BY <1>3 DEF TaskTypes
<1>5. /\ do = [u \in Tasks |-> do[u]] /\ do[c] = Thread /\ do[t] = Wait(c)
      /\ \A u \in Tasks : u # t /\ u # c => do[u] = doing[u]
  <2>1. t # c
    BY <1>1
  <2> QED BY <1>4, <2>1 DEF Doing
<1> HIDE DEF do, D
<1>6. CloneActs(t, c, doing, doing') /\ Forks(t, subsystem, doing')
  BY <1>1, <1>5 DEF CloneActs, Forks
<1>7. ASSUME NEW u \in Tasks
      PROVE  ActOK(do[u], program[u])
  <2>1. CASE u = t
    BY <1>5, <2>1 DEF ActOK
  <2>2. CASE u = c
    BY <1>5, <2>2 DEF ActOK
  <2>3. CASE u # t /\ u # c
    BY <1>4, <1>5, <2>3
  <2> QED BY <2>1, <2>2, <2>3
<1>8. doing' = [u \in Tasks |-> doing'[u]] /\ \A u \in Tasks : ActOK(doing'[u], program[u])
  BY <1>1, <1>5, <1>7
<1> QED BY <1>1, <1>6, <1>8, CloneKeeps

\* The mm_structs with one more user of d.
Join(s, d) == [s EXCEPT ![d].refcount = @ + 1]

LEMMA JoinFacts ==
  ASSUME NEW s, NEW d \in DOMAIN s, s[d] = [refcount |-> s[d].refcount, brk |-> s[d].brk],
         NEW r, r = Join(s, d)
  PROVE  /\ DOMAIN r = DOMAIN s /\ \A c \in DOMAIN s : c # d => r[c] = s[c]
         /\ r[d] = [refcount |-> s[d].refcount + 1, brk |-> s[d].brk]
<1>1. DOMAIN r = DOMAIN s /\ (\A c \in DOMAIN s : c # d => r[c] = s[c])
      /\ r[d] = [s[d] EXCEPT !.refcount = @ + 1]
  BY DEF Join
<1>2. r[d] = [refcount |-> s[d].refcount + 1, brk |-> s[d].brk]
  BY <1>1
<1> QED BY <1>1, <1>2

LEMMA TaskJoined ==
  ASSUME NEW m, NEW s, NEW sub, NEW act, TaskOK(m, s, sub, act), NoFrame \notin DOMAIN s,
         m \in [Tasks -> DOMAIN s \union {NoFrame}], NEW t \in Tasks, NEW d, d = m[t], d # NoFrame,
         NEW c \in Tasks, m[c] = NoFrame, sub[t] = "LINUX",
         s[d] = [refcount |-> s[d].refcount, brk |-> s[d].brk],
         NEW m2, m2 = Moved(m, c, d), NEW r, r = Join(s, d),
         NEW sub2, Apart(c, m, sub, sub2, act), sub2[c] = "LINUX"
  PROVE  TaskOK(m2, r, sub2, act)
<1> DEFINE D == DOMAIN s \union {NoFrame}
<1>0. m \in [Tasks -> D]
  OBVIOUS
<1> HIDE DEF D
<1>1. m2[c] = d /\ \A u \in Tasks : u # c => m2[u] = m[u]
  BY <1>0, MovedFacts
<1>2. d \in DOMAIN s
  OBVIOUS
<1>3. /\ Cardinality(TasksOf(m2, d)) = Cardinality(TasksOf(m, d)) + 1
      /\ \A e : e # NoFrame /\ e # d => TasksOf(m2, e) = TasksOf(m, e)
  <2>1. d # m[c]
    OBVIOUS
  <2>2. /\ Cardinality(TasksOf(m2, d)) = Cardinality(TasksOf(m, d)) + 1
        /\ \A e : e # m[c] /\ e # d => TasksOf(m2, e) = TasksOf(m, e)
    BY <1>0, <2>1, TaskMoved
  <2> QED BY <2>2
<1>4. /\ DOMAIN r = DOMAIN s /\ \A e \in DOMAIN s : e # d => r[e] = s[e]
      /\ r[d] = [refcount |-> s[d].refcount + 1, brk |-> s[d].brk]
  BY <1>2, JoinFacts
<1>5. ASSUME NEW e \in DOMAIN r
      PROVE  r[e].refcount = Cardinality(TasksOf(m2, e))
  <2>0. e \in DOMAIN s /\ e # NoFrame
    BY <1>4
  <2>1. s[e].refcount = Cardinality(TasksOf(m, e))
    BY <2>0 DEF TaskOK
  <2>2. CASE e = d
    <3>1. r[d].refcount = s[d].refcount + 1
      BY <1>4
    <3> QED BY <1>3, <2>1, <2>2, <3>1
  <2>3. CASE e # d
    <3>1. TasksOf(m2, e) = TasksOf(m, e)
      BY <1>3, <2>0, <2>3
    <3> QED BY <1>4, <2>0, <2>1, <2>3, <3>1
  <2> QED BY <2>2, <2>3
<1>6. ASSUME NEW v \in Tasks, NEW u \in Tasks, v # u, m2[v] = m2[u], m2[v] # NoFrame
      PROVE  sub2[v] = "LINUX"
  <2>1. CASE v = c
    BY <2>1
  <2>2. CASE v # c
    <3>1. sub2[v] = sub[v] /\ m2[v] = m[v]
      BY <1>1, <2>2 DEF Apart
    <3>2. CASE v = t
      BY <3>1, <3>2
    <3>3. CASE v # t
      <4>1. m[v] = m[u] \/ m[v] = m[t]
        BY <1>1, <1>6, <3>1
      <4>2. sub[v] = "LINUX"
        BY <1>6, <3>1, <3>3, <4>1 DEF TaskOK
      <4> QED BY <3>1, <4>2
    <3> QED BY <3>2, <3>3
  <2> QED BY <2>1, <2>2
<1>7. ASSUME NEW u \in Tasks, m2[u] = NoFrame
      PROVE  act[u] = User
  BY <1>1, <1>7 DEF Apart
<1> QED BY <1>5, <1>6, <1>7 DEF TaskOK

LEMMA ShareSound ==
  ASSUME NEW M, NEW m, NEW s, NEW vids, NEW V, NEW H, NEW sub, NEW act, NEW prog, NEW b,
         Sound(M, m, s, vids, V, H, sub, act, prog, b), M.panic = "no",
         NEW t \in Tasks, m[t] # NoFrame, sub[t] = "LINUX",
         NEW c \in Tasks, m[c] = NoFrame,
         NEW sub2, sub2 = Moved(sub, c, sub[t]), NEW b2, DoTypes(sub2, act, prog, b2),
         NEW m2, m2 = Moved(m, c, m[t]), NEW s2, s2 = Join(s, m[t])
  PROVE  Sound(M, m2, s2, vids, V, H, sub2, act, prog, b2)
<1> DEFINE D == DOMAIN M.dir
           d == m[t]
           X == KeptOf(H, V)
<1>1. /\ TaskTypes(D, m, s, vids, V, H, sub, act, prog, b)
      /\ VidOK(Maps(M), V, vids, m, sub, act) /\ TaskOK(m, s, sub, act)
  BY Before
<1>2. Good(M, X, V)
  BY Before
<1>3. d \in D /\ LayOf(M, V, d, s, sub[t], act[t], prog[t])
  BY BeforeTask
<1>4. s[d] \in [refcount : 1 .. Cardinality(Tasks), brk : Nat]
  BY BeforeTask
<1>5. s[d] = [refcount |-> s[d].refcount, brk |-> s[d].brk] /\ s[d].brk \in Nat
  BY <1>4
<1>6. /\ m \in [Tasks -> D \union {NoFrame}] /\ DOMAIN s = D
      /\ sub \in [Tasks -> Subsystems]
      /\ \A e \in DOMAIN s : s[e] \in [refcount : 1 .. Cardinality(Tasks), brk : Nat]
      /\ \A x \in vids : x \in Tasks \X D \X Cells
      /\ V \in Frames /\ H \in SUBSET Frames
  BY <1>1 DEF TaskTypes
<1>8. d # NoFrame /\ NoFrame \notin D
  <2>1. D \subseteq SmallFrame
    BY <1>2 DEF Good, Shape, DirsOK
  <2> QED BY <2>1, NumberFacts
<1>9. Kin(M, M, V)
  BY DEF Kin
<1>10. m2[c] = d /\ \A u \in Tasks : u # c => m2[u] = m[u]
  <2> DEFINE E == D \union {NoFrame}
  <2>1. m \in [Tasks -> E] /\ m2 = Moved(m, c, d)
    BY <1>6
  <2> HIDE DEF E, d
  <2> QED BY <2>1 DEF Moved
<1>11. sub2[c] = sub[t] /\ \A u \in Tasks : u # c => sub2[u] = sub[u]
  <2>1. sub \in [Tasks -> Subsystems]
    BY <1>6
  <2> QED BY <2>1 DEF Moved
<1>12. /\ DOMAIN s2 = DOMAIN s /\ \A e \in DOMAIN s : e # d => s2[e] = s[e]
       /\ s2[d] = [refcount |-> s[d].refcount + 1, brk |-> s[d].brk]
  BY <1>3, <1>5, <1>6, JoinFacts
<1>13. \A u \in Tasks : m[u] = NoFrame => act[u] = User
  BY <1>1 DEF TaskOK
<1>14. TaskOK(m2, s2, sub2, act)
  <2>1. Apart(c, m, sub, sub2, act)
    BY <1>11, <1>13 DEF Apart
  <2>2. NoFrame \notin DOMAIN s /\ m \in [Tasks -> DOMAIN s \union {NoFrame}]
    BY <1>6, <1>8
  <2>3. sub2[c] = "LINUX" /\ m2 = Moved(m, c, d) /\ s2 = Join(s, d) /\ d = m[t]
    BY <1>11
  <2> HIDE DEF d
  <2> QED BY <1>1, <1>5, <1>8, <2>1, <2>2, <2>3, TaskJoined
<1>15. \A x \in vids : x[1] # c
  <2>1. \A x \in vids : x[1] \in Tasks /\ x[2] \in D
    <3> TAKE x \in vids
    <3> QED BY <1>1, VidTypes
  <2>2. \A x \in vids : m[x[1]] = x[2]
    BY <1>1 DEF VidOK
  <2> QED BY <1>8, <2>1, <2>2
<1>16. GoOn(c, m, s, vids, sub, act, prog, DOMAIN M.dir, m2, s2, sub2, act, prog)
  <2>1. ASSUME NEW u \in Tasks, m[u] # NoFrame
        PROVE  m[u] \in DOMAIN M.dir /\ s2[m[u]].brk = s[m[u]].brk
    <3>1. m[u] \in D /\ m[u] \in DOMAIN s
      BY <1>6, <2>1
    <3> QED BY <1>12, <3>1
  <2> QED BY <1>10, <1>11, <2>1 DEF GoOn
<1>17. LayOf(M, V, m2[c], s2, sub2[c], act[c], prog[c])
  <2>1. /\ LargeIn(M, d) \subseteq LargeSlots(sub[t])
        /\ \A p \in Pages : Maps(M)[d][<<Spare, p>>] \in {NoFrame, V}
        /\ sub[t] = "LINUX" => s[d].brk \in {0} \union BreaksOf("LINUX")
    BY <1>3 DEF LayOf
  <2>2. s2[d].brk = s[d].brk
    BY <1>12
  <2>3. \A j : act[c] # Load(j)
    BY <1>13, ActFacts
  <2> QED BY <1>10, <1>11, <2>1, <2>2, <2>3 DEF LayOf
<1>18. TaskTypes(DOMAIN M.dir, m2, s2, vids, V, H, sub2, act, prog, b2)
  <2>1. m2 \in [Tasks -> D \union {NoFrame}]
    <3> DEFINE E == D \union {NoFrame}
    <3>1. m \in [Tasks -> E] /\ d \in E
      BY <1>3, <1>6
    <3> HIDE DEF E
    <3>2. m2 \in [Tasks -> E]
      BY <3>1 DEF Moved
    <3> QED BY <3>2 DEF E
  <2>2. ASSUME NEW e \in DOMAIN s2
        PROVE  s2[e] \in [refcount : 1 .. Cardinality(Tasks), brk : Nat]
    <3>1. CASE e # d
      BY <1>6, <1>12, <3>1
    <3>2. CASE e = d
      <4>1. s2[d].refcount = Cardinality(TasksOf(m2, d))
        BY <1>14, <3>2 DEF TaskOK
      <4>2. s2[d].refcount = s[d].refcount + 1 /\ s[d].refcount \in Nat
        BY <1>4, <1>12
      <4>3. Cardinality(TasksOf(m2, d)) <= Cardinality(Tasks) /\ Cardinality(Tasks) \in Nat
        BY TasksOfFacts
      <4>4. s[d].refcount + 1 \in 1 .. Cardinality(Tasks)
        BY <4>1, <4>2, <4>3
      <4> QED BY <1>5, <1>12, <3>2, <4>4
    <3> QED BY <3>1, <3>2
  <2>3. DOMAIN s2 = D
    BY <1>6, <1>12
  <2> QED BY <1>6, <2>1, <2>2, <2>3, DoTypesFacts
<1>19. Whole(M, m2, s2, vids, V, H, sub2, act, prog)
  <2>1. m2[c] # NoFrame => LayOf(M, V, m2[c], s2, sub2[c], act[c], prog[c])
    BY <1>17
  <2>2. Good(M, KeptOf(H, V), V)
    BY <1>2
  <2> QED BY <1>9, <1>14, <1>15, <1>16, <2>1, <2>2, DirsWhole
<1> QED BY <1>18, <1>19, SoundWhole

LEMMA ShareKeeps ==
  ASSUME MemoryInv, NEW t \in Tasks, NEW c \in Tasks, Share(t, c)
  PROVE  MemoryInv'
<1> DEFINE m2 == Moved(mm, c, mm[t])
           s2 == Join(mms, mm[t])
           sub2 == Moved(subsystem, c, subsystem[t])
           b2 == births'
<1>1. /\ mm[t] # NoFrame /\ subsystem[t] = "LINUX" /\ mm[c] = NoFrame
      /\ panic = "no" /\ births < MaxBirths /\ births' = births + 1
  BY DEF Share, Linux, InUserMode, Lives, NotThere
<1>2. mm' = m2 /\ mms' = s2 /\ subsystem' = sub2
  BY DEF Share, Moved, Join
<1>3. /\ vidmaps' = vidmaps /\ video' = video /\ heap' = heap /\ program' = program
      /\ doing' = doing /\ physvars' = physvars
  BY DEF Share
<1>4. Now' = Now
  BY <1>3 DEF physvars, Now
<1>5. Now.panic = "no"
  BY <1>1, NowFacts
<1>6. TaskTypes(DOMAIN Now.dir, mm, mms, vidmaps, video, heap, subsystem, doing, program, births)
  BY <1>5, Before DEF MemoryInv
<1>7. DoTypes(sub2, doing, program, b2)
  <2>1. /\ subsystem \in [Tasks -> Subsystems] /\ births \in 0 .. MaxBirths
        /\ program \in [Tasks -> {q.segments : q \in Programs} \union {<< >>}]
        /\ doing = [u \in Tasks |-> doing[u]] /\ \A u \in Tasks : ActOK(doing[u], program[u])
    BY <1>6 DEF TaskTypes
  <2>2. sub2 \in [Tasks -> Subsystems]
    BY <2>1 DEF Moved
  <2>3. b2 \in 0 .. MaxBirths
    BY <1>1, <2>1, MemoryAssumption
  <2> HIDE DEF sub2, b2
  <2> QED BY <2>1, <2>2, <2>3 DEF DoTypes
<1>8. Sound(Now, mm, mms, vidmaps, video, heap, subsystem, doing, program, births)
  BY DEF MemoryInv
<1>9. /\ m2 = Moved(mm, c, mm[t]) /\ s2 = Join(mms, mm[t])
      /\ sub2 = Moved(subsystem, c, subsystem[t])
  OBVIOUS
<1>10. births' = b2
  OBVIOUS
<1> HIDE DEF m2, s2, sub2, b2
<1>11. Sound(Now, m2, s2, vidmaps, video, heap, sub2, doing, program, b2)
  BY <1>1, <1>5, <1>7, <1>8, <1>9, ShareSound
<1> QED BY <1>2, <1>3, <1>4, <1>10, <1>11 DEF MemoryInv

\* Task t gives up its directory, if it has one: the mm_structs, the memory,
\* and whether the directory goes.
LessOf(m, s, t) == IF m[t] = NoFrame THEN s ELSE Leave(s, m[t])
PutOf(M, m, s, t) == IF m[t] = NoFrame \/ s[m[t]].refcount > 1 THEN M ELSE FreeDirectory(M, m[t])
Gone(m, s, t) == m[t] # NoFrame /\ ~(s[m[t]].refcount > 1)

LEMMA PutOfFacts ==
  ASSUME NEW M, NEW X, NEW V, Good(M, X, V), NEW m, NEW s, NEW t,
         m[t] # NoFrame => m[t] \in DOMAIN M.dir /\ Unseen(M, m[t], V),
         NEW N, N = PutOf(M, m, s, t)
  PROVE  /\ Good(N, X, V) /\ Kin(M, N, V) /\ N.panic = M.panic
         /\ \A e : e \in DOMAIN N.dir <=> e \in DOMAIN M.dir /\ ~(Gone(m, s, t) /\ e = m[t])
<1>1. CASE ~Gone(m, s, t)
  <2>1. N = M
    BY <1>1 DEF Gone, PutOf
  <2>2. Kin(M, M, V)
    BY DEF Kin
  <2> QED BY <1>1, <2>1, <2>2
<1>2. CASE Gone(m, s, t)
  <2> DEFINE d == m[t]
  <2>1. N = FreeDirectory(M, d) /\ d \in DOMAIN M.dir
    BY <1>2 DEF Gone, PutOf
  <2>2. \A a \in Cells : Maps(M)[d][a] # V
    BY <1>2 DEF Gone, Unseen
  <2> HIDE DEF d
  <2>3. Freed(M, N, d, X, V)
    BY <2>1, <2>2, FreeDirectoryFacts
  <2>4. Kin(M, N, V)
    BY <2>3, FreedKin
  <2>5. Good(N, X, V) /\ DOMAIN N.dir = DOMAIN M.dir \ {d} /\ N.panic = M.panic
    BY <2>3 DEF Freed
  <2> QED BY <1>2, <2>4, <2>5 DEF d
<1> QED BY <1>1, <1>2

LEMMA LeftFacts ==
  ASSUME NEW D, NEW m, NEW s, NEW vids, NEW V, NEW H, NEW sub, NEW act, NEW prog, NEW b,
         TaskTypes(D, m, s, vids, V, H, sub, act, prog, b), TaskOK(m, s, sub, act),
         NoFrame \notin D, NEW t \in Tasks, \A x \in vids : x[1] # t /\ m[x[1]] = x[2],
         NEW sub2, NEW act2, NEW prog2, NEW b2, DoTypes(sub2, act2, prog2, b2),
         Apart(t, m, sub, sub2, act2), act2[t] = User,
         NEW r, r = LessOf(m, s, t), NEW m1, m1 = Moved(m, t, NoFrame)
  PROVE  /\ TaskOK(m1, r, sub2, act2)
         /\ TaskTypes(DOMAIN r, m1, r, vids, V, H, sub2, act2, prog2, b2)
         /\ \A e : e \in DOMAIN r <=> e \in D /\ ~(Gone(m, s, t) /\ e = m[t])
         /\ \A u \in Tasks : u # t /\ m[u] # NoFrame => m[u] \in DOMAIN r /\ r[m[u]].brk = s[m[u]].brk
<1>1. /\ m \in [Tasks -> D \union {NoFrame}] /\ DOMAIN s = D
      /\ \A e \in DOMAIN s : s[e] \in [refcount : 1 .. Cardinality(Tasks), brk : Nat]
      /\ \A x \in vids : x \in Tasks \X D \X Cells
      /\ V \in Frames /\ H \in SUBSET Frames
  BY DEF TaskTypes
<1>2. CASE m[t] = NoFrame
  <2>1. r = s /\ ~Gone(m, s, t)
    BY <1>2 DEF LessOf, Gone
  <2>2. m1 = m
    BY <1>1, <1>2 DEF Moved
  <2>3. TaskOK(m, s, sub2, act2)
    <3>1. ASSUME NEW v \in Tasks, NEW u \in Tasks, v # u, m[v] = m[u], m[v] # NoFrame
          PROVE  sub2[v] = "LINUX"
      <4>1. sub[v] = "LINUX"
        BY <3>1 DEF TaskOK
      <4>2. v # t
        BY <1>2, <3>1
      <4> QED BY <4>1, <4>2 DEF Apart
    <3>2. \A u \in Tasks : m[u] = NoFrame => act2[u] = User
      BY DEF Apart
    <3>3. \A d \in DOMAIN s : s[d].refcount = Cardinality(TasksOf(m, d))
      BY DEF TaskOK
    <3> QED BY <3>1, <3>2, <3>3 DEF TaskOK
  <2>4. TaskTypes(D, m, s, vids, V, H, sub2, act2, prog2, b2)
    BY <1>1, DoTypesFacts
  <2>5. \A u \in Tasks : m[u] # NoFrame => m[u] \in DOMAIN s
    BY <1>1
  <2> QED BY <1>1, <2>1, <2>2, <2>3, <2>4, <2>5
<1>3. CASE m[t] # NoFrame
  <2> DEFINE d == m[t]
  <2>1. r = Leave(s, d) /\ d = m[t] /\ d # NoFrame /\ d \in D
    BY <1>1, <1>3 DEF LessOf
  <2>2. s[d] \in [refcount : 1 .. Cardinality(Tasks), brk : Nat]
    BY <1>1, <2>1
  <2>3. s[d] = [refcount |-> s[d].refcount, brk |-> s[d].brk]
    BY <2>2
  <2>4. NoFrame \notin DOMAIN s /\ m \in [Tasks -> DOMAIN s \union {NoFrame}]
    BY <1>1
  <2> HIDE DEF d
  <2>5. /\ TaskOK(Moved(m, t, NoFrame), r, sub2, act2)
        /\ s[d].refcount \in Nat \ {0}
        /\ s[d].refcount = 1 => \A u \in Tasks : u # t => m[u] # d
    BY <2>1, <2>3, <2>4, TaskLeft
  <2> DEFINE D2 == DOMAIN r
  <2>6. TaskTypes(DOMAIN r, m1, r, vids, V, H, sub2, act2, prog2, b2)
    <3>1. D2 = DOMAIN r
      OBVIOUS
    <3> HIDE DEF D2
    <3>2. TaskTypes(D2, m1, r, vids, V, H, sub2, act2, prog2, b2)
      BY <2>1, <2>5, <3>1, TypesLeft
    <3> QED BY <3>2 DEF D2
  <2>7. /\ DOMAIN r = IF s[d].refcount = 1 THEN DOMAIN s \ {d} ELSE DOMAIN s
        /\ \A c \in DOMAIN s : c # d => r[c] = s[c]
        /\ d \in DOMAIN r => /\ s[d].refcount > 1
                             /\ r[d] = [refcount |-> s[d].refcount - 1, brk |-> s[d].brk]
    <3>1. d \in DOMAIN s /\ s[d].refcount \in Nat \ {0}
      BY <1>1, <2>1, <2>5
    <3> QED BY <2>1, <2>3, <3>1, LeaveFacts
  <2>8. Gone(m, s, t) <=> s[d].refcount = 1
    BY <2>1, <2>5 DEF Gone
  <2>9. \A e : e \in DOMAIN r <=> e \in D /\ ~(Gone(m, s, t) /\ e = m[t])
    BY <1>1, <2>1, <2>7, <2>8
  <2>10. ASSUME NEW u \in Tasks, u # t, m[u] # NoFrame
         PROVE  m[u] \in DOMAIN r /\ r[m[u]].brk = s[m[u]].brk
    <3>1. m[u] \in DOMAIN s
      BY <1>1, <2>10
    <3>2. CASE m[u] # d
      BY <2>7, <3>1, <3>2
    <3>3. CASE m[u] = d
      <4>1. s[d].refcount # 1
        BY <2>5, <2>10, <3>3
      <4>2. d \in DOMAIN r
        BY <2>7, <3>1, <3>3, <4>1
      <4>3. r[d].brk = s[d].brk
        BY <2>7, <4>2
      <4> QED BY <3>3, <4>2, <4>3
    <3> QED BY <3>2, <3>3
  <2> QED BY <2>5, <2>6, <2>9, <2>10
<1> QED BY <1>2, <1>3

\* The memory after exec of task t, up to the first segment; K is with the new
\* directory.
ExecMem(K, m, s, t) == IF K.panic = "no" THEN PutOf(K, m, s, t) ELSE K

\* Task t is not one that the screen is shown to.
LEMMA NoVids ==
  ASSUME NEW D, NEW m, NEW s, NEW vids, NEW V, NEW H, NEW sub, NEW act, NEW prog, NEW b, NEW w,
         TaskTypes(D, m, s, vids, V, H, sub, act, prog, b), NoFrame \notin D,
         VidOK(w, V, vids, m, sub, act), NEW t \in Tasks,
         m[t] = NoFrame \/ sub[t] = "LINUX" \/ act[t] = Thread
  PROVE  \A x \in vids : x[1] # t /\ m[x[1]] = x[2]
<1> SUFFICES ASSUME NEW x \in vids
             PROVE  x[1] # t /\ m[x[1]] = x[2]
  OBVIOUS
<1>1. x[1] \in Tasks /\ x[2] \in D
  BY VidTypes
<1>2. m[x[1]] = x[2] /\ sub[x[1]] = "ECE391" /\ act[x[1]] \in {User, Doomed}
  BY DEF VidOK
<1>3. x[2] # NoFrame
  BY <1>1
<1> QED BY <1>2, <1>3, ActFacts

LEMMA DirFrames ==
  ASSUME NEW M, NEW X, NEW V, Good(M, X, V)
  PROVE  DOMAIN M.dir \subseteq SmallFrame /\ NoFrame \notin DOMAIN M.dir
<1>1. DOMAIN M.dir \subseteq SmallFrame
  BY DEF Good, Shape, DirsOK
<1> QED BY <1>1, NumberFacts

With(S, n) == S \union {n}

\* What the tasks' variables are after an exec that got its directory n.
LEMMA ExecTasks ==
  ASSUME NEW D, NEW m, NEW s, NEW vids, NEW V, NEW H, NEW sub, NEW act, NEW prog, NEW b,
         TaskTypes(D, m, s, vids, V, H, sub, act, prog, b), TaskOK(m, s, sub, act),
         NoFrame \notin D, NEW t \in Tasks, \A x \in vids : x[1] # t /\ m[x[1]] = x[2],
         NEW n, n \notin D, n # NoFrame,
         NEW sub2, \A u \in Tasks : u # t => sub2[u] = sub[u],
         NEW act2, \A u \in Tasks : u # t => act2[u] = act[u],
         NEW prog2, NEW b2, DoTypes(sub2, act2, prog2, b2),
         NEW r, r = LessOf(m, s, t), NEW m2, m2 = Moved(m, t, n), NEW s2, s2 = Put(r, n, Fresh(0)),
         NEW D2, D2 = With(DOMAIN r, n)
  PROVE  /\ TaskOK(m2, s2, sub2, act2)
         /\ TaskTypes(D2, m2, s2, vids, V, H, sub2, act2, prog2, b2)
         /\ \A e : e \in D2 <=> e = n \/ (e \in D /\ ~(Gone(m, s, t) /\ e = m[t]))
         /\ \A u \in Tasks : u # t /\ m[u] # NoFrame => m[u] \in D2 /\ s2[m[u]].brk = s[m[u]].brk
         /\ s2[n].brk = 0
<1> DEFINE m1 == Moved(m, t, NoFrame)
           act1 == Doing(act2, t, User)
           R == DOMAIN r
           k == 0
           f == Fresh(k)
<1>1. m \in [Tasks -> D \union {NoFrame}]
  BY DEF TaskTypes
<1>2. act1[t] = User /\ (\A u \in Tasks : u # t => act1[u] = act2[u]) /\ act1 = [u \in Tasks |-> act1[u]]
  BY DEF Doing, DoTypes
<1>3. \A u \in Tasks : m[u] = NoFrame => act[u] = User
  BY DEF TaskOK
<1> HIDE DEF act1
<1>4. DoTypes(sub2, act1, prog2, b2)
  <2>1. ASSUME NEW u \in Tasks
        PROVE  ActOK(act1[u], prog2[u])
    <3>1. CASE u = t
      BY <1>2, <3>1 DEF ActOK
    <3>2. CASE u # t
      BY <1>2, <3>2 DEF DoTypes
    <3> QED BY <3>1, <3>2
  <2> QED BY <1>2, <2>1 DEF DoTypes
<1>5. Apart(t, m, sub, sub2, act1)
  BY <1>2, <1>3 DEF Apart
<1>6. m1 = Moved(m, t, NoFrame) /\ R = DOMAIN r
  OBVIOUS
<1> HIDE DEF m1
<1>7. /\ TaskOK(m1, r, sub2, act1)
      /\ TaskTypes(DOMAIN r, m1, r, vids, V, H, sub2, act1, prog2, b2)
      /\ \A e : e \in DOMAIN r <=> e \in D /\ ~(Gone(m, s, t) /\ e = m[t])
      /\ \A u \in Tasks : u # t /\ m[u] # NoFrame => m[u] \in DOMAIN r /\ r[m[u]].brk = s[m[u]].brk
  BY <1>2, <1>4, <1>5, <1>6, LeftFacts
<1>8. m1 \in [Tasks -> DOMAIN r \union {NoFrame}]
  BY <1>7 DEF TaskTypes
<1>9. m1[t] = NoFrame /\ m2 = Moved(m1, t, n)
  BY <1>1, <1>6 DEF Moved
<1>10. n \notin DOMAIN r /\ NoFrame \notin DOMAIN r
  BY <1>7
<1>11. Apart(t, m1, sub2, sub2, act2)
  <2>1. ASSUME NEW u \in Tasks, u # t, m1[u] = NoFrame
        PROVE  act2[u] = User
    <3>1. act1[u] = User
      BY <1>7, <2>1 DEF TaskOK
    <3> QED BY <1>2, <2>1, <3>1
  <2> QED BY <2>1 DEF Apart
<1>12. s2 = Put(r, n, Fresh(k)) /\ k \in Nat
  OBVIOUS
<1> HIDE DEF k
<1>13. TaskOK(m2, s2, sub2, act2)
  <2>1. TaskOK(Moved(m1, t, n), Put(r, n, Fresh(k)), sub2, act2)
    BY <1>7, <1>8, <1>9, <1>10, <1>11, TaskBorn
  <2> QED BY <1>9, <1>12, <2>1
<1>14. TaskTypes(D2, m2, s2, vids, V, H, sub2, act2, prog2, b2)
  <2>1. TaskTypes(R, m1, r, vids, V, H, sub2, act1, prog2, b2) /\ n \notin R /\ D2 = R \union {n}
    BY <1>7, <1>10 DEF With
  <2> HIDE DEF R
  <2> QED BY <1>9, <1>12, <2>1, TypesBorn
<1>15. s2[n] = f /\ \A e \in DOMAIN r : s2[e] = r[e]
  <2>1. s2 = Put(r, n, f)
    BY <1>12
  <2> HIDE DEF f
  <2> QED BY <1>10, <2>1, PutFacts
<1>16. s2[n].brk = 0
  BY <1>15 DEF Fresh, k
<1>17. \A e : e \in D2 <=> e = n \/ (e \in D /\ ~(Gone(m, s, t) /\ e = m[t]))
  BY <1>7 DEF With
<1>18. ASSUME NEW u \in Tasks, u # t, m[u] # NoFrame
       PROVE  m[u] \in D2 /\ s2[m[u]].brk = s[m[u]].brk
  <2>1. m[u] \in DOMAIN r /\ r[m[u]].brk = s[m[u]].brk
    BY <1>7, <1>18
  <2> QED BY <1>15, <2>1 DEF With
<1> QED BY <1>13, <1>14, <1>16, <1>17, <1>18

LEMMA ExecMemory ==
  ASSUME NEW M, NEW X, NEW V, Good(M, X, V), V # NoFrame, M.panic = "no", FreeSmall(M) # {},
         NEW m, NEW s, NEW t,
         m[t] # NoFrame => m[t] \in DOMAIN M.dir /\ Unseen(M, m[t], V),
         NEW n, n = Min(FreeSmall(M)), NEW K, K = NewDirectory(M),
         NEW N, N = ExecMem(K, m, s, t)
  PROVE  /\ K.panic = "no" /\ N.panic = "no" /\ Good(N, X, V) /\ Kin(M, N, V)
         /\ n \notin DOMAIN M.dir /\ n # NoFrame
         /\ \A e : e \in DOMAIN N.dir <=> e = n \/ (e \in DOMAIN M.dir /\ ~(Gone(m, s, t) /\ e = m[t]))
         /\ LargeIn(N, n) = {} /\ \A a \in Cells : Maps(N)[n][a] = NoFrame
<1> DEFINE v == NoPages
<1>0. \A a \in Cells : v[a] = NoFrame
  BY DEF NoPages
<1>1. Born(M, K, n, v, X, V) /\ LargeIn(K, n) = {}
  BY NewDirectoryFacts
<1> HIDE DEF v
<1>2. /\ Good(K, X, V) /\ n \notin DOMAIN M.dir /\ n \in SmallFrame /\ K.panic = "no"
      /\ \A c \in DOMAIN M.dir : LargeIn(K, c) = LargeIn(M, c)
  BY <1>1 DEF Born
<1>3. /\ Kin(M, K, V) /\ Maps(K)[n] = v
      /\ \A c : c \in DOMAIN K.dir <=> c \in DOMAIN M.dir \/ c = n
  <2>1. \A a \in Cells : v[a] # V
    BY <1>0
  <2> QED BY <1>1, <2>1, BornKin
<1>4. m[t] # NoFrame => m[t] \in DOMAIN K.dir /\ Unseen(K, m[t], V)
  <2> SUFFICES ASSUME m[t] # NoFrame
               PROVE  m[t] \in DOMAIN K.dir /\ Unseen(K, m[t], V)
    OBVIOUS
  <2>1. m[t] \in DOMAIN M.dir /\ m[t] \in DOMAIN K.dir
    BY <1>3
  <2>2. \A a \in Cells : Maps(K)[m[t]][a] = Maps(M)[m[t]][a]
    BY <1>3, <2>1 DEF Kin
  <2> QED BY <2>1, <2>2 DEF Unseen
<1>5. N = PutOf(K, m, s, t)
  BY <1>2 DEF ExecMem
<1>6. /\ Good(N, X, V) /\ Kin(K, N, V) /\ N.panic = K.panic
      /\ \A e : e \in DOMAIN N.dir <=> e \in DOMAIN K.dir /\ ~(Gone(m, s, t) /\ e = m[t])
  BY <1>2, <1>4, <1>5, PutOfFacts
<1>7. n # NoFrame
  BY <1>2, NumberFacts
<1>8. Gone(m, s, t) => n # m[t]
  BY <1>2 DEF Gone
<1>9. n \in DOMAIN N.dir /\ n \in DOMAIN K.dir
  BY <1>3, <1>6, <1>8
<1>10. Kin(M, N, V)
  <2>1. DOMAIN M.dir \subseteq DOMAIN K.dir /\ DOMAIN N.dir \subseteq DOMAIN K.dir
    BY <1>3, <1>6
  <2> QED BY <1>3, <1>6, <2>1, KinTwice
<1>11. LargeIn(N, n) \subseteq LargeIn(K, n) /\ \A a \in Cells : Maps(N)[n][a] = Maps(K)[n][a]
  BY <1>6, <1>9 DEF Kin
<1>12. LargeIn(N, n) = {} /\ \A a \in Cells : Maps(N)[n][a] = NoFrame
  BY <1>0, <1>1, <1>3, <1>11
<1>13. \A e : e \in DOMAIN N.dir <=> e = n \/ (e \in DOMAIN M.dir /\ ~(Gone(m, s, t) /\ e = m[t]))
  BY <1>3, <1>6, <1>8
<1> QED BY <1>2, <1>6, <1>7, <1>10, <1>12, <1>13

LEMMA ExecSound ==
  ASSUME NEW M, NEW m, NEW s, NEW vids, NEW V, NEW H, NEW sub, NEW act, NEW prog, NEW b,
         Sound(M, m, s, vids, V, H, sub, act, prog, b), M.panic = "no",
         NEW t \in Tasks, m[t] = NoFrame \/ sub[t] = "LINUX" \/ act[t] = Thread,
         NEW n, n = Min(FreeSmall(M)), NEW K, K = NewDirectory(M), NEW N, N = ExecMem(K, m, s, t),
         NEW q \in Programs,
         NEW sub2, sub2[t] = q.subsystem, \A u \in Tasks : u # t => sub2[u] = sub[u],
         NEW act2, act2[t] = Load(1), \A u \in Tasks : u # t => act2[u] = act[u],
         NEW prog2, prog2[t] = q.segments, \A u \in Tasks : u # t => prog2[u] = prog[u],
         NEW b2, DoTypes(sub2, act2, prog2, b2),
         NEW m2, m2 = After(K, Moved(m, t, n), m),
         NEW s2, s2 = After(K, Put(LessOf(m, s, t), n, Fresh(0)), s)
  PROVE  Sound(N, m2, s2, vids, V, H, sub2, act2, prog2, b2) /\ Fields(N)
<1> DEFINE X == KeptOf(H, V)
           D == DOMAIN M.dir
<1>1. /\ VidOK(Maps(M), V, vids, m, sub, act) /\ TaskOK(m, s, sub, act)
      /\ Good(M, X, V) /\ Fields(M) /\ V \in SmallFrame \union {Screen}
      /\ TaskTypes(D, m, s, vids, V, H, sub, act, prog, b)
  BY Before
<1>2. V # NoFrame
  BY <1>1, NumberFacts DEF Screen, NoFrame
<1>3. NoFrame \notin D
  BY <1>1, DirFrames
<1>4. \A x \in vids : x[1] # t /\ m[x[1]] = x[2]
  BY <1>1, <1>3, NoVids
<1>5. m[t] # NoFrame => m[t] \in D /\ Unseen(M, m[t], V)
  <2> SUFFICES ASSUME m[t] # NoFrame
               PROVE  m[t] \in D /\ Unseen(M, m[t], V)
    OBVIOUS
  <2>1. m[t] \in D /\ m[t] \in DOMAIN Maps(M)
    BY BeforeTask
  <2>2. \A x \in vids : x[1] # t
    BY <1>4
  <2>3. \A a \in Cells : Maps(M)[m[t]][a] # V
    BY <1>1, <2>1, <2>2, OwnRow
  <2> QED BY <2>1, <2>3 DEF Unseen
<1>6. CASE FreeSmall(M) = {}
  <2>1. K = Panics(M, "oom")
    BY <1>6 DEF NewDirectory
  <2>2. K.panic = "oom"
    BY <1>1, <2>1, PanicsFacts
  <2>3. m2 = m /\ s2 = s /\ N = K
    BY <2>2 DEF After, ExecMem
  <2>4. Sound(K, m, s, vids, V, H, sub2, act2, prog2, b2)
    BY <2>1, OutSound
  <2> QED BY <2>3, <2>4 DEF Sound
<1>7. CASE FreeSmall(M) # {}
  <2>1. /\ K.panic = "no" /\ N.panic = "no" /\ Good(N, X, V) /\ Kin(M, N, V)
        /\ n \notin D /\ n # NoFrame
        /\ \A e : e \in DOMAIN N.dir <=> e = n \/ (e \in D /\ ~(Gone(m, s, t) /\ e = m[t]))
        /\ LargeIn(N, n) = {} /\ \A a \in Cells : Maps(N)[n][a] = NoFrame
    <3> HIDE DEF X
    <3> QED BY <1>1, <1>2, <1>5, <1>7, ExecMemory
  <2> DEFINE r == LessOf(m, s, t)
             D2 == With(DOMAIN r, n)
  <2>2. m2 = Moved(m, t, n) /\ s2 = Put(r, n, Fresh(0)) /\ r = LessOf(m, s, t) /\ D2 = With(DOMAIN r, n)
    BY <2>1 DEF After
  <2> HIDE DEF r, D2, D
  <2>3. /\ TaskOK(m2, s2, sub2, act2)
        /\ TaskTypes(D2, m2, s2, vids, V, H, sub2, act2, prog2, b2)
        /\ \A e : e \in D2 <=> e = n \/ (e \in D /\ ~(Gone(m, s, t) /\ e = m[t]))
        /\ \A u \in Tasks : u # t /\ m[u] # NoFrame => m[u] \in D2 /\ s2[m[u]].brk = s[m[u]].brk
        /\ s2[n].brk = 0
    BY <1>1, <1>3, <1>4, <2>1, <2>2, ExecTasks
  <2>4. D2 = DOMAIN N.dir
    BY <2>1, <2>3
  <2>5. m2[t] = n /\ \A u \in Tasks : u # t => m2[u] = m[u]
    <3>1. m \in [Tasks -> D \union {NoFrame}]
      BY <1>1 DEF TaskTypes
    <3> QED BY <2>2, <3>1 DEF Moved
  <2>6. LayOf(N, V, m2[t], s2, sub2[t], act2[t], prog2[t])
    <3>1. \A p \in Pages : Maps(N)[n][<<Spare, p>>] = NoFrame
      BY <2>1, SpareFacts, CellFacts
    <3> QED BY <2>1, <2>3, <2>5, <3>1 DEF LayOf
  <2>7. GoOn(t, m, s, vids, sub, act, prog, DOMAIN N.dir, m2, s2, sub2, act2, prog2)
    BY <2>3, <2>4, <2>5 DEF GoOn
  <2>8. Whole(N, m2, s2, vids, V, H, sub2, act2, prog2)
    <3>1. Good(N, KeptOf(H, V), V) /\ \A x \in vids : x[1] # t
      BY <1>4, <2>1
    <3> QED BY <2>1, <2>3, <2>6, <2>7, <3>1, DirsWhole
  <2>9. TaskTypes(DOMAIN N.dir, m2, s2, vids, V, H, sub2, act2, prog2, b2)
    BY <2>3, <2>4
  <2>10. Sound(N, m2, s2, vids, V, H, sub2, act2, prog2, b2)
    BY <2>1, <2>8, <2>9, SoundWhole
  <2> QED BY <2>10 DEF Sound
<1> QED BY <1>6, <1>7

LEMMA ExecKeeps ==
  ASSUME MemoryInv, NEW t \in Tasks, NEW q \in Programs, Exec(t, q)
  PROVE  MemoryInv'
<1> DEFINE K == NewDirectory(Now)
           n == Min(FreeSmall(Now))
           N == ExecMem(K, mm, mms, t)
           m2 == After(K, Moved(mm, t, n), mm)
           s2 == After(K, Put(LessOf(mm, mms, t), n, Fresh(0)), mms)
           sub2 == Moved(subsystem, t, q.subsystem)
           act2 == Moved(doing, t, Load(1))
           prog2 == Moved(program, t, q.segments)
           b2 == births'
<1>1. /\ panic = "no" /\ births < MaxBirths /\ births' = births + 1
      /\ mm[t] = NoFrame \/ Linux(t) \/ doing[t] = Thread
  BY DEF Exec
<1>2. mm[t] = NoFrame \/ subsystem[t] = "LINUX" \/ doing[t] = Thread
  BY <1>1 DEF Linux
<1>3. Becomes(N)
  BY Zenon DEF Exec, ExecMem, PutOf, PutMm
<1>4. mm' = m2
  BY DEF Exec, After, Moved
<1>5. mms' = s2
  BY Zenon DEF Exec, After, Fresh, LessOf, MmsLess, Leave
<1>6. subsystem' = sub2 /\ doing' = act2 /\ program' = prog2 /\ births' = b2
  BY DEF Exec, Moved
<1>7. vidmaps' = vidmaps /\ video' = video /\ heap' = heap
  BY DEF Exec
<1>8. Now.panic = "no"
  BY <1>1, NowFacts
<1>9. Sound(Now, mm, mms, vidmaps, video, heap, subsystem, doing, program, births)
  BY DEF MemoryInv
<1>10. TaskTypes(DOMAIN Now.dir, mm, mms, vidmaps, video, heap, subsystem, doing, program, births)
  BY <1>8, <1>9, Before
<1>11. /\ subsystem \in [Tasks -> Subsystems] /\ births \in 0 .. MaxBirths
       /\ doing = [u \in Tasks |-> doing[u]] /\ \A u \in Tasks : ActOK(doing[u], program[u])
       /\ program \in [Tasks -> {p.segments : p \in Programs} \union {<< >>}]
  BY <1>10 DEF TaskTypes
<1>12. q.subsystem \in Subsystems /\ 1 \in DOMAIN q.segments
  BY ProgramsAssumption
<1>13. /\ sub2 \in [Tasks -> Subsystems]
       /\ sub2[t] = q.subsystem /\ \A u \in Tasks : u # t => sub2[u] = subsystem[u]
  BY <1>11, <1>12 DEF Moved
<1>14. /\ act2 = [u \in Tasks |-> act2[u]]
       /\ act2[t] = Load(1) /\ \A u \in Tasks : u # t => act2[u] = doing[u]
  BY <1>11 DEF Moved
<1>15. /\ prog2 \in [Tasks -> {p.segments : p \in Programs} \union {<< >>}]
       /\ prog2[t] = q.segments /\ \A u \in Tasks : u # t => prog2[u] = program[u]
  <2> DEFINE P == {p.segments : p \in Programs} \union {<< >>}
  <2>1. q.segments \in P /\ program \in [Tasks -> P]
    BY <1>11
  <2> HIDE DEF P
  <2>2. /\ prog2 \in [Tasks -> P]
        /\ prog2[t] = q.segments /\ \A u \in Tasks : u # t => prog2[u] = program[u]
    BY <2>1 DEF Moved
  <2> QED BY <2>2 DEF P
<1>16. /\ K = NewDirectory(Now) /\ n = Min(FreeSmall(Now)) /\ N = ExecMem(K, mm, mms, t)
       /\ m2 = After(K, Moved(mm, t, n), mm)
       /\ s2 = After(K, Put(LessOf(mm, mms, t), n, Fresh(0)), mms)
  OBVIOUS
<1>17. b2 \in 0 .. MaxBirths
  BY <1>1, <1>11, MemoryAssumption
<1> HIDE DEF K, n, N, m2, s2, sub2, act2, prog2, b2
<1>18. DoTypes(sub2, act2, prog2, b2)
  <2>1. ASSUME NEW u \in Tasks
        PROVE  ActOK(act2[u], prog2[u])
    <3>1. CASE u = t
      BY <1>12, <1>14, <1>15, <3>1 DEF ActOK
    <3>2. CASE u # t
      BY <1>11, <1>14, <1>15, <3>2
    <3> QED BY <3>1, <3>2
  <2> QED BY <1>13, <1>14, <1>15, <1>17, <2>1 DEF DoTypes
<1>19. Sound(N, m2, s2, vidmaps, video, heap, sub2, act2, prog2, b2) /\ Fields(N)
  BY <1>2, <1>8, <1>9, <1>13, <1>14, <1>15, <1>16, <1>18, ExecSound
<1>20. Now' = N
  BY <1>3, <1>19, BecomesFacts
<1> QED BY <1>4, <1>5, <1>6, <1>7, <1>19, <1>20 DEF MemoryInv

\* A task without a vidmap leaves its directory, and others may go on.
LEMMA LeaveSound ==
  ASSUME NEW M, NEW m, NEW s, NEW vids, NEW V, NEW H, NEW sub, NEW act, NEW prog, NEW b,
         Sound(M, m, s, vids, V, H, sub, act, prog, b), M.panic = "no",
         NEW t \in Tasks, m[t] # NoFrame, \A x \in vids : x[1] # t,
         NEW N, N = PutOf(M, m, s, t),
         NEW sub2, \A u \in Tasks : u # t => sub2[u] = sub[u],
         NEW act2, act2[t] = User, \A u \in Tasks : u # t => act2[u] = act[u] \/ act2[u] = User,
         DoTypes(sub2, act2, prog, b),
         NEW m2, m2 = Moved(m, t, NoFrame), NEW r, r = LessOf(m, s, t)
  PROVE  Sound(N, m2, r, vids, V, H, sub2, act2, prog, b) /\ Fields(N)
<1> DEFINE X == KeptOf(H, V)
           D == DOMAIN M.dir
<1>1. /\ VidOK(Maps(M), V, vids, m, sub, act) /\ TaskOK(m, s, sub, act)
      /\ Good(M, X, V) /\ Fields(M)
      /\ TaskTypes(D, m, s, vids, V, H, sub, act, prog, b)
  BY Before
<1>2. NoFrame \notin D
  BY <1>1, DirFrames
<1>3. \A x \in vids : x[1] # t /\ m[x[1]] = x[2]
  BY <1>1 DEF VidOK
<1>4. m[t] # NoFrame => m[t] \in D /\ Unseen(M, m[t], V)
  <2>1. m[t] \in D /\ m[t] \in DOMAIN Maps(M)
    BY BeforeTask
  <2>2. \A a \in Cells : Maps(M)[m[t]][a] # V
    BY <1>1, <2>1, OwnRow
  <2> QED BY <2>1, <2>2 DEF Unseen
<1> HIDE DEF D
<1>5. /\ Good(N, X, V) /\ Kin(M, N, V) /\ N.panic = M.panic
      /\ \A e : e \in DOMAIN N.dir <=> e \in D /\ ~(Gone(m, s, t) /\ e = m[t])
  <2> HIDE DEF X
  <2> QED BY <1>1, <1>4, PutOfFacts DEF D
<1>6. Apart(t, m, sub, sub2, act2)
  <2>1. \A u \in Tasks : m[u] = NoFrame => act[u] = User
    BY <1>1 DEF TaskOK
  <2> QED BY <2>1 DEF Apart
<1>7. /\ TaskOK(m2, r, sub2, act2)
      /\ TaskTypes(DOMAIN r, m2, r, vids, V, H, sub2, act2, prog, b)
      /\ \A e : e \in DOMAIN r <=> e \in D /\ ~(Gone(m, s, t) /\ e = m[t])
      /\ \A u \in Tasks : u # t /\ m[u] # NoFrame => m[u] \in DOMAIN r /\ r[m[u]].brk = s[m[u]].brk
  BY <1>1, <1>2, <1>3, <1>6, LeftFacts
<1>8. \A e : e \in DOMAIN N.dir <=> e \in DOMAIN r
  BY <1>5, <1>7
<1>9. DOMAIN N.dir = DOMAIN r
  BY <1>8
<1>10. m2[t] = NoFrame /\ \A u \in Tasks : u # t => m2[u] = m[u]
  <2>1. m \in [Tasks -> D \union {NoFrame}]
    BY <1>1 DEF TaskTypes
  <2> QED BY <2>1 DEF Moved
<1>11. GoOn(t, m, s, vids, sub, act, prog, DOMAIN N.dir, m2, r, sub2, act2, prog)
  BY <1>7, <1>8, <1>10 DEF GoOn
<1>12. Whole(N, m2, r, vids, V, H, sub2, act2, prog)
  <2>1. Good(N, KeptOf(H, V), V)
    BY <1>5
  <2> QED BY <1>5, <1>7, <1>10, <1>11, <2>1, DirsWhole
<1>13. TaskTypes(DOMAIN N.dir, m2, r, vids, V, H, sub2, act2, prog, b)
  BY <1>7, <1>9
<1>14. Sound(N, m2, r, vids, V, H, sub2, act2, prog, b)
  BY <1>5, <1>12, <1>13, SoundWhole
<1> QED BY <1>14 DEF Sound

-----------------------------------------------------------------------------
(* The screen: vidmaps come and go, and the terminal's memory moves. *)

\* A table is found through one entry only.
LEMMA PlaceOf ==
  ASSUME NEW D, NEW T, Shape(D, T), NEW d \in DOMAIN D, NEW s \in UserSlots, IsTable(D[d][s]),
         NEW c \in DOMAIN D, NEW r \in UserSlots
  PROVE  D[c][r].frame = D[d][s].frame <=> c = d /\ r = s
<1> SUFFICES ASSUME D[c][r].frame = D[d][s].frame
             PROVE  c = d /\ r = s
  OBVIOUS
<1>1. D[d][s].frame \in DOMAIN T /\ DOMAIN T \subseteq SmallFrame
  BY DEF Shape, Placed, TablesOK
<1>2. D[c][r].large => D[c][r].frame \in BigFrame
  BY DEF Shape, DirsOK
<1>3. D[d][s].frame \notin BigFrame
  <2>1. D[d][s].frame \in NumLarge .. NumLarge * NumEntries - 1
    BY <1>1 DEF SmallFrame
  <2> QED BY <2>1, NumberFacts DEF BigFrame, LargeFrame
<1>4. IsTable(D[c][r])
  BY <1>2, <1>3 DEF IsTable
<1> QED BY <1>4 DEF Shape, Placed

\* Every cell is as it was or one where the screen is, or was, or is no more.
Moves(M, N, V, W) ==
  \A c \in DOMAIN M.dir : \A a \in Cells :
    \/ Maps(N)[c][a] = Maps(M)[c][a] /\ Maps(M)[c][a] # V
    \/ Maps(M)[c][a] \in {NoFrame, V} /\ Maps(N)[c][a] \in {NoFrame, W}

LEMMA ScreenWhole ==
  ASSUME NEW M, NEW m, NEW s, NEW vids, NEW V, NEW H, NEW sub, NEW act, NEW prog, NEW b,
         Sound(M, m, s, vids, V, H, sub, act, prog, b), M.panic = "no",
         NEW N, NEW W, Good(N, KeptOf(H, W), W), W \notin H, W \in SmallFrame \union {Screen},
         SameLarge(M, N), Moves(M, N, V, W), NEW vids2, VidOK(Maps(N), W, vids2, m, sub, act)
  PROVE  Whole(N, m, s, vids2, W, H, sub, act, prog)
<1>1. TaskOK(m, s, sub, act)
  BY Before
<1>2. ASSUME NEW t \in Tasks, m[t] # NoFrame
      PROVE  LayOf(N, W, m[t], s, sub[t], act[t], prog[t])
  <2>1. LayOf(M, V, m[t], s, sub[t], act[t], prog[t]) /\ m[t] \in DOMAIN M.dir
    BY <1>2, BeforeTask
  <2>2. LargeIn(N, m[t]) = LargeIn(M, m[t])
    BY <2>1 DEF SameLarge
  <2>3. ASSUME NEW p \in Pages
        PROVE  Maps(N)[m[t]][<<Spare, p>>] \in {NoFrame, W}
    <3> DEFINE a == <<Spare, p>>
    <3>1. a \in Cells
      BY SpareFacts, CellFacts
    <3>2. Maps(M)[m[t]][a] \in {NoFrame, V}
      BY <2>1 DEF LayOf
    <3> HIDE DEF a
    <3>3. Maps(N)[m[t]][a] \in {NoFrame, W}
      BY <2>1, <3>1, <3>2 DEF Moves
    <3> QED BY <3>3 DEF a
  <2> QED BY <2>1, <2>2, <2>3 DEF LayOf
<1>3. LayOK(N, W, m, s, sub, act, prog)
  BY <1>2 DEF LayOK
<1> QED BY <1>1, <1>3 DEF Whole

\* The screen is in tables only.
LEMMA SeenInTable ==
  ASSUME NEW M, Shape(M.dir, M.table), NEW V, V \in SmallFrame \union {Screen},
         NEW d \in DOMAIN M.dir, NEW s \in UserSlots, NEW p \in Pages, Maps(M)[d][<<s, p>>] = V
  PROVE  IsTable(M.dir[d][s])
<1>1. FrameAt(M.dir, M.table, d, s, p) = V
  BY FlatFacts DEF Maps
<1>2. V # NoFrame /\ V \notin BigFrame
  <2>1. V \in NumLarge .. NumLarge * NumEntries - 1 \/ V = 0
    BY DEF SmallFrame, Screen
  <2> QED BY <2>1, NumberFacts DEF BigFrame, LargeFrame, NoFrame, Screen
<1>3. M.dir[d][s].frame # NoFrame
  BY <1>1, <1>2 DEF FrameAt
<1>4. ~M.dir[d][s].large
  <2>1. M.dir[d][s].large => M.dir[d][s].frame \in BigFrame
    BY DEF Shape, DirsOK
  <2>2. M.dir[d][s].large => M.dir[d][s].frame = V
    BY <1>1, <1>2, <1>3 DEF FrameAt
  <2> QED BY <1>2, <2>1, <2>2
<1> QED BY <1>3, <1>4 DEF IsTable

WithTable(M, U) == [M EXCEPT !.table = U]

LEMMA WithTableFacts ==
  ASSUME NEW M, Fields(M), NEW U, NEW N, N = WithTable(M, U)
  PROVE  /\ Fields(N) /\ N.phys = M.phys /\ N.dir = M.dir /\ N.table = U
         /\ N.content = M.content /\ N.panic = M.panic
<1>1. N = [phys |-> M.phys, dir |-> M.dir, table |-> U, content |-> M.content, panic |-> M.panic]
  BY DEF WithTable, Fields
<1> QED BY <1>1 DEF Fields

\* Where a vidmap of task t is, and where any is.
UnmapAt(M, t, vids, f, p) ==
  \E x \in vids : x[1] = t /\ x[3][2] = p /\ M.dir[x[2]][x[3][1]].frame = f
RemapAt(M, vids, f, p) ==
  \E x \in vids : x[3][2] = p /\ M.dir[x[2]][x[3][1]].frame = f

\* The vidmaps are of tasks, in directories of D.
VidsIn(vids, D) ==
  \A x \in vids : x[1] \in Tasks /\ x[2] \in D /\ x[3] \in Cells /\ x = <<x[1], x[2], x[3]>>

\* A vidmap is at address a of directory d.
Shown(vids, d, a) == \E t \in Tasks : <<t, d, a>> \in vids

LEMMA AtFacts ==
  ASSUME NEW M, Shape(M.dir, M.table), NEW vids, VidsIn(vids, DOMAIN M.dir),
         NEW d \in DOMAIN M.dir, NEW s \in UserSlots, NEW p \in Pages, IsTable(M.dir[d][s]),
         NEW g, g = M.dir[d][s].frame, NEW a, a = <<s, p>>
  PROVE  /\ \A t : UnmapAt(M, t, vids, g, p) <=> <<t, d, a>> \in vids
         /\ RemapAt(M, vids, g, p) <=> Shown(vids, d, a)
<1>1. ASSUME NEW x \in vids
      PROVE  x[3][2] = p /\ M.dir[x[2]][x[3][1]].frame = g <=> x[2] = d /\ x[3] = a
  <2> DEFINE c == x[2]
             r == x[3][1]
  <2>1. c \in DOMAIN M.dir /\ x[3] \in Cells
    BY DEF VidsIn
  <2>2. r \in UserSlots /\ x[3] = <<x[3][1], x[3][2]>>
    BY <2>1, CellFacts
  <2> HIDE DEF c, r
  <2>3. M.dir[c][r].frame = M.dir[d][s].frame <=> c = d /\ r = s
    BY <2>1, <2>2, PlaceOf
  <2>4. x[3] = a <=> r = s /\ x[3][2] = p
    BY <2>2 DEF r
  <2> QED BY <2>3, <2>4 DEF c, r
<1>2. ASSUME NEW t
      PROVE  UnmapAt(M, t, vids, g, p) <=> <<t, d, a>> \in vids
  <2> DEFINE y == <<t, d, a>>
  <2>1. y[1] = t /\ y[2] = d /\ y[3] = a
    OBVIOUS
  <2>2. \A x \in vids : x[1] = t /\ x[2] = d /\ x[3] = a => x = y
    BY DEF VidsIn
  <2> HIDE DEF y
  <2>3. UnmapAt(M, t, vids, g, p) <=> y \in vids
    BY <1>1, <2>1, <2>2 DEF UnmapAt
  <2> QED BY <2>3 DEF y
<1>3. RemapAt(M, vids, g, p) <=> Shown(vids, d, a)
  <2>1. ASSUME RemapAt(M, vids, g, p)
        PROVE  \E t \in Tasks : <<t, d, a>> \in vids
    <3>1. PICK x \in vids : x[2] = d /\ x[3] = a
      BY <1>1, <2>1 DEF RemapAt
    <3>2. x[1] \in Tasks /\ x = <<x[1], x[2], x[3]>>
      BY DEF VidsIn
    <3>3. x = <<x[1], d, a>>
      BY <3>1, <3>2
    <3> QED BY <3>2, <3>3
  <2>2. ASSUME NEW t \in Tasks, <<t, d, a>> \in vids
        PROVE  RemapAt(M, vids, g, p)
    <3>1. UnmapAt(M, t, vids, g, p)
      BY <1>2, <2>2
    <3> QED BY <3>1, Zenon DEF UnmapAt, RemapAt
  <2> QED BY <2>1, <2>2 DEF Shown
<1> QED BY <1>2, <1>3

\* The tables without the vidmaps of task t.
UnmapTable(M, t, vids) ==
  [f \in DOMAIN M.table |-> [p \in Pages |->
     IF UnmapAt(M, t, vids, f, p) THEN Absent ELSE M.table[f][p]]]
UnmapOf(M, t, vids) == WithTable(M, UnmapTable(M, t, vids))
VidsLess(vids, t) == {x \in vids : x[1] # t}

\* How the screen is seen through the vidmaps.
Seen(M, V, vids) ==
  \A d \in DOMAIN M.dir : \A a \in Cells :
    Maps(M)[d][a] = V <=> \E t \in Tasks : <<t, d, a>> \in vids

LEMMA UnmapMaps ==
  ASSUME NEW M, NEW X, NEW V, Good(M, X, V), V \in SmallFrame \union {Screen},
         NEW vids, VidsIn(vids, DOMAIN M.dir), Seen(M, V, vids), NEW t \in Tasks,
         NEW N, N = UnmapOf(M, t, vids)
  PROVE  /\ Fields(N) /\ N.phys = M.phys /\ N.dir = M.dir /\ DOMAIN N.table = DOMAIN M.table
         /\ N.content = M.content /\ N.panic = M.panic /\ Shape(N.dir, N.table)
         /\ \A d \in DOMAIN M.dir : \A a \in Cells :
              IF <<t, d, a>> \in vids THEN Maps(M)[d][a] = V /\ Maps(N)[d][a] = NoFrame
              ELSE Maps(N)[d][a] = Maps(M)[d][a]
<1> DEFINE U == UnmapTable(M, t, vids)
           T == M.table
<1>1. Fields(M) /\ Shape(M.dir, T) /\ TablesOK(T)
  BY DEF Good, Shape
<1>2. DOMAIN U = DOMAIN T /\ \A f \in DOMAIN T : \A p \in Pages :
        U[f][p] = IF UnmapAt(M, t, vids, f, p) THEN Absent ELSE T[f][p]
  BY DEF UnmapTable
<1>3. U \in [DOMAIN T -> [Pages -> Entries]]
  <2>1. T \in [DOMAIN T -> [Pages -> Entries]] /\ Absent \in Entries
    BY <1>1, EntryFacts DEF TablesOK
  <2>2. \A f \in DOMAIN T : \A p \in Pages : T[f][p] \in Entries
    BY <2>1
  <2> QED BY <2>1, <2>2 DEF UnmapTable
<1>4. N = WithTable(M, U)
  BY DEF UnmapOf
<1> HIDE DEF U
<1>5. TablesOK(U)
  <2>1. \A f \in DOMAIN T : \A p \in Pages : ~U[f][p].large
    BY <1>1, <1>2, EntryFacts DEF TablesOK
  <2> QED BY <1>1, <1>2, <1>3, <2>1 DEF TablesOK
<1>6. /\ Fields(N) /\ N.phys = M.phys /\ N.dir = M.dir /\ N.table = U
      /\ N.content = M.content /\ N.panic = M.panic
  BY <1>1, <1>4, WithTableFacts
<1>7. /\ Shape(M.dir, U)
      /\ \A d \in DOMAIN M.dir : \A s \in UserSlots : \A p \in Pages :
           Flat(M.dir, U)[d][<<s, p>>] =
             IF IsTable(M.dir[d][s]) THEN U[M.dir[d][s].frame][p].frame ELSE Flat(M.dir, T)[d][<<s, p>>]
  <2> DEFINE E == M.dir
  <2>1. Shape(E, T)
    BY <1>1
  <2> HIDE DEF E, T
  <2>2. DOMAIN U = DOMAIN T
    BY <1>2
  <2> QED BY <1>5, <2>1, <2>2, TablesRewritten DEF E
<1>8. ASSUME NEW d \in DOMAIN M.dir, NEW s \in UserSlots, NEW p \in Pages, NEW a, a = <<s, p>>
      PROVE  IF <<t, d, a>> \in vids THEN Maps(M)[d][a] = V /\ Maps(N)[d][a] = NoFrame
             ELSE Maps(N)[d][a] = Maps(M)[d][a]
  <2> DEFINE g == M.dir[d][s].frame
  <2>1. a \in Cells
    BY <1>8, CellFacts
  <2>2. CASE IsTable(M.dir[d][s])
    <3>0. g = M.dir[d][s].frame /\ Shape(M.dir, M.table)
      BY <1>1
    <3>1. UnmapAt(M, t, vids, g, p) <=> <<t, d, a>> \in vids
      <4> HIDE DEF g, T
      <4> QED BY <1>8, <2>2, <3>0, AtFacts
    <3>2. g \in DOMAIN T
      BY <1>1, <2>2 DEF Shape, Placed
    <3>3. Maps(N)[d][a] = U[g][p].frame
      BY <1>6, <1>7, <1>8, <2>2 DEF Maps
    <3>4. Maps(M)[d][a] = T[g][p].frame
      <4>1. Maps(M)[d][a] = FrameAt(M.dir, T, d, s, p)
        BY <1>1, <1>8, FlatFacts DEF Maps
      <4> QED BY <2>2, <4>1 DEF FrameAt, IsTable
    <3>5. <<t, d, a>> \in vids => Maps(M)[d][a] = V
      BY <2>1 DEF Seen
    <3> HIDE DEF g
    <3> QED BY <1>2, <3>1, <3>2, <3>3, <3>4, <3>5, EntryFacts
  <2>3. CASE ~IsTable(M.dir[d][s])
    <3>1. Maps(M)[d][<<s, p>>] # V
      BY <1>1, <2>3, SeenInTable
    <3>2. <<t, d, a>> \notin vids
      BY <1>8, <2>1, <3>1 DEF Seen
    <3>3. Maps(N)[d][a] = Maps(M)[d][a]
      BY <1>6, <1>7, <1>8, <2>3 DEF Maps
    <3> QED BY <3>2, <3>3
  <2> QED BY <2>2, <2>3
<1>9. ASSUME NEW d \in DOMAIN M.dir, NEW a \in Cells
      PROVE  IF <<t, d, a>> \in vids THEN Maps(M)[d][a] = V /\ Maps(N)[d][a] = NoFrame
             ELSE Maps(N)[d][a] = Maps(M)[d][a]
  <2>1. a[1] \in UserSlots /\ a[2] \in Pages /\ a = <<a[1], a[2]>>
    BY CellFacts
  <2> QED BY <1>8, <2>1
<1>10. Shape(N.dir, N.table) /\ DOMAIN N.table = DOMAIN M.table
  BY <1>2, <1>6, <1>7
<1> QED BY <1>6, <1>9, <1>10

LEMMA ScreenGood ==
  ASSUME NEW M, Shape(M.dir, M.table), NEW N, Fields(N), Shape(N.dir, N.table),
         DOMAIN N.dir = DOMAIN M.dir, NEW Y, NEW V, NEW W, W \in Y \union {Screen},
         Counted(Maps(M), N.phys, Held(N, Y), V), Split(N.phys),
         DOMAIN N.dir \intersect DOMAIN N.table = {},
         Y \intersect (DOMAIN N.dir \union DOMAIN N.table) = {},
         N.content \in [Frames -> Values], Moves(M, N, V, W)
  PROVE  Good(N, Y, W)
<1> DEFINE w == Maps(M)
           u == Maps(N)
           O == Held(N, Y)
<1>1. /\ DOMAIN w = DOMAIN M.dir /\ DOMAIN u = DOMAIN M.dir
      /\ u \in [DOMAIN M.dir -> Rows]
  BY FlatFacts DEF Maps
<1>2. W \in O \union {Screen}
  BY DEF Held
<1>3. \A d \in DOMAIN w : \A a \in Cells :
        \/ u[d][a] = w[d][a] /\ w[d][a] # V
        \/ w[d][a] \in {NoFrame, V} /\ u[d][a] \in {NoFrame, W}
  BY <1>1 DEF Moves
<1>5. DOMAIN u = DOMAIN w /\ u \in [DOMAIN w -> Rows]
  BY <1>1
<1>6. Counted(u, N.phys, O, W)
  <2>1. Counted(w, N.phys, O, V)
    OBVIOUS
  <2> HIDE DEF w, u, O
  <2> QED BY <1>2, <1>3, <1>5, <2>1, ScreenMoved
<1> QED BY <1>6 DEF Good

LEMMA FewerVids ==
  ASSUME NEW S, IsFiniteSet(S), Cardinality(S) <= MaxVidmaps, NEW R, R \subseteq S
  PROVE  IsFiniteSet(R) /\ Cardinality(R) <= MaxVidmaps
<1>1. IsFiniteSet(R) /\ Cardinality(R) <= Cardinality(S)
  BY FS_Subset
<1>2. Cardinality(R) \in Nat /\ Cardinality(S) \in Nat
  BY <1>1, FS_CardinalityType
<1> QED BY <1>1, <1>2, MemoryAssumption

LEMMA UnmapSound ==
  ASSUME NEW M, NEW m, NEW s, NEW vids, NEW V, NEW H, NEW sub, NEW act, NEW prog, NEW b,
         Sound(M, m, s, vids, V, H, sub, act, prog, b), M.panic = "no",
         NEW t \in Tasks, NEW N, N = UnmapOf(M, t, vids), NEW vids2, vids2 = VidsLess(vids, t)
  PROVE  Sound(N, m, s, vids2, V, H, sub, act, prog, b) /\ N.panic = "no"
<1> DEFINE X == KeptOf(H, V)
           D == DOMAIN M.dir
<1>1. /\ VidOK(Maps(M), V, vids, m, sub, act) /\ TaskOK(m, s, sub, act)
      /\ Good(M, X, V) /\ Shape(M.dir, M.table) /\ DOMAIN Maps(M) = D
      /\ TaskTypes(D, m, s, vids, V, H, sub, act, prog, b)
      /\ V \notin H /\ V \in SmallFrame \union {Screen}
  BY Before
<1>2. VidsIn(vids, D)
  <2>1. ASSUME NEW x \in vids
        PROVE  x[1] \in Tasks /\ x[2] \in D /\ x[3] \in Cells /\ x = <<x[1], x[2], x[3]>>
    BY <1>1, VidTypes
  <2> QED BY <2>1 DEF VidsIn
<1>3. Seen(M, V, vids)
  BY <1>1 DEF Seen, VidOK
<1>4. /\ Fields(N) /\ N.phys = M.phys /\ N.dir = M.dir /\ DOMAIN N.table = DOMAIN M.table
      /\ N.content = M.content /\ N.panic = M.panic /\ Shape(N.dir, N.table)
      /\ \A d \in D : \A a \in Cells :
           IF <<t, d, a>> \in vids THEN Maps(M)[d][a] = V /\ Maps(N)[d][a] = NoFrame
           ELSE Maps(N)[d][a] = Maps(M)[d][a]
  <2> HIDE DEF X
  <2> QED BY <1>1, <1>2, <1>3, UnmapMaps
<1>5. \A x \in vids : x \in vids2 <=> x[1] # t
  BY DEF VidsLess
<1>6. vids2 \subseteq vids
  BY DEF VidsLess
<1>7. Moves(M, N, V, V)
  BY <1>4 DEF Moves
<1>8. NoFrame # V
  BY <1>1, NumberFacts DEF Screen, NoFrame
<1>9. \A d \in D : \A a \in Cells : Maps(N)[d][a] = V => Maps(M)[d][a] = V
  BY <1>4, <1>8
<1>11. Good(N, X, V)
  <2>1. Held(N, X) = Held(M, X)
    BY <1>4 DEF Held
  <2>2. Counted(Maps(M), N.phys, Held(N, X), V) /\ Split(N.phys)
    BY <1>1, <1>4, <2>1 DEF Good
  <2>3. /\ V \in X \union {Screen} /\ DOMAIN N.dir \intersect DOMAIN N.table = {}
        /\ X \intersect (DOMAIN N.dir \union DOMAIN N.table) = {}
        /\ N.content \in [Frames -> Values] /\ DOMAIN N.dir = DOMAIN M.dir
    BY <1>1, <1>4 DEF Good
  <2> HIDE DEF X
  <2> QED BY <1>1, <1>4, <1>7, <2>2, <2>3, ScreenGood
<1>12. SameLarge(M, N)
  BY <1>4 DEF SameLarge, LargeIn
<1>13. VidOK(Maps(N), V, vids2, m, sub, act)
  <2>1. ASSUME NEW d \in D, NEW a \in Cells, Maps(N)[d][a] = V
        PROVE  \E u \in Tasks : <<u, d, a>> \in vids2
    <3>1. PICK u \in Tasks : <<u, d, a>> \in vids
      BY <1>3, <1>9, <2>1 DEF Seen
    <3>2. u # t
      BY <1>4, <1>8, <2>1, <3>1
    <3> DEFINE x == <<u, d, a>>
    <3>3. x \in vids /\ x[1] # t
      BY <3>1, <3>2
    <3> HIDE DEF x
    <3>4. x \in vids2
      BY <1>5, <3>3
    <3> QED BY <3>4 DEF x
  <2>2. ASSUME NEW d \in D, NEW a \in Cells, NEW u \in Tasks, <<u, d, a>> \in vids2
        PROVE  Maps(N)[d][a] = V
    <3>1. <<u, d, a>> \in vids
      BY <1>6, <2>2
    <3>2. Maps(M)[d][a] = V
      BY <1>3, <3>1 DEF Seen
    <3>3. u # t
      <4> DEFINE x == <<u, d, a>>
      <4>1. x \in vids2 /\ x[1] = u
        BY <2>2
      <4> HIDE DEF x
      <4> QED BY <1>5, <1>6, <4>1
    <3>4. <<t, d, a>> \notin vids
      <4> SUFFICES ASSUME <<t, d, a>> \in vids
                   PROVE  FALSE
        OBVIOUS
      <4> DEFINE x == <<u, d, a>>
                 y == <<t, d, a>>
      <4>1. x \in vids /\ x[1] = u /\ x[2] = d /\ y \in vids /\ y[1] = t /\ y[2] = d
        BY <3>1
      <4> HIDE DEF x, y
      <4>2. m[u] = d /\ m[t] = d /\ sub[t] = "ECE391"
        BY <1>1, <4>1 DEF VidOK
      <4>3. d # NoFrame
        <5>1. Good(M, X, V)
          BY <1>1
        <5> HIDE DEF X
        <5> QED BY <5>1, DirFrames
      <4>4. sub[t] = "LINUX"
        BY <1>1, <3>3, <4>2, <4>3 DEF TaskOK
      <4> QED BY <4>2, <4>4
    <3> QED BY <1>4, <3>2, <3>4
  <2>3. DOMAIN Maps(N) = D
    BY <1>4, FlatFacts DEF Maps
  <2>4. \A x \in vids2 : m[x[1]] = x[2] /\ sub[x[1]] = "ECE391" /\ act[x[1]] \in {User, Doomed}
    BY <1>1, <1>6 DEF VidOK
  <2>5. IsFiniteSet(vids2) /\ Cardinality(vids2) <= MaxVidmaps
    <3>1. IsFiniteSet(vids) /\ Cardinality(vids) <= MaxVidmaps
      BY <1>1 DEF VidOK
    <3> QED BY <1>6, <3>1, FewerVids
  <2>6. \A d \in D : \A a \in Cells : Maps(N)[d][a] = V <=> \E u \in Tasks : <<u, d, a>> \in vids2
    BY <2>1, <2>2, Zenon
  <2> QED BY <2>3, <2>4, <2>5, <2>6, Zenon DEF VidOK
<1>14. TaskTypes(DOMAIN N.dir, m, s, vids2, V, H, sub, act, prog, b)
  <2>1. \A x \in vids2 : x \in Tasks \X D \X Cells
    BY <1>1, <1>6 DEF TaskTypes
  <2> QED BY <1>1, <1>4, <2>1 DEF TaskTypes
<1>15. Whole(N, m, s, vids2, V, H, sub, act, prog)
  BY <1>1, <1>7, <1>11, <1>12, <1>13, ScreenWhole
<1>16. N.panic = "no"
  BY <1>4
<1> QED BY <1>14, <1>15, <1>16, SoundWhole

\* What the tasks do when t exits.
ExitActs(act, t) == [u \in Tasks |-> IF u = t \/ act[u] = Wait(t) THEN User ELSE act[u]]

LEMMA ExitActsFacts ==
  ASSUME NEW sub, NEW act, NEW prog, NEW b, DoTypes(sub, act, prog, b), NEW t \in Tasks,
         NEW act2, act2 = ExitActs(act, t), NEW sub2, sub2 = Moved(sub, t, "LINUX")
  PROVE  /\ DoTypes(sub2, act2, prog, b) /\ act2[t] = User
         /\ \A u \in Tasks : u # t => act2[u] = act[u] \/ act2[u] = User
         /\ \A u \in Tasks : u # t => sub2[u] = sub[u]
<1>1. /\ \A u \in Tasks : act2[u] = act[u] \/ act2[u] = User
      /\ act2[t] = User /\ act2 = [u \in Tasks |-> act2[u]]
  BY DEF ExitActs
<1>2. sub \in [Tasks -> Subsystems] /\ "LINUX" \in Subsystems
  BY DEF DoTypes, Subsystems
<1>3. sub2 \in [Tasks -> Subsystems] /\ \A u \in Tasks : u # t => sub2[u] = sub[u]
  BY <1>2 DEF Moved
<1>4. \A u \in Tasks : ActOK(act2[u], prog[u])
  <2> TAKE u \in Tasks
  <2>1. CASE act2[u] = User
    BY <2>1 DEF ActOK
  <2>2. CASE act2[u] = act[u]
    BY <2>2 DEF DoTypes
  <2> QED BY <1>1, <2>1, <2>2
<1>5. DoTypes(sub2, act2, prog, b)
  BY <1>1, <1>3, <1>4 DEF DoTypes
<1> QED BY <1>1, <1>3, <1>5

LEMMA ExitKeeps ==
  ASSUME MemoryInv, NEW t \in Tasks, Exit(t)
  PROVE  MemoryInv'
<1> DEFINE U == UnmapOf(Now, t, vidmaps)
           N == PutOf(U, mm, mms, t)
           vids2 == VidsLess(vidmaps, t)
           act2 == ExitActs(doing, t)
           sub2 == Moved(subsystem, t, "LINUX")
           m2 == Moved(mm, t, NoFrame)
           r == LessOf(mm, mms, t)
<1>1. panic = "no" /\ mm[t] # NoFrame
  BY DEF Exit, Lives
<1>2. UnmapVideo(Now, t) = U
  BY Zenon DEF UnmapVideo, UnmapOf, WithTable, UnmapTable, UnmapAt
<1>3. Becomes(N)
  BY <1>2 DEF Exit, PutMm, PutOf
<1>4. mm' = m2 /\ vidmaps' = vids2 /\ doing' = act2 /\ subsystem' = sub2
  BY DEF Exit, Moved, VidsLess, ExitActs
<1>5. mms' = r
  BY Zenon DEF Exit, LessOf, MmsLess, Leave
<1>6. video' = video /\ heap' = heap /\ program' = program /\ births' = births
  BY DEF Exit
<1>7. Now.panic = "no"
  BY <1>1, NowFacts
<1>8. Sound(Now, mm, mms, vidmaps, video, heap, subsystem, doing, program, births)
  BY DEF MemoryInv
<1>9. TaskTypes(DOMAIN Now.dir, mm, mms, vidmaps, video, heap, subsystem, doing, program, births)
  BY <1>7, <1>8, Before
<1>10. DoTypes(subsystem, doing, program, births)
  BY <1>9, DoTypesFacts
<1>11. \A x \in vids2 : x[1] # t
  BY DEF VidsLess
<1>12. /\ U = UnmapOf(Now, t, vidmaps) /\ N = PutOf(U, mm, mms, t) /\ vids2 = VidsLess(vidmaps, t)
       /\ act2 = ExitActs(doing, t) /\ sub2 = Moved(subsystem, t, "LINUX")
       /\ m2 = Moved(mm, t, NoFrame) /\ r = LessOf(mm, mms, t)
  OBVIOUS
<1> HIDE DEF U, N, vids2, act2, sub2, m2, r
<1>13. Sound(U, mm, mms, vids2, video, heap, subsystem, doing, program, births) /\ U.panic = "no"
  BY <1>7, <1>8, <1>12, UnmapSound
<1>14. /\ DoTypes(sub2, act2, program, births) /\ act2[t] = User
       /\ \A u \in Tasks : u # t => act2[u] = doing[u] \/ act2[u] = User
       /\ \A u \in Tasks : u # t => sub2[u] = subsystem[u]
  BY <1>10, <1>12, ExitActsFacts
<1>15. Sound(N, m2, r, vids2, video, heap, sub2, act2, program, births) /\ Fields(N)
  BY <1>1, <1>11, <1>12, <1>13, <1>14, LeaveSound
<1>16. Now' = N
  BY <1>3, <1>15, BecomesFacts
<1> QED BY <1>4, <1>5, <1>6, <1>15, <1>16 DEF MemoryInv

\* Frame f is at address a of directory d, and everything else is as it was.
Framed(M, N, d, a, f) ==
  \A c \in DOMAIN M.dir : \A b \in Cells :
    Maps(N)[c][b] = IF c = d /\ b = a THEN f ELSE Maps(M)[c][b]

\* One page of a table is written.
LEMMA PageWritten ==
  ASSUME NEW M, Fields(M), Shape(M.dir, M.table), NEW d \in DOMAIN M.dir, NEW s \in UserSlots,
         NEW p \in Pages, IsTable(M.dir[d][s]), NEW a, a = <<s, p>>,
         NEW e \in Entries, ~e.large, NEW N, N = SetEntry(M, d, a, e)
  PROVE  /\ Fields(N) /\ N.phys = M.phys /\ N.dir = M.dir /\ DOMAIN N.table = DOMAIN M.table
         /\ N.content = M.content /\ N.panic = M.panic /\ Shape(N.dir, N.table)
         /\ Framed(M, N, d, a, e.frame)
<1> DEFINE T == M.table
           g == M.dir[d][s].frame
           U == [T EXCEPT ![g] = [T[g] EXCEPT ![p] = e]]
<1>1. TablesOK(T) /\ g \in DOMAIN T
  BY DEF Shape, Placed
<1>2. /\ DOMAIN U = DOMAIN T /\ U[g][p] = e
      /\ \A f \in DOMAIN T : \A q \in Pages : f # g \/ q # p => U[f][q] = T[f][q]
  BY <1>1, Zenon DEF TablesOK
<1>3. U \in [DOMAIN T -> [Pages -> Entries]]
  <2>1. T \in [DOMAIN T -> [Pages -> Entries]]
    BY <1>1 DEF TablesOK
  <2>2. T[g] \in [Pages -> Entries]
    BY <1>1, <2>1
  <2>3. [T[g] EXCEPT ![p] = e] \in [Pages -> Entries]
    BY <2>2
  <2> QED BY <2>1, <2>3
<1>4. N = WithTable(M, U)
  <2>1. a[1] = s /\ a[2] = p
    OBVIOUS
  <2>2. ~(M.dir[d][a[1]].frame = NoFrame \/ M.dir[d][a[1]].large)
    BY <2>1 DEF IsTable
  <2>3. N = [M EXCEPT !.table[M.dir[d][a[1]].frame][a[2]] = e]
    BY <2>2, Zenon DEF SetEntry
  <2>4. N = [M EXCEPT !.table[g][p] = e]
    BY <2>1, <2>3, Zenon
  <2> HIDE DEF g
  <2> QED BY <2>4 DEF WithTable
<1> HIDE DEF U, g
<1>5. TablesOK(U)
  <2>1. \A f \in DOMAIN T : \A q \in Pages : ~U[f][q].large
    BY <1>1, <1>2 DEF TablesOK
  <2> QED BY <1>1, <1>2, <1>3, <2>1 DEF TablesOK
<1>6. /\ Fields(N) /\ N.phys = M.phys /\ N.dir = M.dir /\ N.table = U
      /\ N.content = M.content /\ N.panic = M.panic
  BY <1>4, WithTableFacts
<1>7. /\ Shape(M.dir, U)
      /\ \A c \in DOMAIN M.dir : \A r \in UserSlots : \A q \in Pages :
           Flat(M.dir, U)[c][<<r, q>>] =
             IF IsTable(M.dir[c][r]) THEN U[M.dir[c][r].frame][q].frame ELSE Flat(M.dir, T)[c][<<r, q>>]
  <2> DEFINE E == M.dir
  <2>1. Shape(E, T)
    OBVIOUS
  <2> HIDE DEF E, T
  <2>2. DOMAIN U = DOMAIN T
    BY <1>2
  <2> QED BY <1>5, <2>1, <2>2, TablesRewritten DEF E
<1>8. ASSUME NEW c \in DOMAIN M.dir, NEW r \in UserSlots, NEW q \in Pages, NEW b, b = <<r, q>>
      PROVE  Maps(N)[c][b] = IF c = d /\ b = a THEN e.frame ELSE Maps(M)[c][b]
  <2>1. b = a <=> r = s /\ q = p
    BY <1>8
  <2>2. CASE IsTable(M.dir[c][r])
    <3> DEFINE h == M.dir[c][r].frame
    <3>1. h = g <=> c = d /\ r = s
      BY PlaceOf DEF g
    <3>2. h \in DOMAIN T
      BY <2>2 DEF Shape, Placed
    <3>3. Maps(N)[c][b] = U[h][q].frame
      BY <1>6, <1>7, <1>8, <2>2 DEF Maps
    <3>4. Maps(M)[c][b] = T[h][q].frame
      <4>1. Maps(M)[c][b] = FrameAt(M.dir, T, c, r, q)
        BY <1>8, FlatFacts DEF Maps
      <4> QED BY <2>2, <4>1 DEF FrameAt, IsTable
    <3> HIDE DEF h
    <3> QED BY <1>2, <2>1, <3>1, <3>2, <3>3, <3>4
  <2>3. CASE ~IsTable(M.dir[c][r])
    <3>1. Maps(N)[c][b] = Maps(M)[c][b]
      BY <1>6, <1>7, <1>8, <2>3 DEF Maps
    <3>2. ~(c = d /\ b = a)
      BY <2>1, <2>3
    <3> QED BY <3>1, <3>2
  <2> QED BY <2>2, <2>3
<1>9. ASSUME NEW c \in DOMAIN M.dir, NEW b \in Cells
      PROVE  Maps(N)[c][b] = IF c = d /\ b = a THEN e.frame ELSE Maps(M)[c][b]
  <2>1. b[1] \in UserSlots /\ b[2] \in Pages /\ b = <<b[1], b[2]>>
    BY CellFacts
  <2> QED BY <1>8, <2>1
<1>10. Shape(N.dir, N.table) /\ DOMAIN N.table = DOMAIN M.table
  BY <1>2, <1>6, <1>7
<1>11. Framed(M, N, d, a, e.frame)
  BY <1>9 DEF Framed
<1> QED BY <1>6, <1>10, <1>11

VidsMore(vids, x) == vids \union {x}

\* The entry of a vidmap.
VidEntry(f) == [Absent EXCEPT !.frame = f, !.rw = TRUE]

LEMMA VidEntryFacts ==
  ASSUME NEW f \in Frames
  PROVE  VidEntry(f) \in Entries /\ VidEntry(f).frame = f /\ ~VidEntry(f).large
BY DEF VidEntry, Absent, Entries

\* A task gets a vidmap, where a table has a page that is absent.
LEMMA VidmapSound ==
  ASSUME NEW M, NEW m, NEW s, NEW vids, NEW V, NEW H, NEW sub, NEW act, NEW prog, NEW b,
         Sound(M, m, s, vids, V, H, sub, act, prog, b), M.panic = "no",
         NEW t \in Tasks, m[t] # NoFrame, sub[t] = "ECE391", act[t] = User,
         Cardinality(vids) < MaxVidmaps, NEW r \in UserSlots, NEW p \in Pages, NEW a, a = <<r, p>>, IsTable(M.dir[m[t]][r]),
         Entry(M, m[t], a).frame = NoFrame,
         NEW N, N = SetEntry(M, m[t], a, VidEntry(V)), NEW x, x = <<t, m[t], a>>,
         NEW vids2, vids2 = VidsMore(vids, x)
  PROVE  Sound(N, m, s, vids2, V, H, sub, act, prog, b) /\ Fields(N)
<1> DEFINE X == KeptOf(H, V)
           D == DOMAIN M.dir
           d == m[t]
           e == VidEntry(V)
<1>1. /\ VidOK(Maps(M), V, vids, m, sub, act) /\ TaskOK(m, s, sub, act)
      /\ Good(M, X, V) /\ Shape(M.dir, M.table) /\ DOMAIN Maps(M) = D
      /\ TaskTypes(D, m, s, vids, V, H, sub, act, prog, b) /\ Fields(M)
      /\ V \notin H /\ V \in SmallFrame \union {Screen}
  BY Before
<1>2. d \in D /\ d \in DOMAIN Maps(M)
  BY BeforeTask
<1>3. V \in Frames /\ V # NoFrame
  <2>1. V \in Frames
    BY <1>1 DEF TaskTypes
  <2> QED BY <2>1, NumberFacts
<1>4. e \in Entries /\ e.frame = V /\ ~e.large
  BY <1>3, VidEntryFacts
<1>5. /\ Fields(N) /\ N.phys = M.phys /\ N.dir = M.dir /\ DOMAIN N.table = DOMAIN M.table
      /\ N.content = M.content /\ N.panic = M.panic /\ Shape(N.dir, N.table)
      /\ \A c \in D : \A k \in Cells :
           Maps(N)[c][k] = IF c = d /\ k = a THEN e.frame ELSE Maps(M)[c][k]
  <2>1. N = SetEntry(M, d, a, e) /\ IsTable(M.dir[d][r])
    OBVIOUS
  <2>2. Fields(M) /\ Shape(M.dir, M.table)
    BY <1>1
  <2> HIDE DEF e, d, X
  <2>3. /\ Fields(N) /\ N.phys = M.phys /\ N.dir = M.dir /\ DOMAIN N.table = DOMAIN M.table
        /\ N.content = M.content /\ N.panic = M.panic /\ Shape(N.dir, N.table)
        /\ Framed(M, N, d, a, e.frame)
    BY <1>2, <1>4, <2>1, <2>2, PageWritten
  <2>4. \A c \in D : \A k \in Cells :
          Maps(N)[c][k] = IF c = d /\ k = a THEN e.frame ELSE Maps(M)[c][k]
    BY <2>3, Zenon DEF Framed
  <2> QED BY <2>3, <2>4
<1>7. a \in Cells
  BY CellFacts
<1>8. Maps(M)[d][a] = NoFrame
  <2>1. a \in Mapped(M, d) <=> Maps(M)[d][a] # NoFrame
    BY <1>1, <1>2, <1>7, MappedFacts
  <2>2. a \notin Mapped(M, d)
    BY DEF Mapped
  <2> QED BY <2>1, <2>2
<1> HIDE DEF d, e
<1>9. /\ \A c \in D : \A k \in Cells : Maps(N)[c][k] = V <=> (c = d /\ k = a) \/ Maps(M)[c][k] = V
      /\ Moves(M, N, V, V)
  BY <1>4, <1>5, <1>8 DEF Moves
<1>11. Good(N, X, V)
  <2>1. Held(N, X) = Held(M, X)
    BY <1>5 DEF Held
  <2>2. Counted(Maps(M), N.phys, Held(N, X), V) /\ Split(N.phys)
    BY <1>1, <1>5, <2>1 DEF Good
  <2>3. /\ V \in X \union {Screen} /\ DOMAIN N.dir \intersect DOMAIN N.table = {}
        /\ X \intersect (DOMAIN N.dir \union DOMAIN N.table) = {}
        /\ N.content \in [Frames -> Values] /\ DOMAIN N.dir = DOMAIN M.dir
    BY <1>1, <1>5 DEF Good
  <2> HIDE DEF X
  <2> QED BY <1>1, <1>5, <1>9, <2>2, <2>3, ScreenGood
<1>12. SameLarge(M, N)
  BY <1>5 DEF SameLarge, LargeIn
<1>13. x[1] = t /\ x[2] = d /\ x[3] = a /\ \A y : y \in vids2 <=> y \in vids \/ y = x
  BY DEF VidsMore, d
<1>14. VidOK(Maps(N), V, vids2, m, sub, act)
  <2>1. ASSUME NEW c \in D, NEW k \in Cells
        PROVE  Maps(N)[c][k] = V <=> \E u \in Tasks : <<u, c, k>> \in vids2
    <3>1. Maps(M)[c][k] = V <=> \E u \in Tasks : <<u, c, k>> \in vids
      BY <1>1 DEF VidOK
    <3>2. \A u \in Tasks : <<u, c, k>> = x <=> u = t /\ c = d /\ k = a
      BY DEF d
    <3>3. (\E u \in Tasks : <<u, c, k>> = x) <=> c = d /\ k = a
      BY <3>2
    <3>4. (\E u \in Tasks : <<u, c, k>> \in vids2)
            <=> (\E u \in Tasks : <<u, c, k>> \in vids) \/ (\E u \in Tasks : <<u, c, k>> = x)
      BY <1>13
    <3> QED BY <1>9, <3>1, <3>3, <3>4
  <2>2. DOMAIN Maps(N) = D
    BY <1>5, FlatFacts DEF Maps
  <2>3. \A y \in vids2 : m[y[1]] = y[2] /\ sub[y[1]] = "ECE391" /\ act[y[1]] \in {User, Doomed}
    <3>1. \A y \in vids : m[y[1]] = y[2] /\ sub[y[1]] = "ECE391" /\ act[y[1]] \in {User, Doomed}
      BY <1>1 DEF VidOK
    <3> QED BY <1>13, <3>1 DEF d
  <2>4. IsFiniteSet(vids2) /\ Cardinality(vids2) <= MaxVidmaps
    <3>1. IsFiniteSet(vids)
      BY <1>1 DEF VidOK
    <3>2. IsFiniteSet(vids2) /\ Cardinality(vids2) <= Cardinality(vids) + 1
      <4> HIDE DEF d
      <4>1. /\ IsFiniteSet(vids \union {x})
            /\ Cardinality(vids \union {x}) = Cardinality(vids) \/ Cardinality(vids \union {x}) = Cardinality(vids) + 1
        BY <3>1, FS_AddElement
      <4>2. Cardinality(vids) \in Nat
        BY <3>1, FS_CardinalityType
      <4> QED BY <4>1, <4>2 DEF VidsMore
    <3>3. Cardinality(vids) \in Nat /\ Cardinality(vids2) \in Nat
      BY <3>1, <3>2, FS_CardinalityType
    <3> QED BY <3>2, <3>3, MemoryAssumption
  <2> QED BY <2>1, <2>2, <2>3, <2>4 DEF VidOK
<1>15. TaskTypes(DOMAIN N.dir, m, s, vids2, V, H, sub, act, prog, b)
  <2>1. x \in Tasks \X D \X Cells
    BY <1>2, <1>7 DEF d
  <2>2. \A y \in vids : y \in Tasks \X D \X Cells
    BY <1>1 DEF TaskTypes
  <2>3. \A y \in vids2 : y \in Tasks \X D \X Cells
    BY <1>13, <2>1, <2>2
  <2> QED BY <1>1, <1>5, <2>3 DEF TaskTypes
<1>16. Whole(N, m, s, vids2, V, H, sub, act, prog)
  BY <1>1, <1>9, <1>11, <1>12, <1>14, ScreenWhole
<1>17. N.panic = "no"
  BY <1>5
<1> QED BY <1>5, <1>15, <1>16, <1>17, SoundWhole

LEMMA RoomedSound ==
  ASSUME NEW M, NEW m, NEW s, NEW vids, NEW V, NEW H, NEW sub, NEW act, NEW prog, NEW b,
         Sound(M, m, s, vids, V, H, sub, act, prog, b), M.panic = "no",
         NEW d, NEW K, Roomed(M, K, d, KeptOf(H, V), V)
  PROVE  Sound(K, m, s, vids, V, H, sub, act, prog, b) /\ K.panic = "no"
<1>1. /\ Whole(M, m, s, vids, V, H, sub, act, prog) /\ V \notin H
      /\ TaskTypes(DOMAIN M.dir, m, s, vids, V, H, sub, act, prog, b)
  BY Before
<1>2. /\ Good(K, KeptOf(H, V), V) /\ Maps(K) = Maps(M) /\ DOMAIN K.dir = DOMAIN M.dir
      /\ K.panic = "no" /\ \A c \in DOMAIN M.dir : LargeIn(K, c) = LargeIn(M, c)
  BY DEF Roomed, SameLarge
<1>3. /\ \A x \in vids : x[1] \in Tasks
      /\ \A u \in Tasks : m[u] # NoFrame => m[u] \in DOMAIN M.dir
  BY <1>1, VidTasks
<1>4. Whole(K, m, s, vids, V, H, sub, act, prog)
  BY <1>1, <1>2, <1>3, SameWhole
<1>5. TaskTypes(DOMAIN K.dir, m, s, vids, V, H, sub, act, prog, b)
  BY <1>1, <1>2
<1> QED BY <1>2, <1>4, <1>5, SoundWhole

\* The first page of a table that is absent.
FreePage(K, d, s) == Min({p \in Pages : Entry(K, d, <<s, p>>).frame = NoFrame})

LEMMA VidPlace ==
  ASSUME NEW M, NEW X, NEW V, Good(M, X, V), NEW d \in DOMAIN M.dir,
         NEW K, Roomed(M, K, d, X, V), NEW r, r = Min(Room(K, d)), NEW p, p = FreePage(K, d, r)
  PROVE  /\ r \in UserSlots /\ p \in Pages /\ IsTable(K.dir[d][r])
         /\ Entry(K, d, <<r, p>>).frame = NoFrame
<1>1. Shape(M.dir, M.table) /\ Shape(K.dir, K.table)
  BY DEF Good, Roomed
<1>2. /\ Maps(K) = Maps(M) /\ DOMAIN K.dir = DOMAIN M.dir /\ LargeIn(K, d) = LargeIn(M, d)
      /\ Room(M, d) # {} /\ IsTable(K.dir[d][Min(Room(M, d))])
  BY DEF Roomed, SameLarge
<1>3. Room(M, d) = Room(K, d)
  BY <1>1, <1>2, RoomSame
<1>4. r \in Room(K, d) /\ IsTable(K.dir[d][r])
  BY <1>1, <1>2, <1>3, RoomFacts
<1> DEFINE S == {q \in Pages : Entry(K, d, <<r, q>>).frame = NoFrame}
<1>5. S # {}
  <2>1. PICK q \in 0 .. NumEntries - 2 : Entry(K, d, <<r, q>>).frame = NoFrame
    BY <1>4, Zenon DEF Room
  <2>2. q \in Pages
    BY NumberFacts DEF Pages
  <2> QED BY <2>1, <2>2
<1>6. S \in SUBSET Nat
  BY EntryFacts
<1>7. p = Min(S)
  BY DEF FreePage
<1>8. p \in S
  <2> HIDE DEF S
  <2> QED BY <1>5, <1>6, <1>7, MinFacts
<1>9. r \in UserSlots
  BY <1>4, Zenon DEF Room
<1> QED BY <1>4, <1>8, <1>9

LEMMA VidmapKeeps ==
  ASSUME MemoryInv, NEW t \in Tasks, Vidmap(t)
  PROVE  MemoryInv'
<1> DEFINE d == mm[t]
           K == TempSmall(Now, d)
           r == Min(Room(K, d))
           p == FreePage(K, d, r)
           a == <<r, p>>
           N == SetEntry(K, d, a, VidEntry(video))
           x == <<t, d, a>>
           vids2 == VidsMore(vidmaps, x)
           X == KeptOf(heap, video)
<1>1. /\ panic = "no" /\ mm[t] # NoFrame /\ doing[t] = User /\ subsystem[t] = "ECE391"
      /\ Cardinality(vidmaps) < MaxVidmaps
  BY DEF Vidmap, Ece391, InUserMode, Lives
<1>2. K.panic # "oom"
  BY DEF Vidmap
<1>3. K.panic = "no" => Becomes(N) /\ vidmaps' = vids2
  BY Zenon DEF Vidmap, FreePage, VidEntry, VidsMore
<1>4. /\ mm' = mm /\ mms' = mms /\ video' = video /\ heap' = heap /\ subsystem' = subsystem
      /\ doing' = doing /\ program' = program /\ births' = births
  BY DEF Vidmap
<1>5. Now.panic = "no"
  BY <1>1, NowFacts
<1>6. Sound(Now, mm, mms, vidmaps, video, heap, subsystem, doing, program, births)
  BY DEF MemoryInv
<1>7. Good(Now, KeptOf(heap, video), video) /\ Fields(Now)
  BY <1>5, <1>6, Before
<1>8. d \in DOMAIN Now.dir /\ Spared(Now, d)
  BY <1>1, <1>5, <1>6, BeforeTask
<1>9. /\ K = TempSmall(Now, mm[t]) /\ r = Min(Room(K, mm[t])) /\ p = FreePage(K, mm[t], r)
      /\ a = <<r, p>> /\ N = SetEntry(K, mm[t], a, VidEntry(video)) /\ x = <<t, mm[t], a>>
      /\ vids2 = VidsMore(vidmaps, x) /\ d = mm[t] /\ X = KeptOf(heap, video)
  OBVIOUS
<1> HIDE DEF d, K, r, p, a, N, x, vids2, X
<1>10. Roomed(Now, K, d, X, video)
  <2>1. K = Panics(Now, "oom") \/ Roomed(Now, K, d, X, video)
    BY <1>7, <1>8, <1>9, TempSmallFacts
  <2>2. K # Panics(Now, "oom")
    BY <1>2, <1>5, <1>7, PanicsFacts
  <2> QED BY <2>1, <2>2
<1>11. Sound(K, mm, mms, vidmaps, video, heap, subsystem, doing, program, births) /\ K.panic = "no"
  BY <1>5, <1>6, <1>9, <1>10, RoomedSound
<1>12. /\ r \in UserSlots /\ p \in Pages /\ IsTable(K.dir[d][r])
       /\ Entry(K, d, <<r, p>>).frame = NoFrame
  BY <1>7, <1>8, <1>9, <1>10, VidPlace
<1>13. Sound(N, mm, mms, vids2, video, heap, subsystem, doing, program, births) /\ Fields(N)
  BY <1>1, <1>9, <1>11, <1>12, VidmapSound
<1>14. Now' = N
  BY <1>3, <1>11, <1>13, BecomesFacts
<1> QED BY <1>3, <1>4, <1>11, <1>13, <1>14 DEF MemoryInv

\* Frame f is put where the vidmaps are.
Reframed(e, f) == [e EXCEPT !.frame = f]
RemapTable(M, vids, f) ==
  [g \in DOMAIN M.table |-> [p \in Pages |->
     IF RemapAt(M, vids, g, p) THEN Reframed(M.table[g][p], f) ELSE M.table[g][p]]]
RemapOf(M, vids, f) == WithTable(M, RemapTable(M, vids, f))

LEMMA ReframedFacts ==
  ASSUME NEW e \in Entries, NEW f \in Frames
  PROVE  /\ Reframed(e, f) \in Entries /\ Reframed(e, f).frame = f
         /\ Reframed(e, f).large = e.large
BY DEF Reframed, Entries

LEMMA RemapMaps ==
  ASSUME NEW M, Fields(M), Shape(M.dir, M.table), NEW V, V \in SmallFrame \union {Screen},
         NEW vids, VidsIn(vids, DOMAIN M.dir), Seen(M, V, vids), NEW f \in Frames,
         NEW N, N = RemapOf(M, vids, f)
  PROVE  /\ Fields(N) /\ N.phys = M.phys /\ N.dir = M.dir /\ DOMAIN N.table = DOMAIN M.table
         /\ N.content = M.content /\ N.panic = M.panic /\ Shape(N.dir, N.table)
         /\ \A d \in DOMAIN M.dir : \A a \in Cells :
              IF Maps(M)[d][a] = V THEN Maps(N)[d][a] = f ELSE Maps(N)[d][a] = Maps(M)[d][a]
<1> DEFINE U == RemapTable(M, vids, f)
           T == M.table
<1>1. TablesOK(T)
  BY DEF Shape
<1>2. DOMAIN U = DOMAIN T /\ \A g \in DOMAIN T : \A p \in Pages :
        U[g][p] = IF RemapAt(M, vids, g, p) THEN Reframed(T[g][p], f) ELSE T[g][p]
  BY DEF RemapTable
<1>3. \A g \in DOMAIN T : \A p \in Pages : T[g][p] \in Entries /\ ~T[g][p].large
  <2>1. T \in [DOMAIN T -> [Pages -> Entries]]
    BY <1>1 DEF TablesOK
  <2> QED BY <1>1, <2>1 DEF TablesOK
<1>4. \A g \in DOMAIN T : \A p \in Pages : U[g][p] \in Entries /\ ~U[g][p].large
  <2> HIDE DEF U, T
  <2> QED BY <1>2, <1>3, ReframedFacts
<1>5. U \in [DOMAIN T -> [Pages -> Entries]]
  BY <1>2, <1>4 DEF RemapTable
<1>6. N = WithTable(M, U)
  BY DEF RemapOf
<1> HIDE DEF U
<1>7. TablesOK(U)
  BY <1>1, <1>2, <1>4, <1>5 DEF TablesOK
<1>8. /\ Fields(N) /\ N.phys = M.phys /\ N.dir = M.dir /\ N.table = U
      /\ N.content = M.content /\ N.panic = M.panic
  BY <1>6, WithTableFacts
<1>9. /\ Shape(M.dir, U)
      /\ \A d \in DOMAIN M.dir : \A s \in UserSlots : \A p \in Pages :
           Flat(M.dir, U)[d][<<s, p>>] =
             IF IsTable(M.dir[d][s]) THEN U[M.dir[d][s].frame][p].frame ELSE Flat(M.dir, T)[d][<<s, p>>]
  <2> DEFINE E == M.dir
  <2>1. Shape(E, T)
    OBVIOUS
  <2> HIDE DEF E, T
  <2>2. DOMAIN U = DOMAIN T
    BY <1>2
  <2> QED BY <1>7, <2>1, <2>2, TablesRewritten DEF E
<1>10. ASSUME NEW d \in DOMAIN M.dir, NEW s \in UserSlots, NEW p \in Pages, NEW a, a = <<s, p>>
       PROVE  IF Maps(M)[d][a] = V THEN Maps(N)[d][a] = f ELSE Maps(N)[d][a] = Maps(M)[d][a]
  <2> DEFINE g == M.dir[d][s].frame
  <2>1. a \in Cells
    BY <1>10, CellFacts
  <2>2. CASE IsTable(M.dir[d][s])
    <3>0. g = M.dir[d][s].frame /\ Shape(M.dir, M.table)
      OBVIOUS
    <3>1. RemapAt(M, vids, g, p) <=> Shown(vids, d, a)
      <4> HIDE DEF g, T
      <4> QED BY <1>10, <2>2, <3>0, AtFacts
    <3>2. g \in DOMAIN T
      BY <2>2 DEF Shape, Placed
    <3>3. Maps(N)[d][a] = U[g][p].frame
      BY <1>8, <1>9, <1>10, <2>2, Zenon DEF Maps
    <3>4. Maps(M)[d][a] = T[g][p].frame
      <4>1. Maps(M)[d][a] = FrameAt(M.dir, T, d, s, p)
        BY <1>10, FlatFacts DEF Maps
      <4> QED BY <2>2, <4>1 DEF FrameAt, IsTable
    <3>5. RemapAt(M, vids, g, p) <=> Maps(M)[d][a] = V
      BY <2>1, <3>1 DEF Seen, Shown
    <3>6. T[g][p] \in Entries
      BY <1>3, <3>2
    <3>7. U[g][p] = IF RemapAt(M, vids, g, p) THEN Reframed(T[g][p], f) ELSE T[g][p]
      BY <1>2, <3>2
    <3>8. Reframed(T[g][p], f).frame = f
      BY <3>6, ReframedFacts
    <3> HIDE DEF g, T
    <3>9. CASE Maps(M)[d][a] = V
      BY <3>3, <3>5, <3>7, <3>8, <3>9
    <3>10. CASE Maps(M)[d][a] # V
      BY <3>3, <3>4, <3>5, <3>7, <3>10
    <3> QED BY <3>9, <3>10
  <2>3. CASE ~IsTable(M.dir[d][s])
    <3>1. Maps(M)[d][a] # V
      BY <1>10, <2>3, SeenInTable
    <3>2. Maps(N)[d][a] = Maps(M)[d][a]
      BY <1>8, <1>9, <1>10, <2>3 DEF Maps
    <3> QED BY <3>1, <3>2
  <2> QED BY <2>2, <2>3
<1>11. ASSUME NEW d \in DOMAIN M.dir, NEW a \in Cells
       PROVE  IF Maps(M)[d][a] = V THEN Maps(N)[d][a] = f ELSE Maps(N)[d][a] = Maps(M)[d][a]
  <2>1. a[1] \in UserSlots /\ a[2] \in Pages /\ a = <<a[1], a[2]>>
    BY CellFacts
  <2> QED BY <1>10, <2>1
<1>12. Shape(N.dir, N.table) /\ DOMAIN N.table = DOMAIN M.table
  BY <1>2, <1>8, <1>9
<1> QED BY <1>8, <1>11, <1>12

\* The screen goes to a frame that no directory maps, with the vidmaps.
LEMMA SwitchedSound ==
  ASSUME NEW M, NEW m, NEW s, NEW vids, NEW V, NEW H, NEW sub, NEW act, NEW prog, NEW b,
         Sound(M, m, s, vids, V, H, sub, act, prog, b), M.panic = "no",
         NEW N, NEW W, Good(N, KeptOf(H, W), W), W \notin H, W \in SmallFrame \union {Screen},
         W \in Frames, N.dir = M.dir, N.panic = "no",
         \A d \in DOMAIN M.dir : \A a \in Cells :
           IF Maps(M)[d][a] = V THEN Maps(N)[d][a] = W
           ELSE Maps(N)[d][a] = Maps(M)[d][a] /\ Maps(M)[d][a] # W
  PROVE  Sound(N, m, s, vids, W, H, sub, act, prog, b)
<1>1. /\ VidOK(Maps(M), V, vids, m, sub, act) /\ DOMAIN Maps(M) = DOMAIN M.dir
      /\ TaskTypes(DOMAIN M.dir, m, s, vids, V, H, sub, act, prog, b)
  BY Before
<1>2. DOMAIN Maps(N) = DOMAIN M.dir
  <2>1. Shape(N.dir, N.table)
    BY DEF Good
  <2> QED BY <2>1, FlatFacts DEF Maps
<1>3. Moves(M, N, V, W)
  BY DEF Moves
<1>4. SameLarge(M, N)
  BY DEF SameLarge, LargeIn
<1>5. \A d \in DOMAIN M.dir : \A a \in Cells : Maps(N)[d][a] = W <=> Maps(M)[d][a] = V
  OBVIOUS
<1>6. VidOK(Maps(N), W, vids, m, sub, act)
  <2>1. \A d \in DOMAIN M.dir : \A a \in Cells : Maps(M)[d][a] = V <=> \E t \in Tasks : <<t, d, a>> \in vids
    BY <1>1 DEF VidOK
  <2>2. \A d \in DOMAIN M.dir : \A a \in Cells : Maps(N)[d][a] = W <=> \E t \in Tasks : <<t, d, a>> \in vids
    BY <1>5, <2>1
  <2>3. /\ \A x \in vids : m[x[1]] = x[2] /\ sub[x[1]] = "ECE391" /\ act[x[1]] \in {User, Doomed}
        /\ IsFiniteSet(vids) /\ Cardinality(vids) <= MaxVidmaps
    BY <1>1 DEF VidOK
  <2> QED BY <1>2, <2>2, <2>3 DEF VidOK
<1>7. Whole(N, m, s, vids, W, H, sub, act, prog)
  BY <1>3, <1>4, <1>6, ScreenWhole
<1>8. TaskTypes(DOMAIN N.dir, m, s, vids, W, H, sub, act, prog, b)
  BY <1>1 DEF TaskTypes
<1> QED BY <1>7, <1>8, SoundWhole

\* The vidmaps before a step, in the form that RemapMaps asks for.
LEMMA VidsBefore ==
  ASSUME NEW M, NEW m, NEW s, NEW vids, NEW V, NEW H, NEW sub, NEW act, NEW prog, NEW b,
         Sound(M, m, s, vids, V, H, sub, act, prog, b), M.panic = "no"
  PROVE  VidsIn(vids, DOMAIN M.dir) /\ Seen(M, V, vids)
<1>1. /\ VidOK(Maps(M), V, vids, m, sub, act) /\ DOMAIN Maps(M) = DOMAIN M.dir
      /\ TaskTypes(DOMAIN M.dir, m, s, vids, V, H, sub, act, prog, b)
  BY Before
<1>2. ASSUME NEW x \in vids
      PROVE  x[1] \in Tasks /\ x[2] \in DOMAIN M.dir /\ x[3] \in Cells /\ x = <<x[1], x[2], x[3]>>
  BY <1>1, VidTypes
<1>3. Seen(M, V, vids)
  BY <1>1 DEF Seen, VidOK
<1> QED BY <1>2, <1>3 DEF VidsIn

\* The vidmaps are moved to a frame that no directory maps.
LEMMA RemapGood ==
  ASSUME NEW M, NEW X, NEW V, Good(M, X, V), V \in SmallFrame \union {Screen},
         NEW vids, VidsIn(vids, DOMAIN M.dir), Seen(M, V, vids),
         NEW W \in Frames, W \in X \union {Screen},
         \A d \in DOMAIN M.dir : \A a \in Cells : Maps(M)[d][a] # W,
         NEW N, N = RemapOf(M, vids, W)
  PROVE  /\ Good(N, X, W) /\ Fields(N) /\ N.phys = M.phys /\ N.dir = M.dir /\ N.content = M.content
         /\ N.panic = M.panic /\ DOMAIN N.table = DOMAIN M.table
         /\ \A d \in DOMAIN M.dir : \A a \in Cells :
              IF Maps(M)[d][a] = V THEN Maps(N)[d][a] = W
              ELSE Maps(N)[d][a] = Maps(M)[d][a] /\ Maps(M)[d][a] # W
<1>1. /\ Shape(M.dir, M.table) /\ Split(M.phys) /\ Counted(Maps(M), M.phys, Held(M, X), V)
      /\ DOMAIN M.dir \intersect DOMAIN M.table = {}
      /\ X \intersect (DOMAIN M.dir \union DOMAIN M.table) = {}
      /\ M.content \in [Frames -> Values] /\ Fields(M)
  BY DEF Good
<1>2. V # NoFrame
  BY NumberFacts DEF Screen, NoFrame
<1>3. /\ Fields(N) /\ N.phys = M.phys /\ N.dir = M.dir /\ DOMAIN N.table = DOMAIN M.table
      /\ N.content = M.content /\ N.panic = M.panic /\ Shape(N.dir, N.table)
      /\ \A d \in DOMAIN M.dir : \A a \in Cells :
           IF Maps(M)[d][a] = V THEN Maps(N)[d][a] = W ELSE Maps(N)[d][a] = Maps(M)[d][a]
  BY <1>1, RemapMaps
<1>4. Moves(M, N, V, W)
  BY <1>3 DEF Moves
<1>7. Good(N, X, W)
  <2>1. Held(N, X) = Held(M, X)
    BY <1>3 DEF Held
  <2>2. /\ Counted(Maps(M), N.phys, Held(N, X), V) /\ Split(N.phys)
        /\ DOMAIN N.dir = DOMAIN M.dir /\ DOMAIN N.dir \intersect DOMAIN N.table = {}
        /\ X \intersect (DOMAIN N.dir \union DOMAIN N.table) = {}
        /\ N.content \in [Frames -> Values]
    BY <1>1, <1>3, <2>1
  <2> QED BY <1>1, <1>3, <1>4, <2>2, ScreenGood
<1> QED BY <1>3, <1>7

\* The screen goes from V to W, a frame that the kernel has in K and that no
\* directory maps.
LEMMA SwitchTo ==
  ASSUME NEW M, NEW m, NEW s, NEW vids, NEW V, NEW H, NEW sub, NEW act, NEW prog, NEW b,
         Sound(M, m, s, vids, V, H, sub, act, prog, b), M.panic = "no",
         NEW W \in Frames, W \in SmallFrame \union {Screen}, W \notin H,
         \A d \in DOMAIN M.dir : \A a \in Cells : Maps(M)[d][a] # W,
         NEW K, K.dir = M.dir, Maps(K) = Maps(M), K.panic = "no",
         NEW Y, Y = KeptOf(H, W), Good(K, Y, V), NEW N, N = RemapOf(K, vids, W)
  PROVE  Sound(N, m, s, vids, W, H, sub, act, prog, b) /\ Fields(N)
<1>1. V \in SmallFrame \union {Screen}
  BY Before
<1>2. VidsIn(vids, DOMAIN K.dir)
  BY VidsBefore
<1>3. Seen(M, V, vids)
  BY VidsBefore
<1>4. Seen(K, V, vids)
  BY <1>3 DEF Seen
<1>5. W \in Y \union {Screen}
  BY DEF KeptOf
<1>6. \A d \in DOMAIN K.dir : \A a \in Cells : Maps(K)[d][a] # W
  OBVIOUS
<1>7. /\ Good(N, Y, W) /\ Fields(N) /\ N.dir = K.dir /\ N.panic = K.panic
      /\ \A d \in DOMAIN K.dir : \A a \in Cells :
           IF Maps(K)[d][a] = V THEN Maps(N)[d][a] = W
           ELSE Maps(N)[d][a] = Maps(K)[d][a] /\ Maps(K)[d][a] # W
  BY <1>1, <1>2, <1>4, <1>5, <1>6, RemapGood
<1>8. \A d \in DOMAIN M.dir : \A a \in Cells :
        IF Maps(M)[d][a] = V THEN Maps(N)[d][a] = W
        ELSE Maps(N)[d][a] = Maps(M)[d][a] /\ Maps(M)[d][a] # W
  BY <1>7
<1>9. Good(N, KeptOf(H, W), W) /\ N.dir = M.dir /\ N.panic = "no"
  BY <1>7
<1>10. Sound(N, m, s, vids, W, H, sub, act, prog, b)
  BY <1>8, <1>9, SwitchedSound
<1> QED BY <1>7, <1>10

\* The terminal goes to the background: its screen is saved in a frame W.
LEMMA SwitchOut ==
  ASSUME NEW M, NEW m, NEW s, NEW vids, NEW V, NEW H, NEW sub, NEW act, NEW prog, NEW b,
         Sound(M, m, s, vids, V, H, sub, act, prog, b), M.panic = "no", V = Screen,
         NEW W \in FreeSmall(M), NEW F, F = {W}, NEW K, K = Mark(M, F, KERNEL),
         NEW N, N = RemapOf(K, vids, W)
  PROVE  Sound(N, m, s, vids, W, H, sub, act, prog, b) /\ Fields(N)
<1> DEFINE X == KeptOf(H, V)
           Y == KeptOf(H, W)
<1>1. Good(M, X, V) /\ Fields(M) /\ DOMAIN Maps(M) = DOMAIN M.dir
  BY Before
<1>2. W \in SmallFrame /\ W \in Frames /\ W # V /\ W \notin X
  <2> HIDE DEF X
  <2> QED BY <1>1, FreeIsNobodys
<1>3. X = H
  BY DEF KeptOf
<1>4. Y = X \union {W}
  BY <1>2, <1>3 DEF KeptOf
<1>5. W \notin H
  BY <1>2, <1>3
<1>6. Y = KeptOf(H, W)
  OBVIOUS
<1> HIDE DEF X, Y
<1>7. Good(K, Y, V)
  BY <1>1, <1>4, OwnedFrame
<1>8. K.dir = M.dir /\ K.table = M.table /\ K.panic = "no"
  BY <1>1, MarkFacts
<1>9. Maps(K) = Maps(M)
  BY <1>8 DEF Maps
<1>10. \A d \in DOMAIN M.dir : \A a \in Cells : Maps(M)[d][a] # W
  <2>1. Counted(Maps(M), M.phys, Held(M, X), V)
    BY <1>1 DEF Good
  <2>2. M.phys[W] = UNUSED
    BY FreeSmallFacts
  <2>3. Users(Maps(M), W) = {}
    BY <1>2, <2>1, <2>2, FreshFrame
  <2> QED BY <1>1, <2>3 DEF Users
<1>11. W \in SmallFrame \union {Screen} /\ Sound(M, m, s, vids, V, H, sub, act, prog, b) /\ M.panic = "no"
  BY <1>2
<1>12. N = RemapOf(K, vids, W)
  OBVIOUS
<1> QED BY <1>2, <1>5, <1>6, <1>7, <1>8, <1>9, <1>10, <1>11, <1>12, SwitchTo

\* It comes back: the screen is the screen's again, and the frame is given back.
LEMMA SwitchBack ==
  ASSUME NEW M, NEW m, NEW s, NEW vids, NEW V, NEW H, NEW sub, NEW act, NEW prog, NEW b,
         Sound(M, m, s, vids, V, H, sub, act, prog, b), M.panic = "no", V # Screen,
         NEW W, W = Screen, NEW F, F = {V}, NEW K, K = FreeKernel(M, F), NEW N, N = RemapOf(K, vids, W)
  PROVE  Sound(N, m, s, vids, W, H, sub, act, prog, b) /\ Fields(N)
<1> DEFINE X == KeptOf(H, V)
           P == RemapOf(M, vids, W)
<1>1. /\ Good(M, X, V) /\ V \notin H /\ V \in SmallFrame \union {Screen} /\ Fields(M)
      /\ DOMAIN Maps(M) = DOMAIN M.dir
  BY Before
<1>2. W \in Frames /\ W # NoFrame /\ ~Usable(W)
  <2>1. Screen \in LargeFrame
    BY NumberFacts DEF Screen, LargeFrame
  <2> QED BY <2>1, NumberFacts
<1>3. V \in X /\ F \subseteq X /\ W \notin F
  BY DEF KeptOf
<1>4. \A h \in H : Usable(h)
  <2>1. \A h \in Held(M, X) : Usable(h)
    BY <1>1 DEF Good, Counted
  <2> QED BY <2>1 DEF Held, KeptOf
<1>5. W \notin H
  BY <1>2, <1>4
<1>6. KeptOf(H, W) = X \ F
  BY <1>1, <1>5 DEF KeptOf
<1> HIDE DEF X
<1>7. /\ Shape(M.dir, M.table) /\ Counted(Maps(M), M.phys, Held(M, X), V)
      /\ DOMAIN M.dir \intersect DOMAIN M.table = {}
      /\ X \intersect (DOMAIN M.dir \union DOMAIN M.table) = {}
      /\ M.content \in [Frames -> Values]
  BY <1>1 DEF Good
<1>8. VidsIn(vids, DOMAIN M.dir) /\ Seen(M, V, vids)
  BY VidsBefore
<1>9. \A d \in DOMAIN M.dir : \A a \in Cells : Maps(M)[d][a] # W
  <2>1. \A d \in DOMAIN M.dir : \A a \in Cells : CellOK(Maps(M)[d][a], Held(M, X), V)
    BY <1>1, <1>7 DEF Counted, RowOK
  <2>2. ~CellOK(W, Held(M, X), V)
    BY <1>2 DEF CellOK
  <2> QED BY <2>1, <2>2
<1>10. /\ Good(P, X, W) /\ Fields(P) /\ P.phys = M.phys /\ P.dir = M.dir /\ P.content = M.content
       /\ P.panic = M.panic /\ DOMAIN P.table = DOMAIN M.table
       /\ \A d \in DOMAIN M.dir : \A a \in Cells :
            IF Maps(M)[d][a] = V THEN Maps(P)[d][a] = W
            ELSE Maps(P)[d][a] = Maps(M)[d][a] /\ Maps(M)[d][a] # W
  <2>1. P = RemapOf(M, vids, W) /\ W \in X \union {Screen}
    OBVIOUS
  <2> HIDE DEF P
  <2> QED BY <1>1, <1>2, <1>8, <1>9, <2>1, RemapGood
<1>11. P.table = RemapTable(M, vids, W)
  BY <1>1, WithTableFacts DEF RemapOf
<1> HIDE DEF P
<1>12. F \in SUBSET Held(P, X)
  BY <1>3 DEF Held
<1>13. /\ FreeKernel(P, F) = Mark(P, F, UNUSED)
       /\ Counted(Maps(P), Given(P.phys, F, UNUSED), Held(P, X) \ F, W)
       /\ Split(Given(P.phys, F, UNUSED))
  BY <1>3, <1>10, <1>12, GivenBackFacts
<1>14. K = Mark(M, F, UNUSED)
  <2>1. Mark(P, F, UNUSED).panic = "no"
    BY <1>10, MarkFacts
  <2>2. Panics(P, "bug").panic = "bug"
    BY <1>10, PanicsFacts
  <2>3. ~\E f \in F : P.phys[f] # KERNEL
    BY <1>13, <2>1, <2>2 DEF FreeKernel
  <2>4. ~\E f \in F : M.phys[f] # KERNEL
    BY <1>10, <2>3
  <2> QED BY <2>4 DEF FreeKernel
<1>15. /\ K.dir = M.dir /\ K.table = M.table /\ K.panic = M.panic /\ Fields(K)
       /\ K.content = M.content /\ K.phys = Given(M.phys, F, UNUSED)
  BY <1>1, <1>14, MarkFacts
<1>16. RemapTable(K, vids, W) = RemapTable(M, vids, W)
  <2>1. \A f, p : RemapAt(K, vids, f, p) <=> RemapAt(M, vids, f, p)
    BY <1>15 DEF RemapAt
  <2> QED BY <1>15, <2>1, Zenon DEF RemapTable
<1>17. /\ Fields(N) /\ N.phys = Given(M.phys, F, UNUSED) /\ N.dir = M.dir /\ N.table = P.table
       /\ N.content = M.content /\ N.panic = "no"
  <2>1. N = WithTable(K, RemapTable(K, vids, W))
    BY DEF RemapOf
  <2> QED BY <1>11, <1>15, <1>16, <2>1, WithTableFacts
<1>18. Maps(N) = Maps(P)
  BY <1>10, <1>17 DEF Maps
<1>19. Held(N, X \ F) = Held(P, X) \ F
  <2>1. F \intersect (DOMAIN M.dir \union DOMAIN M.table) = {}
    BY <1>3, <1>7
  <2>2. DOMAIN N.dir = DOMAIN M.dir /\ DOMAIN N.table = DOMAIN M.table
    BY <1>10, <1>17
  <2> QED BY <1>10, <2>1, <2>2 DEF Held
<1> DEFINE Y == KeptOf(H, W)
<1>20. Y = X \ F
  BY <1>6
<1> HIDE DEF Y
<1>21. Good(N, Y, W)
  <2>1. Counted(Maps(N), N.phys, Held(N, Y), W) /\ Split(N.phys)
    BY <1>10, <1>13, <1>17, <1>18, <1>19, <1>20
  <2>2. DOMAIN N.dir = DOMAIN M.dir /\ DOMAIN N.table = DOMAIN M.table
    BY <1>10, <1>17
  <2>3. Y \intersect (DOMAIN N.dir \union DOMAIN N.table) = {} /\ W \in Y \union {Screen}
    BY <1>7, <1>20, <2>2
  <2>4. Shape(N.dir, N.table) /\ N.content \in [Frames -> Values]
    BY <1>7, <1>10, <1>17 DEF Good
  <2> QED BY <1>7, <1>17, <2>1, <2>2, <2>3, <2>4 DEF Good
<1>22. \A d \in DOMAIN M.dir : \A a \in Cells :
         IF Maps(M)[d][a] = V THEN Maps(N)[d][a] = W
         ELSE Maps(N)[d][a] = Maps(M)[d][a] /\ Maps(M)[d][a] # W
  BY <1>10, <1>18
<1>23. Good(N, KeptOf(H, W), W) /\ W \in SmallFrame \union {Screen}
  BY <1>21 DEF Y
<1>24. Sound(N, m, s, vids, W, H, sub, act, prog, b)
  BY <1>2, <1>5, <1>17, <1>22, <1>23, SwitchedSound, SMTT(30)
<1> QED BY <1>17, <1>24

LEMMA SwitchTerminalKeeps ==
  ASSUME MemoryInv, SwitchTerminal
  PROVE  MemoryInv'
<1>1. Now.panic = "no"
  BY NowFacts DEF SwitchTerminal
<1>2. Sound(Now, mm, mms, vidmaps, video, heap, subsystem, doing, program, births)
  BY DEF MemoryInv
<1>3. /\ mm' = mm /\ mms' = mms /\ vidmaps' = vidmaps /\ heap' = heap /\ subsystem' = subsystem
      /\ doing' = doing /\ program' = program /\ births' = births
  BY DEF SwitchTerminal
<1>4. \A M, f : Remap(M, f) = RemapOf(M, vidmaps, f)
  BY Zenon DEF Remap, RemapOf, WithTable, RemapTable, RemapAt, Reframed
<1>5. CASE video = Screen /\ FreeSmall(Now) = {}
  <2> DEFINE N == Panics(Now, "oom")
  <2>1. Becomes(N) /\ video' = video
    BY <1>5 DEF SwitchTerminal
  <2>2. N = Panics(Now, "oom")
    OBVIOUS
  <2> HIDE DEF N
  <2>3. DoTypes(subsystem, doing, program, births)
    <3>1. TaskTypes(DOMAIN Now.dir, mm, mms, vidmaps, video, heap, subsystem, doing, program, births)
      BY <1>1, <1>2, Before
    <3> QED BY <3>1, DoTypesFacts
  <2>4. Sound(N, mm, mms, vidmaps, video, heap, subsystem, doing, program, births)
    BY <1>1, <1>2, <2>2, <2>3, OutSound
  <2>5. Now' = N
    BY <2>1, <2>4, BecomesFacts DEF Sound
  <2> QED BY <1>3, <2>1, <2>4, <2>5 DEF MemoryInv
<1>6. CASE video = Screen /\ FreeSmall(Now) # {}
  <2> DEFINE W == Min(FreeSmall(Now))
             F == {W}
             K == Mark(Now, F, KERNEL)
             N == RemapOf(K, vidmaps, W)
  <2>1. video' = W
    BY <1>6 DEF SwitchTerminal
  <2>2. Becomes(Remap(Mark(Now, {video'}, KERNEL), video'))
    BY <1>6 DEF SwitchTerminal
  <2>3. Becomes(N)
    BY <1>4, <2>1, <2>2
  <2>4. F = {W} /\ K = Mark(Now, F, KERNEL) /\ N = RemapOf(K, vidmaps, W)
    OBVIOUS
  <2>5. W \in FreeSmall(Now)
    BY <1>6, FreeSmallFacts
  <2> HIDE DEF W, F, K, N
  <2>6. Sound(N, mm, mms, vidmaps, W, heap, subsystem, doing, program, births) /\ Fields(N)
    BY <1>1, <1>2, <1>6, <2>4, <2>5, SwitchOut
  <2>7. Now' = N
    BY <2>3, <2>6, BecomesFacts
  <2> QED BY <1>3, <2>1, <2>6, <2>7 DEF MemoryInv
<1>7. CASE video # Screen
  <2> DEFINE F == {video}
             K == FreeKernel(Now, F)
             W == Screen
             N == RemapOf(K, vidmaps, W)
  <2>1. video' = W
    BY <1>7 DEF SwitchTerminal
  <2>2. Becomes(Remap(FreeKernel(Now, {video}), Screen))
    BY <1>7 DEF SwitchTerminal
  <2>3. Becomes(N)
    BY <1>4, <2>2
  <2>4. F = {video} /\ K = FreeKernel(Now, F) /\ N = RemapOf(K, vidmaps, W) /\ W = Screen
    OBVIOUS
  <2> HIDE DEF W, F, K, N
  <2>5. Sound(N, mm, mms, vidmaps, W, heap, subsystem, doing, program, births) /\ Fields(N)
    BY <1>1, <1>2, <1>7, <2>4, SwitchBack
  <2>6. Now' = N
    BY <2>3, <2>5, BecomesFacts
  <2> QED BY <1>3, <2>1, <2>5, <2>6 DEF MemoryInv
<1> QED BY <1>5, <1>6, <1>7

-----------------------------------------------------------------------------
(* The invariant holds initially, and is preserved. *)

LEMMA WaitInterruptedKeeps ==
  ASSUME MemoryInv, NEW t \in Tasks, WaitInterrupted(t)
  PROVE  MemoryInv'
<1>1. panic = "no" /\ mm[t] # NoFrame /\ doing' = [doing EXCEPT ![t] = User] /\ Now' = Now
      /\ mm' = mm /\ mms' = mms /\ vidmaps' = vidmaps /\ video' = video /\ heap' = heap
      /\ subsystem' = subsystem /\ program' = program /\ births' = births
  BY DEF WaitInterrupted, Lives, physvars, Now
<1> DEFINE act2 == [doing EXCEPT ![t] = User]
<1>2. Sound(Now, mm, mms, vidmaps, video, heap, subsystem, doing, program, births) /\ Now.panic = "no"
  BY <1>1, NowFacts DEF MemoryInv
<1>3. /\ Whole(Now, mm, mms, vidmaps, video, heap, subsystem, doing, program)
      /\ TaskTypes(DOMAIN Now.dir, mm, mms, vidmaps, video, heap, subsystem, doing, program, births)
  BY <1>2, Before
<1>4. /\ doing = [u \in Tasks |-> doing[u]] /\ act2 = [u \in Tasks |-> act2[u]]
      /\ act2[t] = User /\ \A u \in Tasks : act2[u] = doing[u] \/ act2[u] = User
  BY <1>3, Zenon DEF TaskTypes
<1> HIDE DEF act2
<1>5. TaskTypes(DOMAIN Now.dir, mm, mms, vidmaps, video, heap, subsystem, act2, program, births)
  <2>1. \A u \in Tasks : ActOK(doing[u], program[u])
    BY <1>3 DEF TaskTypes
  <2>2. ASSUME NEW u \in Tasks
        PROVE  ActOK(act2[u], program[u])
    <3>1. CASE act2[u] = User
      BY <3>1 DEF ActOK
    <3>2. CASE act2[u] = doing[u]
      BY <2>1, <3>2
    <3> QED BY <1>4, <3>1, <3>2
  <2> QED BY <1>3, <1>4, <2>2 DEF TaskTypes
<1>6. VidOK(Maps(Now), video, vidmaps, mm, subsystem, act2)
  <2>1. VidOK(Maps(Now), video, vidmaps, mm, subsystem, doing) /\ \A x \in vidmaps : x[1] \in Tasks
    BY <1>2, <1>3, Before, VidTasks
  <2> QED BY <1>4, <2>1 DEF VidOK
<1>7. TaskOK(mm, mms, subsystem, act2)
  BY <1>3, <1>4 DEF Whole, TaskOK
<1>8. LayOK(Now, video, mm, mms, subsystem, act2, program)
  <2>1. LayOK(Now, video, mm, mms, subsystem, doing, program)
    BY <1>3 DEF Whole
  <2> QED BY <1>4, <2>1, ActFacts DEF LayOK, LayOf
<1>9. Whole(Now, mm, mms, vidmaps, video, heap, subsystem, act2, program)
  BY <1>3, <1>6, <1>7, <1>8 DEF Whole
<1>10. Sound(Now, mm, mms, vidmaps, video, heap, subsystem, act2, program, births)
  BY <1>2, <1>5, <1>9, SoundWhole
<1> QED BY <1>1, <1>10 DEF MemoryInv, act2

LEMMA InitHolds ==
  ASSUME MemoryInit
  PROVE  MemoryInv
<1>1. /\ Now.phys = InitPage /\ Now.dir = << >> /\ Now.table = << >>
      /\ Now.content = [i \in Frames |-> 0] /\ Now.panic = "no" /\ Fields(Now)
  BY NowFacts DEF MemoryInit
<1>2. /\ mm = [t \in Tasks |-> NoFrame] /\ mms = << >> /\ vidmaps = {} /\ video = Screen
      /\ heap = {} /\ subsystem = [t \in Tasks |-> "LINUX"] /\ doing = [t \in Tasks |-> User]
      /\ program = [t \in Tasks |-> << >>] /\ births = 0
  BY DEF MemoryInit
<1>3. DOMAIN Now.dir = {} /\ DOMAIN Now.table = {} /\ DOMAIN mms = {}
  <2> DEFINE e == << >>
  <2>1. DOMAIN e = {}
    OBVIOUS
  <2>2. Now.dir = e /\ Now.table = e /\ mms = e
    BY <1>1, <1>2
  <2> HIDE DEF e
  <2> QED BY <2>1, <2>2
<1>4. Now.dir \in [DOMAIN Now.dir -> [UserSlots -> Entries]] /\ Now.table \in [DOMAIN Now.table -> [Pages -> Entries]]
  <2>1. \A S : << >> \in [{} -> S]
    OBVIOUS
  <2> QED BY <1>1, <1>3, <2>1
<1>5. Shape(Now.dir, Now.table)
  BY <1>3, <1>4 DEF Shape, DirsOK, TablesOK, Placed
<1>6. KeptOf(heap, video) = {}
  BY <1>2 DEF KeptOf
<1>7. DOMAIN Maps(Now) = {} /\ Maps(Now) \in [DOMAIN Maps(Now) -> Rows]
  BY <1>3, <1>5, FlatFacts DEF Maps
<1>8. Held(Now, {}) = {}
  BY <1>3 DEF Held
<1>9. InitPage \in [Frames -> Int] /\ \A f \in Frames : f < Preallocated => InitPage[f] = KERNEL
  <2>1. InitPage \in [Frames -> Int]
    BY NumberFacts
  <2> QED BY <2>1 DEF InitPage
<1>10. Counts(Maps(Now), InitPage, {})
  <2>1. \A f : Users(Maps(Now), f) = {}
    BY <1>7 DEF Users
  <2> QED BY <1>9, <2>1 DEF Counts, Count
<1>11. Counted(Maps(Now), InitPage, {}, Screen)
  <2>1. IsFiniteSet(DOMAIN Maps(Now))
    BY <1>7, FS_EmptySet
  <2> QED BY <1>7, <1>9, <1>10, <2>1 DEF Counted
<1>12. Split(InitPage)
  <2>1. ASSUME NEW i \in SmallFrame
        PROVE  ~InUse(InitPage[i])
    <3>1. i \in Frames /\ ~(i < Preallocated)
      BY NumberFacts DEF SmallFrame, Frames
    <3>2. InitPage[i] \in {UNUSED, UNAVAIL}
      BY <3>1 DEF InitPage
    <3> QED BY <3>2, NumberFacts DEF InUse
  <2> QED BY <2>1 DEF Split
<1>13. Now.content \in [Frames -> Values]
  BY <1>1, MemoryAssumption
<1>14. Good(Now, KeptOf(heap, video), video)
  BY <1>1, <1>2, <1>3, <1>5, <1>6, <1>8, <1>11, <1>12, <1>13 DEF Good
<1>15. VidOK(Maps(Now), video, vidmaps, mm, subsystem, doing)
  <2>1. IsFiniteSet(vidmaps) /\ Cardinality(vidmaps) <= MaxVidmaps
    BY <1>2, FS_EmptySet, MemoryAssumption
  <2> QED BY <1>2, <1>7, <2>1 DEF VidOK
<1>16. TaskOK(mm, mms, subsystem, doing)
  BY <1>2, <1>3 DEF TaskOK
<1>17. LayOK(Now, video, mm, mms, subsystem, doing, program)
  BY <1>2 DEF LayOK
<1>18. Whole(Now, mm, mms, vidmaps, video, heap, subsystem, doing, program)
  BY <1>2, <1>14, <1>15, <1>16, <1>17 DEF Whole
<1>19. TaskTypes(DOMAIN Now.dir, mm, mms, vidmaps, video, heap, subsystem, doing, program, births)
  <2>1. mm \in [Tasks -> DOMAIN Now.dir \union {NoFrame}]
    BY <1>2
  <2>2. video \in Frames
    <3>1. Screen \in LargeFrame
      BY NumberFacts DEF Screen, LargeFrame
    <3> QED BY <1>2, <3>1, NumberFacts
  <2>3. subsystem \in [Tasks -> Subsystems]
    BY <1>2 DEF Subsystems
  <2>4. doing = [t \in Tasks |-> doing[t]] /\ \A t \in Tasks : ActOK(doing[t], program[t])
    BY <1>2 DEF ActOK
  <2>5. program \in [Tasks -> {q.segments : q \in Programs} \union {<< >>}]
    BY <1>2
  <2>6. births \in 0 .. MaxBirths
    BY <1>2, MemoryAssumption
  <2> QED BY <1>2, <1>3, <2>1, <2>2, <2>3, <2>4, <2>5, <2>6 DEF TaskTypes
<1> QED BY <1>1, <1>18, <1>19, SoundWhole DEF MemoryInv

LEMMA StepKeeps ==
  ASSUME MemoryInv, [MemoryNext]_memoryvars
  PROVE  MemoryInv'
<1>1. CASE UNCHANGED memoryvars
  BY <1>1 DEF MemoryInv, memoryvars, physvars, Now
<1>2. ASSUME NEW t \in Tasks, NEW a \in Addresses, NEW v \in Values, UserWrite(t, a, v) \/ KernelWrite(t, a, v)
      PROVE  MemoryInv'
  BY <1>2, UserWriteKeeps, KernelWriteKeeps
<1>3. ASSUME NEW t \in Tasks, NEW n \in Breaks, Brk(t, n)
      PROVE  MemoryInv'
  BY <1>3, BrkKeeps
<1>4. ASSUME NEW t \in Tasks, NEW c \in Tasks, Fork(t, c) \/ Share(t, c) \/ Execute(t, c)
      PROVE  MemoryInv'
  BY <1>4, ForkKeeps, ShareKeeps, ExecuteKeeps
<1>5. ASSUME NEW t \in Tasks, NEW prog \in Programs, Exec(t, prog)
      PROVE  MemoryInv'
  BY <1>5, ExecKeeps
<1>6. ASSUME NEW t \in Tasks, LoadSegment(t) \/ WaitInterrupted(t) \/ Exit(t) \/ Vidmap(t)
      PROVE  MemoryInv'
  BY <1>6, LoadSegmentKeeps, WaitInterruptedKeeps, ExitKeeps, VidmapKeeps
<1>7. CASE SwitchTerminal \/ HeapAlloc \/ HeapFree
  BY <1>7, SwitchTerminalKeeps, HeapAllocKeeps, HeapFreeKeeps
<1> QED BY <1>1, <1>2, <1>3, <1>4, <1>5, <1>6, <1>7 DEF MemoryNext

\* What is known of the page tables, of phys_dir, of the mm_structs and of the
\* vidmaps between any two steps of sys_fork and the other operations on
\* memory: MemoryInv, which is inductive.
THEOREM MemoryInvariant == MemorySpec => []MemoryInv
<1>1. MemoryInit => MemoryInv
  BY InitHolds
<1>2. MemoryInv /\ [MemoryNext]_memoryvars => MemoryInv'
  BY StepKeeps
<1> QED BY <1>1, <1>2, PTL DEF MemorySpec

\* Whatever paging.c and the system calls do to them, the page tables, the
\* counts of phys_dir and the tasks' variables have their types.
THEOREM MemoryTypes == MemorySpec => []MemoryTypeOK
<1>1. MemoryInv => MemoryTypeOK
  <2> SUFFICES ASSUME MemoryInv PROVE MemoryTypeOK
    OBVIOUS
  <2>1. /\ PhysTypes(Now)
        /\ TaskTypes(DOMAIN dir, mm, mms, vidmaps, video, heap, subsystem, doing, program, births)
    BY NowFacts DEF MemoryInv, Sound
  <2>2. /\ phys \in [Frames -> -2 .. Cardinality(Tasks)]
        /\ \A d \in DOMAIN dir : d \in SmallFrame /\ dir[d] \in [UserSlots -> Entries]
        /\ \A f \in DOMAIN table : f \in SmallFrame /\ table[f] \in [Pages -> Entries]
        /\ content \in [Frames -> Values]
        /\ panic \in {"no", "oom", "screen", "bug"}
    BY <2>1, NowFacts DEF PhysTypes
  <2> QED BY <2>1, <2>2 DEF MemoryTypeOK, TaskTypes, ActOK, Cells
<1> QED BY <1>1, MemoryInvariant, PTL

\* No physical memory is given out by alloc_phys_mem both as a 4 MB page and as
\* 4 KB pages, even after the kernel has run out of memory.
THEOREM FramesApart == MemorySpec => []FramesDisjoint
<1>1. MemoryInv => FramesDisjoint
  <2> SUFFICES ASSUME MemoryInv PROVE FramesDisjoint
    OBVIOUS
  <2>1. Split(phys)
    BY NowFacts DEF MemoryInv, Sound
  <2> QED BY <2>1 DEF FramesDisjoint, Split, InUse
<1> QED BY <1>1, MemoryInvariant, PTL

\* The checks that use_phys_mem, free_phys_mem and find_userspace_page_table make
\* before they panic fail in no order of the system calls but one: a program that
\* has a vidmap and calls execute, which nothing prevents, ends in the panic of
\* use_phys_mem on the screen's frame, with that program in execute.
THEOREM NeverBug == MemorySpec => []NoBug
<1>1. MemoryInv => NoBug
  <2> SUFFICES ASSUME MemoryInv PROVE NoBug
    OBVIOUS
  <2>1. panic \in {"no", "oom", "screen"} /\ (panic = "screen" => Shows(vidmaps, doing))
    BY NowFacts DEF MemoryInv, Sound, PhysTypes
  <2> QED BY <2>1 DEF NoBug, Shows
<1> QED BY <1>1, MemoryInvariant, PTL

LEMMA CountsAre ==
  ASSUME MemoryInv, panic = "no"
  PROVE  /\ \A f \in Frames :
              f >= Preallocated =>
                phys[f] = IF f \in Owned THEN KERNEL
                          ELSE IF Holders(f) = {} THEN InitPage[f] ELSE Cardinality(Holders(f))
         /\ \A d \in DOMAIN dir : \A a \in Mapped(Now, d) : \A b \in Mapped(Now, d) :
              /\ Entry(Now, d, a).frame = Entry(Now, d, b).frame /\ Entry(Now, d, a).frame # video => a = b
              /\ Entry(Now, d, a).frame \in Owned => Entry(Now, d, a).frame = video
<1> DEFINE w == Maps(Now)
<1>1. Now.panic = "no" /\ Now.dir = dir /\ Now.phys = phys /\ Now.table = table
  BY NowFacts
<1>2. Good(Now, KeptOf(heap, video), video) /\ DOMAIN w = DOMAIN dir /\ Shape(Now.dir, Now.table)
  BY <1>1, Before DEF MemoryInv
<1>3. Owned = Held(Now, KeptOf(heap, video))
  BY <1>1 DEF Owned, Held, KeptOf
<1>4. Counted(w, phys, Owned, video)
  BY <1>1, <1>2, <1>3 DEF Good
<1>5. ASSUME NEW d \in DOMAIN dir
      PROVE  /\ Mapped(Now, d) \in SUBSET Cells
             /\ \A a \in Cells : a \in Mapped(Now, d) <=> w[d][a] # NoFrame
             /\ \A a \in Mapped(Now, d) : Entry(Now, d, a).frame = w[d][a]
  BY <1>1, <1>2, MappedFacts
<1> HIDE DEF w
<1>6. \A f \in Frames : Holders(f) = Users(w, f)
  <2>1. ASSUME NEW f \in Frames, NEW d \in DOMAIN dir
        PROVE  (\E a \in Mapped(Now, d) : Entry(Now, d, a).frame = f) <=> \E a \in Cells : w[d][a] = f
    BY <1>5, NumberFacts
  <2> QED BY <1>2, <2>1 DEF Holders, Users
<1>7. ASSUME NEW f \in Frames, f >= Preallocated
      PROVE  phys[f] = IF f \in Owned THEN KERNEL
                       ELSE IF Holders(f) = {} THEN InitPage[f] ELSE Cardinality(Holders(f))
  <2>1. phys[f] = Count(w, Owned, f)
    BY <1>4 DEF Counted, Counts
  <2>2. ~(f < Preallocated)
    BY <1>7, NumberFacts
  <2> QED BY <1>6, <2>1, <2>2 DEF Count
<1>8. ASSUME NEW d \in DOMAIN dir, NEW a \in Mapped(Now, d), NEW b \in Mapped(Now, d)
      PROVE  /\ Entry(Now, d, a).frame = Entry(Now, d, b).frame /\ Entry(Now, d, a).frame # video => a = b
             /\ Entry(Now, d, a).frame \in Owned => Entry(Now, d, a).frame = video
  <2>1. RowOK(w[d], Owned, video)
    BY <1>2, <1>4 DEF Counted
  <2>2. a \in Cells /\ b \in Cells /\ w[d][a] # NoFrame
    BY <1>5
  <2>3. Entry(Now, d, a).frame = w[d][a] /\ Entry(Now, d, b).frame = w[d][b]
    BY <1>5
  <2> QED BY <2>1, <2>2, <2>3 DEF RowOK, CellOK
<1> QED BY <1>7, <1>8

LEMMA TablesAre ==
  ASSUME MemoryInv, panic = "no"
  PROVE  DOMAIN table = UNION {Tables(Now, d) : d \in DOMAIN dir}
<1>1. Now.panic = "no" /\ Now.dir = dir /\ Now.table = table
  BY NowFacts
<1>2. Placed(dir, table)
  <2>1. Shape(Now.dir, Now.table)
    BY <1>1, Before DEF MemoryInv
  <2> QED BY <1>1, <2>1 DEF Shape
<1>3. ASSUME NEW f
      PROVE  f \in DOMAIN table <=> \E d \in DOMAIN dir : f \in Tables(Now, d)
  <2>1. \A d : f \in Tables(Now, d) <=> \E s \in UserSlots : IsTable(dir[d][s]) /\ f = dir[d][s].frame
    BY <1>1 DEF Tables, IsTable
  <2> QED BY <1>2, <2>1 DEF Placed
<1> QED BY <1>3

LEMMA VidmapsAre ==
  ASSUME MemoryInv, panic = "no"
  PROVE  /\ \A d \in DOMAIN dir : \A a \in Mapped(Now, d) :
              Entry(Now, d, a).frame = video <=> \E t \in Tasks : <<t, d, a>> \in vidmaps
         /\ \A x \in vidmaps : x[3] \in Mapped(Now, x[2]) /\ x[2] = mm[x[1]]
         /\ \A x \in vidmaps : \A y \in vidmaps : x[2] = y[2] => x[1] = y[1]
         /\ \A d \in DOMAIN dir : mms[d].refcount = Cardinality({t \in Tasks : mm[t] = d})
<1> DEFINE w == Maps(Now)
<1>1. Now.panic = "no" /\ Now.dir = dir
  BY NowFacts
<1>2. /\ VidOK(w, video, vidmaps, mm, subsystem, doing) /\ TaskOK(mm, mms, subsystem, doing)
      /\ DOMAIN w = DOMAIN dir /\ Shape(Now.dir, Now.table) /\ video \in SmallFrame \union {Screen}
      /\ TaskTypes(DOMAIN dir, mm, mms, vidmaps, video, heap, subsystem, doing, program, births)
  BY <1>1, Before DEF MemoryInv
<1>3. ASSUME NEW d \in DOMAIN dir
      PROVE  /\ Mapped(Now, d) \in SUBSET Cells
             /\ \A a \in Cells : a \in Mapped(Now, d) <=> w[d][a] # NoFrame
             /\ \A a \in Mapped(Now, d) : Entry(Now, d, a).frame = w[d][a]
  BY <1>1, <1>2, MappedFacts
<1> HIDE DEF w
<1>4. ASSUME NEW d \in DOMAIN dir, NEW a \in Mapped(Now, d)
      PROVE  Entry(Now, d, a).frame = video <=> \E t \in Tasks : <<t, d, a>> \in vidmaps
  <2>1. a \in Cells /\ Entry(Now, d, a).frame = w[d][a]
    BY <1>3
  <2>2. w[d][a] = video <=> Shown(vidmaps, d, a)
    BY <1>2, <2>1 DEF VidOK, Shown
  <2>3. Entry(Now, d, a).frame = video <=> Shown(vidmaps, d, a)
    BY <2>1, <2>2
  <2> QED BY <2>3 DEF Shown
<1>5. ASSUME NEW x \in vidmaps
      PROVE  x[1] \in Tasks /\ x[2] \in DOMAIN dir /\ x[3] \in Cells /\ x = <<x[1], x[2], x[3]>>
  BY <1>2, VidTypes
<1>6. ASSUME NEW x \in vidmaps, NEW y \in vidmaps, x[2] = y[2]
      PROVE  x[1] = y[1]
  <2>1. mm[x[1]] = x[2] /\ mm[y[1]] = y[2] /\ subsystem[x[1]] = "ECE391"
    BY <1>2 DEF VidOK
  <2>2. x[2] # NoFrame
    <3>1. NoFrame \notin DOMAIN dir
      BY <1>2, NumberFacts DEF TaskTypes, MemoryInv, Sound, Shape, DirsOK
    <3> QED BY <1>5, <3>1
  <2> QED BY <1>2, <1>5, <1>6, <2>1, <2>2 DEF TaskOK
<1>7. ASSUME NEW x \in vidmaps
      PROVE  x[3] \in Mapped(Now, x[2]) /\ x[2] = mm[x[1]]
  <2>1. x[1] \in Tasks /\ x[2] \in DOMAIN dir /\ x[3] \in Cells /\ x = <<x[1], x[2], x[3]>>
    BY <1>5
  <2>2. w[x[2]][x[3]] = video
    BY <1>2, <2>1 DEF VidOK
  <2>3. video # NoFrame /\ mm[x[1]] = x[2]
    BY <1>2, NumberFacts DEF TaskTypes, VidOK
  <2> QED BY <1>3, <2>1, <2>2, <2>3
<1>8. \A d \in DOMAIN dir : mms[d].refcount = Cardinality({t \in Tasks : mm[t] = d})
  BY <1>2 DEF TaskOK, TaskTypes, TasksOf
<1> QED BY <1>4, <1>6, <1>7, <1>8

\* phys_dir is right: the count of a frame is the number of directories of
\* living tasks that map it, or says that it is the kernel's, for as long as
\* there is memory; every page table is in one place; the screen is seen where
\* vidmap put it, which may be at several addresses, and nowhere else, and a
\* directory that sees it is that of one task; every other frame is at one
\* address of a directory; and the refcount of an mm_struct is the number of its
\* tasks.
THEOREM CountsRight == MemorySpec => []CountsExact
<1>1. MemoryInv => CountsExact
  <2> SUFFICES ASSUME MemoryInv, panic = "no" PROVE CountsExact
    BY DEF CountsExact
  <2> QED BY CountsAre, TablesAre, VidmapsAre, Zenon DEF CountsExact
<1> QED BY <1>1, MemoryInvariant, PTL

=============================================================================
