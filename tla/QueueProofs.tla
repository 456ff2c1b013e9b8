---------------------------- MODULE QueueProofs ----------------------------
(***************************************************************************)
(* What the operations on queues do to the members of a queue and to its    *)
(* freedom from duplicates, for every queue.                               *)
(***************************************************************************)
EXTENDS Queues, TLAPS

\* Appending to a queue (list_insert_back) adds one member and keeps the queue
\* free of duplicates when the member was not in it.
LEMMA AppendFacts ==
  ASSUME NEW S, NEW q \in Seq(S), NEW x \in S
  PROVE  /\ Append(q, x) \in Seq(S)
         /\ Append(q, x) # <<>>
         /\ Contents(Append(q, x)) = Contents(q) \union {x}
         /\ NoDuplicates(q) /\ x \notin Contents(q) => NoDuplicates(Append(q, x))
<1> DEFINE a == Append(q, x)
<1>1. /\ a \in Seq(S) /\ Len(a) = Len(q) + 1 /\ Len(q) \in Nat
      /\ \A i \in 1..Len(q) : a[i] = q[i]
      /\ a[Len(q) + 1] = x
  OBVIOUS
<1>2. a # <<>>
  BY <1>1
<1>3. Contents(a) = Contents(q) \union {x}
  <2>1. \A i \in 1..Len(a) : i \in 1..Len(q) \/ i = Len(q) + 1
    BY <1>1
  <2>2. \A i \in 1..Len(q) : i \in 1..Len(a)
    BY <1>1
  <2>3. Len(q) + 1 \in 1..Len(a)
    BY <1>1
  <2> QED BY <1>1, <2>1, <2>2, <2>3 DEF Contents
<1>4. NoDuplicates(q) /\ x \notin Contents(q) => NoDuplicates(a)
  <2> SUFFICES ASSUME NoDuplicates(q), x \notin Contents(q),
                      NEW i \in 1..Len(a), NEW j \in 1..Len(a), a[i] = a[j]
               PROVE  i = j
    BY DEF NoDuplicates
  <2>1. (i \in 1..Len(q) \/ i = Len(q) + 1) /\ (j \in 1..Len(q) \/ j = Len(q) + 1)
    BY <1>1
  <2>2. CASE i \in 1..Len(q) /\ j \in 1..Len(q)
    BY <2>2, <1>1 DEF NoDuplicates
  <2>3. CASE i \in 1..Len(q) /\ j = Len(q) + 1
    BY <2>3, <1>1 DEF Contents
  <2>4. CASE i = Len(q) + 1 /\ j \in 1..Len(q)
    BY <2>4, <1>1 DEF Contents
  <2>5. CASE i = Len(q) + 1 /\ j = Len(q) + 1
    BY <2>5
  <2> QED BY <2>1, <2>2, <2>3, <2>4, <2>5
<1> QED BY <1>1, <1>2, <1>3, <1>4

\* Taking the front of a queue (list_pop_front) removes exactly that member
\* when the queue is free of duplicates.
LEMMA TailFacts ==
  ASSUME NEW S, NEW q \in Seq(S), q # <<>>
  PROVE  /\ Head(q) \in S /\ Tail(q) \in Seq(S)
         /\ Contents(q) = Contents(Tail(q)) \union {Head(q)}
         /\ NoDuplicates(q) => NoDuplicates(Tail(q)) /\ Head(q) \notin Contents(Tail(q))
<1>1. /\ Head(q) = q[1] /\ Head(q) \in S /\ Tail(q) \in Seq(S)
      /\ Len(q) \in Nat /\ Len(q) >= 1 /\ Len(Tail(q)) = Len(q) - 1
      /\ \A i \in 1..Len(Tail(q)) : Tail(q)[i] = q[i + 1]
  OBVIOUS
<1>2. Contents(q) = Contents(Tail(q)) \union {Head(q)}
  <2>1. \A i \in 1..Len(q) : i = 1 \/ (i - 1 \in 1..Len(Tail(q)) /\ (i - 1) + 1 = i)
    BY <1>1
  <2>2. \A i \in 1..Len(q) : q[i] = q[1] \/ q[i] = Tail(q)[i - 1]
    BY <1>1, <2>1
  <2>3. \A i \in 1..Len(Tail(q)) : i + 1 \in 1..Len(q)
    BY <1>1
  <2>4. 1 \in 1..Len(q)
    BY <1>1
  <2>5. ASSUME NEW x \in Contents(q) PROVE x \in Contents(Tail(q)) \union {Head(q)}
    <3> PICK i \in 1..Len(q) : x = q[i]
      BY DEF Contents
    <3> QED BY <1>1, <2>1, <2>2 DEF Contents
  <2>6. ASSUME NEW x \in Contents(Tail(q)) PROVE x \in Contents(q)
    BY <1>1, <2>3 DEF Contents
  <2>7. Head(q) \in Contents(q)
    BY <1>1, <2>4 DEF Contents
  <2> QED BY <2>5, <2>6, <2>7
<1>3. NoDuplicates(q) => NoDuplicates(Tail(q)) /\ Head(q) \notin Contents(Tail(q))
  <2> SUFFICES ASSUME NoDuplicates(q)
               PROVE  NoDuplicates(Tail(q)) /\ Head(q) \notin Contents(Tail(q))
    OBVIOUS
  <2>1. ASSUME NEW i \in 1..Len(Tail(q)), NEW j \in 1..Len(Tail(q)),
               Tail(q)[i] = Tail(q)[j]
        PROVE  i = j
    <3>1. i + 1 \in 1..Len(q) /\ j + 1 \in 1..Len(q) /\ q[i + 1] = q[j + 1]
      BY <1>1, <2>1
    <3>2. i + 1 = j + 1
      BY <3>1 DEF NoDuplicates
    <3> QED BY <3>2
  <2>2. ASSUME NEW i \in 1..Len(Tail(q)), Tail(q)[i] = Head(q) PROVE FALSE
    <3>1. i + 1 \in 1..Len(q) /\ 1 \in 1..Len(q) /\ q[i + 1] = q[1]
      BY <1>1, <2>2
    <3>2. i + 1 = 1
      BY <3>1 DEF NoDuplicates
    <3> QED BY <3>2
  <2> QED BY <2>1, <2>2 DEF NoDuplicates, Contents
<1> QED BY <1>1, <1>2, <1>3

\* Taking a member out of a queue (list_remove) takes out that member only,
\* keeps the others in order, and keeps the front when that is another one.
LEMMA WithoutFacts ==
  ASSUME NEW S, NEW q \in Seq(S), NEW x \in Contents(q), NoDuplicates(q)
  PROVE  /\ Without(q, x) \in Seq(S)
         /\ Contents(Without(q, x)) = Contents(q) \ {x}
         /\ NoDuplicates(Without(q, x))
         /\ Head(q) # x => Without(q, x) # <<>> /\ Head(Without(q, x)) = Head(q)
<1> DEFINE p == CHOOSE i \in 1..Len(q) : q[i] = x
           w == [i \in 1..Len(q) - 1 |-> IF i < p THEN q[i] ELSE q[i + 1]]
<1>1. p \in 1..Len(q) /\ q[p] = x
  BY DEF Contents
<1>2. Without(q, x) = w
  BY DEF Without
<1>3. Len(q) \in Nat /\ Len(q) >= 1 /\ \A i \in 1..Len(q) : q[i] \in S
  BY <1>1
<1> HIDE DEF p
<1>4. \A i \in 1..Len(q) - 1 : i \in 1..Len(q) /\ i + 1 \in 1..Len(q)
  BY <1>3
<1>5. w \in Seq(S) /\ Len(w) = Len(q) - 1
  <2>1. \A i \in 1..Len(q) - 1 : w[i] \in S
    BY <1>3, <1>4
  <2>2. Len(q) - 1 \in Nat
    BY <1>3
  <2>3. w \in [1..Len(q) - 1 -> S]
    BY <2>1
  <2> HIDE DEF w
  <2> QED BY <2>2, <2>3
<1>6. \A i \in 1..Len(q) - 1 : w[i] = IF i < p THEN q[i] ELSE q[i + 1]
  OBVIOUS
<1> HIDE DEF w
<1>7. NoDuplicates(w) /\ x \notin Contents(w)
  <2> DEFINE at(i) == IF i < p THEN i ELSE i + 1
  <2>1. \A i \in 1..Len(w) : at(i) \in 1..Len(q) /\ at(i) # p /\ w[i] = q[at(i)]
    BY <1>1, <1>3, <1>4, <1>5, <1>6
  <2>2. \A i, j \in 1..Len(w) : at(i) = at(j) => i = j
    BY <1>1, <1>3, <1>5, SMTT(30)
  <2> HIDE DEF at
  <2>3. NoDuplicates(w)
    BY <2>1, <2>2 DEF NoDuplicates
  <2>4. x \notin Contents(w)
    BY <1>1, <2>1 DEF NoDuplicates, Contents
  <2> QED BY <2>3, <2>4
<1>8. Contents(w) \subseteq Contents(q)
  BY <1>4, <1>5, <1>6 DEF Contents
<1>9. ASSUME NEW y \in Contents(q), y # x PROVE y \in Contents(w)
  <2>1. PICK i \in 1..Len(q) : q[i] = y
    BY DEF Contents
  <2>2. CASE i < p
    <3>1. i \in 1..Len(w) /\ w[i] = y
      BY <2>1, <2>2, <1>1, <1>3, <1>5, <1>6
    <3> QED BY <3>1 DEF Contents
  <2>3. CASE i > p
    <3>1. i - 1 \in 1..Len(w) /\ ~(i - 1 < p) /\ (i - 1) + 1 = i
      BY <2>3, <1>1, <1>3, <1>5
    <3>2. w[i - 1] = y
      BY <3>1, <2>1, <1>5, <1>6
    <3> QED BY <3>1, <3>2 DEF Contents
  <2>4. i # p
    BY <1>1, <2>1, <1>9
  <2> QED BY <2>2, <2>3, <2>4, <1>1, <1>3
<1>10. ASSUME Head(q) # x PROVE w # <<>> /\ Head(w) = Head(q)
  <2>1. Head(q) = q[1]
    BY <1>3
  <2>2. p > 1
    BY <1>1, <1>3, <1>10, <2>1
  <2>3. 1 \in 1..Len(q) - 1 /\ w[1] = q[1]
    BY <2>2, <1>1, <1>3, <1>6
  <2> QED BY <2>1, <2>3, <1>5
<1> QED BY <1>2, <1>5, <1>7, <1>8, <1>9, <1>10
=============================================================================
