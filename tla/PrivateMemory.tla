--------------------------- MODULE PrivateMemory ---------------------------
(***************************************************************************)
(* What virtual memory promises to programs: each task sees an address     *)
(* space, alone or with the tasks it was cloned to share it with; fork     *)
(* gives the child a copy; a write is seen in the writer's space and in no *)
(* other.  There are no frames, counts or copy-on-write flags here: Memory *)
(* implements this with all of them, but for what system calls write,      *)
(* which is seen in the twins of the writer's space too: the copies that   *)
(* fork made and nobody has written to since.                              *)
(***************************************************************************)
CONSTANTS
  Tasks,
  Spaces,    \* names for address spaces
  NoSpace,   \* the space of a task that has none
  Addresses,
  Values,
  Unmapped   \* the content of an address that is not mapped

VARIABLES
  space,     \* the address space of each task
  memory,    \* the content of each space
  twins      \* <<address, space, another>> that have it from one fork, and unwritten

memoryvars == <<space, memory, twins>>

Nothing == [a \in Addresses |-> Unmapped]

PrivateInit ==
  /\ space = [t \in Tasks |-> NoSpace]
  /\ memory = [s \in Spaces |-> Nothing]
  /\ twins = {}

\* The spaces nobody uses, were t not to use one.
Unused(t) == {s \in Spaces : \A u \in Tasks \ {t} : space[u] # s}

\* The spaces in S go on alone at the addresses in A.
Parted(S, A) == {x \in twins : x[1] \in A => x[2] \notin S /\ x[3] \notin S}

\* A space that its last user leaves is empty.
Left(t) ==
  /\ memory' = [s \in Spaces |-> IF s \in Unused(t) THEN Nothing ELSE memory[s]]
  /\ twins' = Parted(Unused(t), Addresses)

Write(t, a, v) ==
  /\ space[t] # NoSpace /\ memory[space[t]][a] # Unmapped
  /\ UNCHANGED space
  /\ memory' = [memory EXCEPT ![space[t]][a] = v]
  /\ twins' = Parted({space[t]}, {a})

\* A system call writes to t's memory.  Not a step of PrivateNext: it is what Memory
\* does instead of Write.
SystemWrite(t, a, v) ==
  /\ space[t] # NoSpace /\ memory[space[t]][a] # Unmapped
  /\ UNCHANGED <<space, twins>>
  /\ memory' = [s \in Spaces |->
       IF s = space[t] \/ <<a, space[t], s>> \in twins THEN [memory[s] EXCEPT ![a] = v]
       ELSE memory[s]]

\* The addresses in A, which were not mapped, now hold v.
Map(t, A, v) ==
  /\ space[t] # NoSpace
  /\ \A a \in A : memory[space[t]][a] = Unmapped
  /\ UNCHANGED <<space, twins>>
  /\ memory' = [memory EXCEPT ![space[t]] = [a \in Addresses |-> IF a \in A THEN v ELSE @[a]]]

Unmap(t, A) ==
  /\ space[t] # NoSpace
  /\ UNCHANGED space
  /\ memory' = [memory EXCEPT ![space[t]] = [a \in Addresses |-> IF a \in A THEN Unmapped ELSE @[a]]]
  /\ twins' = Parted({space[t]}, A)

\* c gets a copy of t's memory.
Fork(t, c) ==
  /\ space[t] # NoSpace /\ space[c] = NoSpace
  /\ \E s \in Unused(c) :
       /\ space' = [space EXCEPT ![c] = s]
       /\ memory' = [memory EXCEPT ![s] = memory[space[t]]]
       /\ LET mapped == {a \in Addresses : memory[space[t]][a] # Unmapped}
              joined == {x \in mapped \X Spaces :
                           x[2] = space[t] \/ <<x[1], space[t], x[2]>> \in twins}
          IN  twins' = twins \union {<<x[1], s, x[2]>> : x \in joined}
                             \union {<<x[1], x[2], s>> : x \in joined}

\* c gets t's memory itself.
Share(t, c) ==
  /\ space[t] # NoSpace /\ space[c] = NoSpace
  /\ space' = [space EXCEPT ![c] = space[t]]
  /\ UNCHANGED <<memory, twins>>

\* t leaves its space, if it had one, for an empty one.
Renew(t) ==
  /\ \E s \in Spaces : (\A u \in Tasks : space[u] # s) /\ space' = [space EXCEPT ![t] = s]
  /\ Left(t)

Leave(t) ==
  /\ space' = [space EXCEPT ![t] = NoSpace]
  /\ Left(t)

PrivateNext ==
  \E t \in Tasks :
    \/ \E a \in Addresses, v \in Values : Write(t, a, v)
    \/ \E A \in SUBSET Addresses :
         \/ \E v \in Values : Map(t, A, v)
         \/ Unmap(t, A)
    \/ \E c \in Tasks : Fork(t, c) \/ Share(t, c)
    \/ Renew(t)
    \/ Leave(t)

PrivateSpec == PrivateInit /\ [][PrivateNext]_memoryvars
=============================================================================
