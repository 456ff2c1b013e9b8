------------------------------- MODULE Queues -------------------------------
(***************************************************************************)
(* The lists of structure/list.c as they are used for queues of tasks: a   *)
(* sequence, first element at the front.  list_insert_back is Append,      *)
(* list_peek_front is Head, list_pop_front is Head and Tail.               *)
(***************************************************************************)
EXTENDS Naturals, Sequences

\* The members of a queue: list_contains asks for one.
Contents(q) == {q[i] : i \in 1..Len(q)}

NoDuplicates(q) == \A i, j \in 1..Len(q) : q[i] = q[j] => i = j

\* list_remove(q, x), for a queue that holds x once.
Without(q, x) ==
  LET p == CHOOSE i \in 1..Len(q) : q[i] = x
  IN  [i \in 1..Len(q) - 1 |-> IF i < p THEN q[i] ELSE q[i + 1]]
=============================================================================
