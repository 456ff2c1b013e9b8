------------------------------ MODULE MCMemory ------------------------------
EXTENDS Memory, TLC

Segment(slot, page, num, rw, large, data) ==
  [slot |-> slot, page |-> page, num |-> num, rw |-> rw, large |-> large,
   data |-> data, bss |-> FALSE]

\* A Linux program has data and a large stack, an ECE391 program a large page.
MCPrograms ==
  {[subsystem |-> "LINUX",  segments |-> << Segment(3, 0, 1, TRUE, FALSE, 0),
                                            Segment(4, 0, 1, TRUE, TRUE, 0) >>],
   [subsystem |-> "ECE391", segments |-> << Segment(4, 0, 1, TRUE, TRUE, 1) >>]}

MCAddresses == {<<3, 0>>, <<4, 0>>}

\* All memory from the third large frame on.
MCMap == {<<8, 20>>}

Symmetry == Permutations(Tasks)
=============================================================================
