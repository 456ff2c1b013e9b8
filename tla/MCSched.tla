------------------------------ MODULE MCSched ------------------------------
(* Sched, and that it implements ReadySet, with a few tasks, for TLC. *)
EXTENDS SchedRefines, TLC
=============================================================================
