--------------------------- MODULE MCScheduledTask ---------------------------
(* Instances of ScheduledTask for TLC. *)
EXTENDS ScheduledTask
Several ==
    {[once |-> TRUE, multi |-> FALSE, cap |-> 0, bound |-> 2], [once |-> TRUE, multi |-> TRUE, cap |-> 0, bound |-> 1],
     [once |-> FALSE, multi |-> FALSE, cap |-> 1, bound |-> 1], [once |-> FALSE, multi |-> TRUE, cap |-> 1, bound |-> 1]}

CronMulti == {[once |-> FALSE, multi |-> TRUE, cap |-> 0, bound |-> 1]}
=============================================================================
