------------------------------- MODULE MCBoot -------------------------------
(* A small instance of Boot.                                               *)
EXTENDS Boot

\* Job files, one that cannot be deleted, one whose path is just too long and
\* one whose path is longer, and a file that is none of ours.
Entries ==
    {[ext |-> "gcode", path |-> 2, stuck |-> FALSE],
     [ext |-> "gcode", path |-> 2, stuck |-> TRUE],
     [ext |-> "gcode", path |-> 3, stuck |-> FALSE],
     [ext |-> "partial", path |-> 2, stuck |-> FALSE],
     [ext |-> "partial", path |-> 4, stuck |-> FALSE],
     [ext |-> "other", path |-> 4, stuck |-> FALSE]}

\* embassy_main, and the tasks that sleep.
Sleeps == [t \in Sleeper \cup {Main} |-> IF t = Main THEN 1 ELSE Period]

=============================================================================
