---------------------------- MODULE MCLaneQueue ----------------------------
(***************************************************************************)
(* Three commands for the execution queue: one reads dependency files, one *)
(* must not be interrupted, and one is connected to the console.           *)
(***************************************************************************)
EXTENDS LaneQueue

Compile == 1
Sign == 2
Interactive == 3

AllJobs == {Compile, Sign, Interactive}
QuietJobs == {Compile, Sign}
OnlyInteractive == {Interactive}
OnlyCompile == {Compile}
AllFaults == {"command", "spawn", "pipe", "poll", "wait"}
=============================================================================
