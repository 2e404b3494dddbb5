----------------------------- MODULE MCScheduling ----------------------------
(* A small instance of Scheduling for TLC: one task (tasks share nothing but    *)
(* the scheduler) with at most two runs at a time.                             *)
EXTENDS Scheduling

CONSTANT daily

TwoRuns    == 1..2
TwoChats   == 1..2

=============================================================================
