---------------------------- MODULE MCScheduler -----------------------------
(***************************************************************************)
(* Settings of Scheduler for TLC.                                          *)
(***************************************************************************)
EXTENDS Scheduler

\* Days of two minutes: the standup in the first, a window in the second.
MCConfig == [start |-> 1, end |-> 0, interval |-> 1, daily |-> 0, days |-> "every_day"]
=============================================================================
