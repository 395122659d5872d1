----------------------------- MODULE MCScheduler -----------------------------
(* Small instances of Scheduler for TLC: at most one schedule of each kind. *)
EXTENDS Scheduler

CONSTANTS brief, poll, remind

Kinds == [s \in {brief, poll, remind} |->
            CASE s = brief -> "cron" [] s = poll -> "every" [] s = remind -> "at"]
KindsOf == [s \in Schedules |-> Kinds[s]]
==============================================================================
