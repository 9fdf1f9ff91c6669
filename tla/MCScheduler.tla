---------------------------- MODULE MCScheduler ----------------------------
\* Instances of Scheduler for TLC.
EXTENDS Scheduler, TLC

\* Schedules that are due at every moment, and once.
Twice == {{1, 2}, {2}}
=============================================================================
