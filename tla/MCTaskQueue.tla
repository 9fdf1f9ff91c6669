---------------------------- MODULE MCTaskQueue ----------------------------
\* Instances of TaskQueue for TLC.
EXTENDS TaskQueue

\* Bound: the worker ids a run can reach, for the fairness of each.
CONSTANT MaxWorkers

FairSpec == Spec /\ Fairness(1..MaxWorkers)
=============================================================================
