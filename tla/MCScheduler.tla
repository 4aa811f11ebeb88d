----------------------------- MODULE MCScheduler -----------------------------
(* Scheduler on small instances; the .cfg files give the constants.        *)
EXTENDS SchedulerInvariant, TLC

(* The workers run the same code.                                          *)
WorkerSymmetry == Permutations(Workers)
=============================================================================
