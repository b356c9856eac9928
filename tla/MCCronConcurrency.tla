-------------------------- MODULE MCCronConcurrency --------------------------
(* Small instances of CronConcurrency for TLC. *)
EXTENDS CronConcurrency

AllStrategies == {"parallel", "skip", "kill"}
==============================================================================
