----------------------------- MODULE MCProcessor -----------------------------
(* Processor on small instances: two contents of the backup, one or two       *)
(* iLEAPP commits, one or two sets of acquired crash logs.                     *)
EXTENDS Processor

CONSTANTS t1, t2, logs, logs2
================================================================================
