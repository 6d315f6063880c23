------------------------------ MODULE MCIleappRun ------------------------------
(* IleappRun with three modules and a limit of two ticks.                      *)
EXTENDS IleappRun

Modules == 3
Ticks == 2
================================================================================
