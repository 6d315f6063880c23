----------------------------- MODULE MCPreparation -----------------------------
(* Preparation with two backups: either one prepared twice while the page comes  *)
(* and goes, or both in one pass.                                               *)
EXTENDS Preparation

CONSTANTS l1, l2

TwoBackups == <<l1, l2>>
================================================================================
