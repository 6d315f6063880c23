--------------------------- MODULE MCInvestigations ---------------------------
(* Investigations and RecordPages on small instances.  The two share no state   *)
(* and are checked side by side: a walk is looked at only where nothing else    *)
(* has begun, so that their states do not multiply.                            *)
EXTENDS Investigations, RecordPages, TLC

CONSTANTS r1, r2, s1

\* An incomplete run, and the one a retry of it, or an Analyze, makes.
OneSource == r1 :> s1 @@ r2 :> s1
ThreeUnits == 1 :> "u" @@ 2 :> "v" @@ 3 :> "u" @@ 4 :> "w"

allVars == <<investigationVars, pageVars>>
NothingElse == turns = 0 /\ errors = 0 /\ orch = <<>> /\ \A c \in calls : c.kind = "load" /\ c.read = None
MCNext ==
  \/ walk = NoWalk /\ InvestigationsNext /\ UNCHANGED pageVars
  \/ NothingElse /\ calls # {} /\ PagesNext /\ UNCHANGED investigationVars
MCInit == InvestigationsInit /\ PagesInit
Spec == MCInit /\ [][MCNext]_allVars
FairSpec == Spec /\ InvestigationsFair
================================================================================
