----------------------------- MODULE DeviceImport -----------------------------
(***************************************************************************)
(* Importing from an iPhone: the view shows the guided setup (Toolchain) until  *)
(* the device tools are found, and then the panel that pulls a backup         *)
(* (PullPanel).  The view comes and goes; a setup run goes on without it.      *)
(*                                                                         *)
(* Bounds: the tools are changed, other than by a setup run, only before the    *)
(* first pull; and the panel is used only with the tools of the last version    *)
(* installed and with no setup run under way, and opened first before any    *)
(* failure.                                                                *)
(***************************************************************************)
EXTENDS PullPanel, Toolchain

VARIABLES
  view \* what the view shows while the pull panel is not there

importVars == <<vars, setupVars, view>>

\* What the view knows of the setup is of its last check, or nothing.
Unknown == [known |-> FALSE, ready |-> FALSE, installed |-> FALSE]
Places == {"left", "checking", "status", "setup", "tools"}
Left == [at |-> "left", seen |-> Unknown]

ViewTypeOK ==
  /\ SetupTypeOK
  /\ view \in [at : Places, seen : [known : BOOLEAN, ready : BOOLEAN, installed : BOOLEAN]]
  /\ panel.phase # "unmounted" => view.at = "tools"

ImportInit == Init /\ SetupInit /\ view = Left

PullsStay == UNCHANGED vars
SetupStays == UNCHANGED setupVars
Untouched == Fresh = Pulls /\ known = <<>> /\ toMain \o toPanel = <<>> /\ \A c \in Clicks : calls[c] = NoCall

-------------------------------------------------------------------------------
(* The view: checkTool, in two reads, and runSetup. *)

\* The first read is answered at once.
Open ==
  /\ view.at = "left" /\ ~ToolFound /\ view' = [Left EXCEPT !.at = "status"]
  /\ PullsStay /\ SetupStays
Leave ==
  /\ view.at \in {"checking", "status", "setup"} /\ view' = Left
  /\ builder' = [builder EXCEPT !.asked = FALSE]
  /\ PullsStay /\ UNCHANGED <<version, ready, folder, progress>>
ChecksTool ==
  /\ view.at = "checking" /\ ~ToolFound /\ view' = [view EXCEPT !.at = "status"]
  /\ PullsStay /\ SetupStays
ReadsStatus ==
  /\ view.at = "status"
  /\ view' = [at |-> "setup", seen |-> [known |-> TRUE, ready |-> SystemReady, installed |-> Installed]]
  /\ PullsStay /\ SetupStays

\* The actions stay on the screen during the check that follows a run.  Bound:
\* one still unanswered when the next run is asked for is dropped, as the view
\* checks again after the run.
Offers(wanted) == view.seen.known /\ ~builder.asked /\ wanted
Asked(place) ==
  /\ view.at \in {"checking", "status", "setup"} /\ PullsStay
  /\ IF Busy
     THEN view' = [view EXCEPT !.at = "checking"] /\ SetupStays \* refused
     ELSE SetupStarts(place) /\ view' = [view EXCEPT !.at = "setup"]
ClickInstall == Offers(~view.seen.ready) /\ Asked("packages")
ClickBuild == Offers(view.seen.ready /\ ~view.seen.installed) /\ Asked("check")
CheckAgain ==
  /\ view.at = "setup" /\ Offers(~view.seen.ready \/ ~view.seen.installed)
  /\ view' = [view EXCEPT !.at = "checking"]
  /\ PullsStay /\ SetupStays

-------------------------------------------------------------------------------
(* The setup's own steps; the view that asked for a run checks again at its end. *)

Answered ==
  IF builder.asked /\ builder'.pc = "off" THEN view' = [view EXCEPT !.at = "checking"] ELSE UNCHANGED view
PullsWait == UNCHANGED <<disk, known, encrypts, tracker, job, cancel, copy, del, toMain, toPanel, panelVars>>
SetupRuns == SetupSteps /\ Sure /\ PullsWait /\ Answered
SetupFails == SetupFailures /\ Fault /\ PullsWait /\ Answered
ToolsChange ==
  /\ Untouched /\ view.at = "left"
  /\ Update \/ FolderDeleted \/ TempCleaned
  /\ PullsStay /\ UNCHANGED view

-------------------------------------------------------------------------------
(* The pull panel, there once the tools are found. *)

PanelMounts ==
  /\ view.at \in {"left", "checking"} /\ ToolFound /\ Mount /\ (Untouched => faults = 0)
  /\ view' = [at |-> "tools", seen |-> Unknown] /\ SetupStays
PanelLeaves == Unmount /\ view' = Left /\ SetupStays
MayPull == version = Len(Pins) /\ ~Busy /\ Installed
PanelGoesOn ==
  /\ MayPull /\ view.at \in {"left", "tools"}
  /\ Main \/ Examiner \/ Hear
  /\ (panel.phase = "unmounted") = (panel'.phase = "unmounted")
  /\ UNCHANGED <<setupVars, view>>
AppEnds == Killed /\ Interrupted /\ view' = Left

ImportNext ==
  \/ Open \/ Leave \/ ChecksTool \/ ReadsStatus \/ ClickInstall \/ ClickBuild \/ CheckAgain
  \/ SetupRuns \/ SetupFails \/ ToolsChange
  \/ PanelMounts \/ PanelLeaves \/ PanelGoesOn \/ AppEnds

ImportSpec == ImportInit /\ [][ImportNext]_importVars

\* PullPanel's fairness.
ImportFairSpec == ImportSpec /\ WF_importVars(PullSteps /\ UNCHANGED <<panelVars, setupVars, view>>)

-------------------------------------------------------------------------------
(* Properties. *)

\* The types, and the two below as one (see Toolchain).
SetupIsSound == ViewTypeOK /\ CanSucceed

\* See Toolchain.
InstalledIsWhole == [][WholeWhenInstalled]_setupVars
================================================================================
