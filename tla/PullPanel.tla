------------------------------- MODULE PullPanel -------------------------------
(***************************************************************************)
(* The panel that pulls a backup (useDevicePull, DevicePullPanel), composed   *)
(* with the main process (DevicePull).  What the examiner may do is what the  *)
(* panel shows and enables.  The panel unmounts when the examiner leaves the  *)
(* view; the promises of its calls go on.  One iPhone is connected.           *)
(*                                                                         *)
(* The app may quit or crash at any moment; the external tools it had running *)
(* are taken to end with it.                                                 *)
(***************************************************************************)
EXTENDS DevicePull, FiniteSetsExt

CONSTANTS
  MaxClicks \* bound: handlePull calls not yet settled

VARIABLES
  panel, \* the hook's and the panel's state
  calls  \* the handlePull calls not yet settled

panelVars == <<panel, calls>>
vars == <<pullVars, panelVars>>

Clicks == 1 .. MaxClicks

\* The panel as it mounts: it asks for the running pull before anything else.
Mounted == [phase |-> "checking", devices |-> FALSE, sel |-> FALSE, dest |-> NoDest, password |-> FALSE,
            consent |-> FALSE, stats |-> FALSE, cancelling |-> FALSE, done |-> None, logs |-> "none",
            logsOf |-> None, incomplete |-> {}, deleting |-> FALSE, copying |-> FALSE, dialog |-> FALSE]
Unmounted == [Mounted EXCEPT !.phase = "unmounted"]
NoCall == [stage |-> "free", dest |-> NoDest, owner |-> "gone"]

PanelTypeOK ==
  /\ panel \in [phase : {"unmounted", "checking", "available", "pulling", "pulled"},
       devices : BOOLEAN, sel : BOOLEAN, dest : Dests \cup {NoDest}, password : BOOLEAN, consent : BOOLEAN,
       stats : BOOLEAN, cancelling : BOOLEAN, done : Pulls \cup {None}, logs : {"none", "copied", "failed"}, logsOf : Pulls \cup {None},
       incomplete : SUBSET Pulls,
       deleting : BOOLEAN, copying : BOOLEAN, dialog : BOOLEAN]
  /\ calls \in [Clicks -> [stage : {"free", "encryption", "pull"}, dest : Dests \cup {NoDest},
                           owner : {"current", "superseded", "gone"}]]

\* Types, and the agreement of the main process's notes of a running pull.
TypeOK == PullTypeOK /\ PanelTypeOK

Init == PullInit /\ panel = Unmounted /\ calls = [c \in Clicks |-> NoCall]

Ask(what, c, folder, dest, enable) ==
  [type |-> what, call |-> c, folder |-> folder, dest |-> dest, enable |-> enable]
Asks(s) == toMain' = toMain \o s
Request(what) == Ask(what, 0, None, NoDest, FALSE)
\* A step of the panel alone.
MainWaits == UNCHANGED <<mainVars, toPanel>>
Silent == UNCHANGED toMain
Shows(p) == panel' = p
\* refreshIncomplete, run by an effect when the panel becomes available or what
\* it depends on changes.
ShowsAndLists(p) ==
  /\ Shows(p)
  /\ Asks(IF p.phase = "available" /\ p.sel THEN <<Request("list")>> ELSE <<>>)

-------------------------------------------------------------------------------
(* The examiner. *)

\* The calls of an earlier attempt no longer own the screen.
Superseded == [c \in Clicks |-> [calls[c] EXCEPT !.owner = IF @ = "current" THEN "superseded" ELSE @]]
Cleared(p) == [p EXCEPT !.stats = FALSE, !.done = None, !.logs = "none", !.logsOf = None]
Locked == panel.phase = "pulling" \/ panel.consent
Shown == panel.phase \in {"available", "pulling", "pulled"} /\ ~panel.dialog

Mount ==
  /\ panel.phase = "unmounted"
  /\ Shows(Mounted) /\ Asks(<<Request("state")>>)
  /\ MainWaits /\ UNCHANGED calls
\* Leaving the view; its calls settle without it, and answers to it are lost.
Forget(q) == Picked(q, {i \in DOMAIN q : q[i].type \notin {"state", "list"}})
Unmount ==
  /\ panel.phase # "unmounted" /\ ~panel.dialog
  /\ Shows(Unmounted)
  /\ toMain' = Forget(toMain) /\ toPanel' = Forget(toPanel)
  /\ calls' = [c \in Clicks |-> [calls[c] EXCEPT !.owner = "gone"]]
  /\ UNCHANGED mainVars
SelectDevice ==
  /\ Shown /\ ~Locked /\ panel.devices /\ ~panel.sel
  /\ ShowsAndLists([panel EXCEPT !.sel = TRUE, !.password = FALSE])
  /\ MainWaits /\ UNCHANGED calls
\* The folder dialog holds the window until it is answered, not the app.  One
\* that changes nothing is left out.
OpenDialog ==
  /\ Dests \ {panel.dest} # {}
  /\ Shown /\ panel.sel /\ ~Locked
  /\ Shows([panel EXCEPT !.dialog = TRUE]) /\ Silent
  /\ MainWaits /\ UNCHANGED calls
DialogAnswers ==
  /\ panel.dialog /\ MainWaits
  /\ \E d \in Dests \ {panel.dest} :
       ShowsAndLists([Cleared(panel) EXCEPT !.dialog = FALSE, !.dest = d, !.password = FALSE])
  /\ calls' = Superseded
TypePassword ==
  /\ Shown /\ panel.sel /\ panel.dest # NoDest /\ panel.phase = "available"
  /\ ~panel.consent /\ ~panel.password
  /\ Shows([panel EXCEPT !.password = TRUE]) /\ Silent
  /\ MainWaits /\ UNCHANGED calls

\* handlePull to its first await.  The button stays enabled while the device's
\* setting is asked for.
PullHere == panel.sel /\ panel.dest # NoDest /\ panel.password
\* Bound: a call in the first free slot, and folders left for every call under way.
Bound(c) ==
  /\ calls[c].stage = "free" /\ \A b \in Clicks : b < c => calls[b].stage # "free"
  /\ Cardinality(Fresh) > Cardinality({b \in Clicks : calls[b].stage # "free"})
\* The password goes with the pull that starts.
Started(p) == [p EXCEPT !.password = FALSE]
ClickPull(c) ==
  /\ Shown /\ panel.phase = "available" /\ ~panel.consent /\ PullHere /\ Bound(c)
  /\ Shows([Cleared(panel) EXCEPT !.incomplete = {}])
  /\ calls' = [Superseded EXCEPT ![c] = [stage |-> "encryption", dest |-> panel.dest, owner |-> "current"]]
  /\ Asks(<<Ask("encryption", c, None, NoDest, FALSE)>>) /\ MainWaits
TurnOnClicked(c) ==
  /\ Shown /\ panel.consent /\ PullHere /\ Bound(c)
  /\ Shows(Started([Cleared(panel) EXCEPT !.incomplete = {}, !.consent = FALSE, !.phase = "pulling"]))
  /\ calls' = [Superseded EXCEPT ![c] = [stage |-> "pull", dest |-> panel.dest, owner |-> "current"]]
  /\ Asks(<<Ask("pull", c, None, panel.dest, TRUE)>>) /\ MainWaits
ConsentRefused ==
  /\ Shown /\ panel.consent
  /\ Shows([panel EXCEPT !.consent = FALSE, !.password = FALSE]) /\ Silent
  /\ MainWaits /\ UNCHANGED calls

\* The progress card, with its Cancel, shows once there are figures.
ClickCancel ==
  /\ Shown /\ panel.phase = "pulling" /\ panel.stats /\ ~panel.cancelling
  /\ Shows([panel EXCEPT !.cancelling = TRUE]) /\ Asks(<<Request("cancel")>>)
  /\ MainWaits /\ UNCHANGED calls
\* Bound: one deletion and one copy are under way at a time, over all mounts.
Unanswered(what) ==
  (\E i \in DOMAIN toMain : toMain[i].type = what) \/ \E i \in DOMAIN toPanel : toPanel[i].type = what
ClickDelete ==
  /\ Shown /\ panel.phase # "pulling" /\ panel.sel /\ ~panel.deleting /\ del.pc = "off"
  /\ ~Unanswered("delete")
  /\ \E k \in panel.incomplete :
       /\ Shows([panel EXCEPT !.deleting = TRUE])
       /\ Asks(<<Ask("delete", 0, k, NoDest, FALSE)>>)
  /\ MainWaits /\ UNCHANGED calls
ClickCopyAgain ==
  /\ Shown /\ panel.phase = "pulled" /\ panel.sel /\ panel.dest # NoDest /\ panel.logs = "failed" /\ ~panel.copying
  /\ copy.pc = "off" /\ ~Unanswered("copy")
  /\ Shows([panel EXCEPT !.copying = TRUE])
  /\ Asks(<<Ask("copy", 0, panel.logsOf, NoDest, FALSE)>>)
  /\ MainWaits /\ UNCHANGED calls

-------------------------------------------------------------------------------
(* What arrives from the main process.  A panel that is not mounted hears no   *)
(* event, and an answer to a call of an unmounted panel changes no screen.     *)

Heard(p, e) ==
  CASE e.what = "stats" -> [p EXCEPT !.stats = TRUE]
    [] e.what = "done" -> [p EXCEPT !.phase = "pulled", !.cancelling = FALSE, !.done = e.folder, !.logsOf = e.folder,
                                    !.logs = IF e.logs THEN "copied" ELSE "failed"]
    [] e.what = "error" -> [p EXCEPT !.phase = "available", !.cancelling = FALSE]

HearEvent(e) ==
  /\ UNCHANGED calls
  /\ CASE panel.phase = "unmounted" -> UNCHANGED panel /\ Silent
       [] panel.phase = "available" -> Shows(Heard(panel, e)) /\ Silent
       [] OTHER -> ShowsAndLists(Heard(panel, e))

\* restorePull, or a panel ready for a new pull.
Restored(p, t) ==
  IF t.folder = None THEN [p EXCEPT !.phase = "available", !.devices = TRUE]
  ELSE [p EXCEPT !.devices = TRUE, !.sel = TRUE, !.dest = disk[t.folder].dest, !.stats = t.stats,
                 !.phase = IF t.ended THEN "available" ELSE "pulling"]

Mine(c) == calls[c].owner # "gone"
Owns(c) == calls[c].owner = "current"
Settles(c) == calls' = [calls EXCEPT ![c] = NoCall]

\* The device's setting is known: pull, or ask for consent.
HearEncryption(m) ==
  LET c == m.call IN
  IF m.ok /\ m.value
  THEN /\ Shows(IF Mine(c) THEN Started([panel EXCEPT !.consent = FALSE, !.phase = "pulling"]) ELSE panel)
       /\ calls' = [calls EXCEPT ![c].stage = "pull"]
       /\ Asks(<<Ask("pull", c, None, calls[c].dest, FALSE)>>)
  ELSE /\ Shows(IF ~Mine(c) THEN panel
                ELSE IF m.ok THEN [panel EXCEPT !.consent = TRUE]
                ELSE [panel EXCEPT !.password = FALSE])
       /\ Settles(c) /\ Silent
HearPull(m) ==
  LET c == m.call
      over == [panel EXCEPT !.password = FALSE, !.cancelling = IF Owns(c) THEN FALSE ELSE @]
      next == CASE ~Mine(c) -> panel
                [] Mine(c) /\ ~Owns(c) -> over
                [] Owns(c) /\ m.ok -> over
                [] OTHER -> [over EXCEPT !.phase = "available"]
  IN /\ IF panel.phase # "available" THEN ShowsAndLists(next) ELSE Shows(next) /\ Silent
     /\ Settles(c)
HearDelete(m) ==
  IF panel.deleting
  THEN /\ Shows([(IF m.ok THEN Cleared(panel) ELSE panel) EXCEPT !.deleting = FALSE])
       /\ calls' = IF m.ok THEN Superseded ELSE calls
       /\ Asks(<<Request("list")>>)
  ELSE UNCHANGED panelVars /\ Silent
\* An answer to a panel mounted before this one is nobody's.
HearCopy(m) ==
  /\ Shows(IF ~panel.copying THEN panel ELSE [panel EXCEPT !.logs = m.value, !.logsOf = m.folder, !.copying = FALSE])
  /\ UNCHANGED calls /\ Silent
HearList(m) ==
  /\ Shows([panel EXCEPT !.incomplete = m.value])
  /\ UNCHANGED calls /\ Silent

Hear ==
  /\ toPanel # <<>> /\ toPanel' = Tail(toPanel) /\ UNCHANGED mainVars
  /\ LET m == Head(toPanel) IN
       CASE m.type = "event" -> HearEvent(m)
         [] m.type = "state" -> ShowsAndLists(Restored(panel, m.value)) /\ UNCHANGED calls
         [] m.type = "encryption" -> HearEncryption(m)
         [] m.type = "pull" -> HearPull(m)
         [] m.type = "cancel" -> UNCHANGED panelVars /\ Silent
         [] m.type = "delete" -> HearDelete(m)
         [] m.type = "copy" -> HearCopy(m)
         [] m.type = "list" -> HearList(m)

-------------------------------------------------------------------------------
\* The app quits or crashes.
Killed ==
  /\ Fault
  /\ tracker' = NoPull /\ job' = NoJob /\ cancel' = "null" /\ copy' = NoCopy /\ del' = NoOp
  /\ toMain' = <<>> /\ toPanel' = <<>>
  /\ Shows(Unmounted) /\ calls' = [c \in Clicks |-> NoCall]
  /\ UNCHANGED <<disk, known, encrypts>>

Main == PullNext /\ UNCHANGED panelVars
Examiner ==
  \/ Mount \/ Unmount \/ SelectDevice \/ OpenDialog \/ DialogAnswers \/ TypePassword
  \/ \E c \in Clicks : ClickPull(c) \/ TurnOnClicked(c)
  \/ ConsentRefused \/ ClickCancel \/ ClickDelete \/ ClickCopyAgain
Next == Main \/ Examiner \/ Hear \/ Killed

Spec == Init /\ [][Next]_vars

\* The app's own steps go on: each of them ends by itself or has a time limit.
FairSpec == Spec /\ WF_vars(PullSteps /\ UNCHANGED panelVars)

-------------------------------------------------------------------------------
(* Properties. *)

Delivered == toMain = <<>> /\ toPanel = <<>>

\* A backup shown as pulled and verified is finished, and its pull is on record
\* as completed ("a completed pull is never reported without it").
DoneIsTrue ==
  panel.done # None => disk[panel.done].dir = "finished" /\ "completed" \in disk[panel.done].lines

\* A finished backup is evidence: no later pull, deletion or clean-up after a
\* failed pull takes it away, whatever was running when it was asked for.
FinishedIsKept ==
  \A k \in Pulls : disk[k].dir = "finished" => disk'[k].dir = "finished"

\* The folder a failed pull made is removed only once the pull is on record
\* ("so nothing is removed without a trace").
NothingRemovedUntraced ==
  \A k \in Pulls : disk[k].dir # "absent" /\ disk'[k].dir = "absent" /\ del.folder # k
    => "failed" \in disk[k].lines

\* The crash logs shown as copied are there, whole; where they are shown as not
\* copied, no copy stands that would be used ("one the record can't account for
\* is removed", iosBackupSource.ts), unless its removal failed too.
LogsShownAreThere ==
  panel.logsOf # None /\ ~panel.copying =>
    LET f == disk[panel.logsOf] IN
    /\ panel.logs = "copied" => f.rec
    /\ f.rec => f.logs = "whole" /\ (panel.logs = "copied" \/ f.kept)

\* Once a pull has started the panel no longer holds the backup password
\* (DESIGN.md section 8), whatever was typed or changed while it was starting.
PasswordGone == panel.phase = "pulling" => ~panel.password

\* With nothing under way, the panel shows neither a pull nor its cancelling:
\* "every pull ends with done or an error on the progress channel, so a panel
\* that mounted mid-pull sees it end" (deviceHandlers.ts).  The exception is a
\* pull whose folder could not be made, which ends without either.
PanelLetsGo ==
  ~Running /\ Delivered /\ job.outcome # "no_folder" => ~panel.cancelling /\ panel.phase # "pulling"

\* The main process's notes of a running pull agree, and the panel tells the truth,
\* whichever pull, copy or mount its events and answers belong to: of the backup
\* it shows as pulled, of its crash logs, of the password it holds, and of whether
\* a pull is under way.
PanelIsTrue == TypeOK /\ DoneIsTrue /\ LogsShownAreThere /\ PasswordGone /\ PanelLetsGo

\* Of the evidence and of what was done about it nothing is lost, whichever pull,
\* failure, deletion or crash comes next to it.
EvidenceIsKept == [][FinishedIsKept /\ NothingRemovedUntraced]_vars

\* A cancelled pull settles; "an unsettled pull would hold the running guard and
\* refuse every later pull" (iosBackupSource.ts).
CancelledPullEnds == cancel = "yes" ~> ~Running
================================================================================
