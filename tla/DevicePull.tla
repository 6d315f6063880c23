------------------------------ MODULE DevicePull ------------------------------
(***************************************************************************)
(* Backing up a connected iPhone, in the app's main process: the pull, the    *)
(* copy of its crash logs, the deletion of what a failed pull left, and the   *)
(* pull record beside each backup.  Requests come from the renderer's panel   *)
(* (PullPanel) in order, and answers and progress go back to it in order; a   *)
(* handler that awaits lets the others run.                                   *)
(***************************************************************************)
EXTENDS Integers, Sequences, SequencesExt

CONSTANTS
  Dests,           \* folders the examiner may choose
  MaxPulls,        \* bound: pull folders 1 .. MaxPulls, in order of their names
  MaxDestinations, \* pull folders the app remembers
  MaxFaults        \* bound: failures of the device, the disk or the tools

ASSUME DevicePullAssumption ==
  /\ MaxPulls \in Nat \ {0} /\ MaxDestinations \in Nat \ {0} /\ MaxFaults \in Nat

Pulls == 1 .. MaxPulls
None == 0
NoDest == "none"

VARIABLES
  disk,      \* pull folder -> what it holds
  known,     \* device-pull-destinations.json, newest first
  encrypts,  \* the device makes encrypted backups
  tracker,   \* PullStateTracker: the pull shown as running, or folder None
  job,       \* where pullDeviceBackup and pullBackup are
  cancel,    \* cancelRequested: "null", "no" or "yes"
  copy,      \* copyCrashReportsAgain: [pc, folder, copied]
  del,       \* deleteIncompleteBackup: [pc, folder]
  toMain,    \* requests not yet handled
  toPanel,   \* events and answers not yet received
  faults     \* failures so far

mainVars == <<disk, known, encrypts, tracker, job, cancel, copy, del, faults>>
pullVars == <<mainVars, toMain, toPanel>>

\* A pull folder: where it is; the device's folder in it; the crash logs beside
\* that, and whether their own record is there; history: whether they are a copy
\* that should have been removed and was not; and the lines of its pull record
\* that say how its pull ended.  Lines about what was removed or copied later are
\* written in steps of their own but not kept: nothing reads them back.
Unused == [dest |-> NoDest, dir |-> "absent", logs |-> "absent", rec |-> FALSE, kept |-> FALSE, lines |-> {}]
\* "failed" stands for a cancelled pull too: nothing tells the two apart.
Lines == {"completed", "failed"}

JobPlaces == {"off", "mkdir", "register", "exists", "prepare", "turn_on", "backup", "closed_0",
  "closed_1", "verify", "logs", "record", "failed", "leftover", "leftover_line", "end"}
OpPlaces == {"off", "check", "run", "line", "discard", "remove"}

\* pullBackup holds its guard, cancelRequested, from its try to its finally.
InTry == {"exists", "prepare", "turn_on", "backup", "closed_0", "closed_1", "verify", "logs", "record"}

\* The types; and the app's three notes of a pull under way agree with it: the
\* tracker shows one exactly while a handler runs one, and the guard is held
\* exactly inside pullBackup's try.
PullTypeOK ==
  /\ (tracker.folder # None) = (job.pc # "off")
  /\ (cancel # "null") = (job.pc \in InTry)
  /\ disk \in [Pulls -> [dest : Dests \cup {NoDest}, dir : {"absent", "bare", "unfinished", "finished"},
                         logs : {"absent", "partial", "whole"}, rec : BOOLEAN, kept : BOOLEAN,
                         lines : SUBSET Lines]]
  /\ ToSet(known) \subseteq Pulls /\ Len(known) <= MaxDestinations
  /\ encrypts \in BOOLEAN
  /\ tracker \in [folder : Pulls \cup {None}, stats : BOOLEAN, ended : BOOLEAN]
  /\ job \in [pc : JobPlaces, call : Nat, enable : BOOLEAN, ours : BOOLEAN,
              outcome : {"failed", "no_folder"}]
  /\ cancel \in {"null", "no", "yes"}
  /\ copy \in [pc : OpPlaces, folder : Pulls \cup {None}, copied : BOOLEAN]
  /\ del \in [pc : OpPlaces, folder : Pulls \cup {None}]
  /\ faults \in 0 .. MaxFaults

NoJob == [pc |-> "off", call |-> 0, enable |-> FALSE, ours |-> FALSE, outcome |-> "failed"]
NoPull == [folder |-> None, stats |-> FALSE, ended |-> FALSE]
NoOp == [pc |-> "off", folder |-> None]
NoCopy == [pc |-> "off", folder |-> None, copied |-> FALSE]

PullInit ==
  /\ disk = [k \in Pulls |-> Unused] /\ known = <<>> /\ encrypts \in BOOLEAN
  /\ tracker = NoPull /\ job = NoJob /\ cancel = "null" /\ copy = NoCopy /\ del = NoOp
  /\ toMain = <<>> /\ toPanel = <<>> /\ faults = 0

Fault == faults < MaxFaults /\ faults' = faults + 1
\* What q holds at the given places, in its order.
Picked(q, at) == [n \in 1 .. Cardinality(at) |-> q[CHOOSE i \in at : Cardinality({j \in at : j <= i}) = n]]
Event(what) == [type |-> "event", what |-> what]
Answer(m, ok, value) == [type |-> m.type, call |-> m.call, ok |-> ok, value |-> value]
Tell(s) == toPanel' = toPanel \o s
Quiet == UNCHANGED toPanel
Here == tracker.folder
Folder == disk[Here]
Writes(f) == disk' = [disk EXCEPT ![Here] = f]
Fresh == {k \in Pulls : disk[k] = Unused}

-------------------------------------------------------------------------------
(* The IPC handlers.  Each takes the oldest request and runs to its first await. *)

Running == tracker.folder # None

\* A second pull is refused before it makes a folder.
StartAllowed == ~Running
HandlePull(m) ==
  IF StartAllowed
  THEN \E k \in Fresh :
         /\ \A j \in Fresh : k <= j
         /\ tracker' = [NoPull EXCEPT !.folder = k]
         /\ job' = [NoJob EXCEPT !.pc = "mkdir", !.call = m.call, !.enable = m.enable]
         /\ disk' = [disk EXCEPT ![k].dest = m.dest]
         /\ Quiet /\ UNCHANGED <<known, encrypts, cancel, copy, del, faults>>
  ELSE Tell(<<Answer(m, FALSE, None)>>) /\ UNCHANGED mainVars

\* The device may be locked or unplugged.
HandleEncryption(m) ==
  /\ UNCHANGED <<disk, known, encrypts, tracker, job, cancel, copy, del>>
  /\ IF Running
     THEN Tell(<<Answer(m, FALSE, None)>>) /\ UNCHANGED faults
     ELSE \/ Tell(<<Answer(m, TRUE, encrypts)>>) /\ UNCHANGED faults
          \/ Tell(<<Answer(m, FALSE, None)>>) /\ Fault

\* Only the backup process can be cancelled.
HandleCancel(m) ==
  /\ cancel' = IF job.pc = "backup" THEN "yes" ELSE cancel
  /\ Tell(<<Answer(m, TRUE, job.pc = "backup")>>)
  /\ UNCHANGED <<disk, known, encrypts, tracker, job, copy, del, faults>>

HandleState(m) ==
  /\ Tell(<<Answer(m, TRUE, tracker)>>)
  /\ UNCHANGED mainVars

\* Incomplete backups in the remembered folders, not the one being written.
Incomplete == {k \in ToSet(known) : disk[k].dir = "unfinished" /\ k # tracker.folder}
HandleList(m) ==
  /\ Tell(<<Answer(m, TRUE, Incomplete)>>)
  /\ UNCHANGED mainVars

\* One deletion at a time: the button of the one under way is disabled.
HandleDelete(m) ==
  IF Running \/ m.folder \notin ToSet(known)
  THEN Tell(<<Answer(m, FALSE, None)>>) /\ UNCHANGED mainVars
  ELSE /\ del.pc = "off"
       /\ del' = [pc |-> "check", folder |-> m.folder]
       /\ Quiet /\ UNCHANGED <<disk, known, encrypts, tracker, job, cancel, copy, faults>>

CopyAnswer(outcome, k) == [type |-> "copy", value |-> outcome, folder |-> k]
HandleCopy(m) ==
  IF Running \/ cancel # "null" \/ copy.pc # "off"
  THEN Tell(<<CopyAnswer("failed", m.folder)>>) /\ UNCHANGED mainVars
  ELSE /\ copy' = [NoCopy EXCEPT !.pc = "check", !.folder = m.folder]
       /\ Quiet /\ UNCHANGED <<disk, known, encrypts, tracker, job, cancel, del, faults>>

Handle ==
  /\ toMain # <<>> /\ toMain' = Tail(toMain)
  /\ LET m == Head(toMain) IN
       \/ m.type = "pull" /\ HandlePull(m)
       \/ m.type = "encryption" /\ HandleEncryption(m)
       \/ m.type = "cancel" /\ HandleCancel(m)
       \/ m.type = "state" /\ HandleState(m)
       \/ m.type = "list" /\ HandleList(m)
       \/ m.type = "delete" /\ HandleDelete(m)
       \/ m.type = "copy" /\ HandleCopy(m)

-------------------------------------------------------------------------------
(* The pull.  Goes(a, b): the step at a goes on to b. *)

Goes(a, b) == job.pc = a /\ job' = [job EXCEPT !.pc = b]
Sure == UNCHANGED faults
PullOnly == UNCHANGED <<copy, del, toMain>>
Elsewhere == UNCHANGED <<known, encrypts>> /\ PullOnly
Stays == UNCHANGED <<disk, tracker, cancel>> /\ Elsewhere
PullAnswer(ok) == [type |-> "pull", call |-> job.call, ok |-> ok, value |-> Here]

\* The folder of its own is made and remembered; a failure leaves no trace.
MakeFolder == Goes("mkdir", "register") /\ Sure /\ Quiet /\ Stays
Remember(k) == LET next == <<k>> \o Picked(known, {i \in DOMAIN known : known[i] # k})
               IN SubSeq(next, 1, IF Len(next) < MaxDestinations THEN Len(next) ELSE MaxDestinations)
\* pullBackup follows, which refuses while crash logs are being copied.
Register ==
  /\ job.pc = "register"
  /\ known' = Remember(Here)
  /\ IF copy.pc # "off"
     THEN job' = [job EXCEPT !.pc = "end"] /\ UNCHANGED cancel
     ELSE job' = [job EXCEPT !.pc = "exists"] /\ cancel' = "no"
  /\ Sure /\ Quiet /\ UNCHANGED <<disk, tracker, encrypts>> /\ PullOnly
MakeOrRegisterFails ==
  /\ job.pc \in {"mkdir", "register"}
  /\ Fault /\ job' = [NoJob EXCEPT !.outcome = "no_folder"] /\ tracker' = NoPull
  /\ Writes(Unused)
  /\ Tell(<<PullAnswer(FALSE)>>)
  /\ UNCHANGED cancel /\ Elsewhere

\* A throw after the pull's try has begun: catch, then finally to its first
\* await.  fail() reports the error on the progress channel, a throw does not.
Threw(reported) ==
  /\ job' = [job EXCEPT !.pc = "failed"]
  /\ cancel' = "null"
  /\ tracker' = [tracker EXCEPT !.ended = @ \/ reported]
  /\ IF reported THEN Tell(<<Event("error")>>) ELSE Quiet
Fails(reported) == Threw(reported) /\ UNCHANGED disk /\ Elsewhere

\* Anything in the device's folder from here on is this pull's.
Exists ==
  /\ job.pc = "exists"
  /\ IF Folder.dir = "absent"
     THEN job' = [job EXCEPT !.pc = "prepare", !.ours = TRUE] /\ Quiet /\ Stays
     ELSE Fails(TRUE)
  /\ Sure
CheckFails ==
  /\ job.pc \in {"exists", "verify"}
  /\ Fault /\ Fails(FALSE)

\* runBackup: the process is spawned, and its first figures shown.
Starts ==
  /\ job' = [job EXCEPT !.pc = "backup"]
  /\ tracker' = [tracker EXCEPT !.stats = TRUE]
  /\ Tell(<<Event("stats")>>)
  /\ UNCHANGED <<disk, cancel, known>> /\ PullOnly
\* The space check, then the device's setting: on, or off with or without the
\* examiner's consent to turn it on.
Prepare ==
  /\ job.pc = "prepare" /\ Sure
  /\ CASE encrypts -> Starts /\ UNCHANGED encrypts
       [] ~encrypts /\ job.enable -> Goes("prepare", "turn_on") /\ Quiet /\ Stays
       [] OTHER -> Fails(TRUE)
PrepareFails == job.pc = "prepare" /\ Fault /\ \E reported \in BOOLEAN : Fails(reported)
TurnOn ==
  /\ job.pc = "turn_on" /\ Sure
  /\ encrypts' = TRUE /\ Starts
\* Refused on the device or not answered in time; the setting may be on since.
TurnOnFails ==
  /\ job.pc = "turn_on"
  /\ Fault /\ Threw(TRUE)
  /\ encrypts' \in BOOLEAN
  /\ UNCHANGED <<disk, known>> /\ PullOnly

\* idevicebackup2 makes the folder, writes, and marks the snapshot finished.
ToolWrites ==
  /\ job.pc = "backup"
  /\ \E d \in CASE Folder.dir = "absent" -> {"bare"}
                [] Folder.dir = "bare" -> {"unfinished"}
                [] Folder.dir = "unfinished" -> {"finished"}
                [] OTHER -> {} :
       Writes([Folder EXCEPT !.dir = d])
  /\ UNCHANGED <<job, tracker, cancel>> /\ Sure /\ Quiet /\ Elsewhere
\* It exits with 0, having finished unless it lies, or otherwise; SIGINT, and
\* SIGKILL after CANCEL_GRACE_MS, end it once the pull is cancelled.
ToolExits ==
  /\ job.pc = "backup"
  /\ \/ Folder.dir = "finished" /\ Goes("backup", "closed_0") /\ Sure
     \/ Folder.dir # "finished" /\ Goes("backup", "closed_0") /\ Fault
     \/ Goes("backup", "closed_1") /\ (IF cancel = "yes" THEN Sure ELSE Fault)
  /\ Quiet /\ Stays
\* The close handler, after it has measured the folder.
ClosedWell == job.pc = "closed_0" \* slip: only exit code 0 settles the promise
Closed == job.pc \in {"closed_0", "closed_1"}
Settled == job.pc = "closed_0" /\ cancel # "yes"
Settle ==
  /\ Closed
  /\ Sure
  /\ IF Settled THEN job' = [job EXCEPT !.pc = "verify"] /\ Quiet /\ Stays ELSE Fails(TRUE)

\* Success is what the backup's own Status.plist and Manifest.db say.
VerifiedByExit(f) == f.dir # "absent" \* slip: a backup folder is enough
Verified(f) == f.dir = "finished"
\* copyCrashReports: refused where a copy or its record exists; a copy that
\* does not finish (the device is locked, which is no fault here) removes its
\* folder, unless that fails too; its record is written last.
LogsLocked(f) == [f EXCEPT !.logs = "absent"]
LogsTorn(f) == f
MakeLogs(f) == [f EXCEPT !.logs = "partial"]
CopyLogs(f) == [f EXCEPT !.logs = "whole", !.rec = TRUE]
NoLogs(f) == f.logs = "absent" /\ ~f.rec

\* The copy is unavailable, or its folder cannot be made.
Verify ==
  /\ job.pc = "verify"
  /\ \/ /\ ~Verified(Folder) /\ Sure /\ Fails(TRUE)
     \/ /\ Verified(Folder) /\ NoLogs(Folder) /\ Sure
        /\ Goes("verify", "logs") /\ Writes(MakeLogs(Folder))
        /\ UNCHANGED <<tracker, cancel>> /\ Quiet /\ Elsewhere
     \/ /\ Verified(Folder) /\ Fault
        /\ Goes("verify", "record") /\ Quiet /\ Stays
Logs ==
  /\ Goes("logs", "record")
  /\ \/ Writes(CopyLogs(Folder)) /\ Sure
     \/ Writes(LogsLocked(Folder)) /\ Sure
     \/ Writes(LogsTorn(Folder)) /\ Fault
  /\ UNCHANGED <<tracker, cancel>> /\ Quiet /\ Elsewhere

\* The record comes before "done": a completed pull is never reported without it.
Record ==
  /\ job.pc = "record"
  /\ Writes([Folder EXCEPT !.lines = @ \cup {"completed"}])
  /\ job' = NoJob /\ tracker' = NoPull /\ cancel' = "null"
  /\ Tell(<<[type |-> "event", what |-> "done", folder |-> Here, logs |-> Folder.rec], PullAnswer(TRUE)>>)
  /\ Sure /\ Elsewhere
RecordFails ==
  /\ Goes("record", "end")
  /\ Fault /\ cancel' = "null"
  /\ tracker' = [tracker EXCEPT !.ended = TRUE] /\ Tell(<<Event("error")>>)
  /\ UNCHANGED disk /\ Elsewhere

\* finally: the pull is recorded, then a folder of its own without backup data
\* is removed, and that is recorded.
RecordFailure ==
  /\ job.pc = "failed"
  /\ \/ /\ Writes([Folder EXCEPT !.lines = @ \cup {"failed"}])
        /\ job' = [job EXCEPT !.pc = IF job.ours THEN "leftover" ELSE "end"] /\ Sure
     \/ Goes("failed", "end") /\ Fault /\ UNCHANGED disk
  /\ UNCHANGED <<tracker, cancel>> /\ Quiet /\ Elsewhere
RemovableAny(f) == f.dir # "absent" \* slip: the snapshot's state is not looked at
Removable(f) == f.dir = "bare"
Leftover ==
  /\ job.pc = "leftover"
  /\ IF Removable(Folder)
     THEN Goes("leftover", "leftover_line") /\ Writes([Folder EXCEPT !.dir = "absent"])
     ELSE Goes("leftover", "end") /\ UNCHANGED disk
  /\ Sure /\ UNCHANGED <<tracker, cancel>> /\ Quiet /\ Elsewhere
LeftoverFails ==
  /\ job.pc \in {"leftover", "leftover_line"}
  /\ Fault /\ job' = [job EXCEPT !.pc = "end"] /\ Quiet /\ Stays
LeftoverLine ==
  /\ Goes("leftover_line", "end")
  /\ Sure /\ Quiet /\ Stays

\* The handler sees to it that a failed pull ends with an error event.
End ==
  /\ job.pc = "end"
  /\ Tell((IF ~tracker.ended THEN <<Event("error")>> ELSE <<>>) \o <<PullAnswer(FALSE)>>)
  /\ job' = NoJob /\ tracker' = NoPull
  /\ UNCHANGED <<disk, cancel>> /\ Sure /\ Elsewhere

-------------------------------------------------------------------------------
(* Crash logs copied again for a finished backup. *)

CopyGoes(a, b, copied) == copy.pc = a /\ copy' = [copy EXCEPT !.pc = b, !.copied = copied]
CopyEnds(ok) ==
  /\ copy' = NoCopy
  /\ Tell(<<CopyAnswer(IF ok THEN "copied" ELSE "failed", copy.folder)>>)
CopyWrites(f) == disk' = [disk EXCEPT ![copy.folder] = f]
CopyStays == UNCHANGED <<known, encrypts, tracker, job, cancel, del, toMain>>
Copied == disk[copy.folder]

\* The backup must be finished and of the device connected; copyCrashReports
\* then begins, or fails before it has made its folder.
CopyCheck ==
  /\ copy.pc = "check" /\ CopyStays
  /\ \/ /\ Verified(Copied) /\ NoLogs(Copied)
        /\ CopyGoes("check", "run", FALSE) /\ CopyWrites(MakeLogs(Copied)) /\ Sure /\ Quiet
     \/ /\ Verified(Copied) /\ UNCHANGED disk
        /\ CopyGoes("check", "line", FALSE) /\ (IF NoLogs(Copied) THEN Fault ELSE Sure) /\ Quiet
     \/ UNCHANGED disk /\ CopyEnds(FALSE) /\ (IF Verified(Copied) THEN Fault ELSE Sure)
CopyRun ==
  /\ copy.pc = "run" /\ CopyStays /\ Quiet
  /\ \/ CopyGoes("run", "line", TRUE) /\ CopyWrites(CopyLogs(Copied)) /\ Sure
     \/ CopyGoes("run", "line", FALSE) /\ CopyWrites(LogsLocked(Copied)) /\ Sure
     \/ CopyGoes("run", "line", FALSE) /\ CopyWrites(LogsTorn(Copied)) /\ Fault
\* Its line in the pull record, also of a failed copy.  Where that cannot be
\* written, a copy made is taken back.
CopyLine ==
  /\ copy.pc = "line" /\ CopyStays /\ UNCHANGED disk
  /\ \/ CopyEnds(copy.copied) /\ Sure
     \/ /\ Fault
        /\ IF copy.copied THEN CopyGoes("line", "discard", TRUE) /\ Quiet ELSE CopyEnds(FALSE)
\* Its record first, then the folder; what keeps the line from being written may
\* keep either from being removed, of which the answer's error tells.
Discarded(f) == {[f EXCEPT !.rec = FALSE, !.logs = "absent"], [f EXCEPT !.rec = FALSE], [f EXCEPT !.kept = TRUE]}
CopyDiscard ==
  /\ copy.pc = "discard" /\ CopyStays
  /\ \E f \in Discarded(Copied) : CopyWrites(f) /\ Sure
  /\ CopyEnds(FALSE)

-------------------------------------------------------------------------------
(* An incomplete backup deleted, after checking again that it is incomplete. *)

DelEnds(ok) == del' = NoOp /\ Tell(<<[type |-> "delete", call |-> 0, ok |-> ok, value |-> del.folder]>>)
DelStays == UNCHANGED <<known, encrypts, tracker, job, cancel, copy, toMain>>
Deleted == disk[del.folder]
Deletable(f) == f.dir = "unfinished"
DeleteCheck ==
  /\ del.pc = "check" /\ UNCHANGED disk /\ DelStays
  /\ IF job.pc = "backup" \/ ~Deletable(Deleted)
     THEN DelEnds(FALSE) /\ Sure
     ELSE \/ del' = [del EXCEPT !.pc = "remove"] /\ Sure /\ Quiet
          \/ Fault /\ DelEnds(FALSE)
DeleteRemove ==
  /\ del.pc = "remove" /\ DelStays
  /\ del' = [del EXCEPT !.pc = "line"] /\ Sure /\ Quiet
  /\ disk' = [disk EXCEPT ![del.folder] = [Deleted EXCEPT !.dir = "absent"]]
DeleteLine ==
  /\ del.pc = "line" /\ DelStays /\ UNCHANGED disk
  /\ \/ DelEnds(TRUE) /\ Sure
     \/ Fault /\ DelEnds(FALSE)

-------------------------------------------------------------------------------
\* The steps the app takes by itself; the backup's own end is the device's.
PullSteps ==
  \/ MakeFolder \/ Register \/ Exists \/ Prepare \/ TurnOn \/ Settle \/ Verify
  \/ Logs \/ Record \/ RecordFailure \/ Leftover \/ LeftoverLine \/ End
  \/ (cancel = "yes" /\ ToolExits)
PullFailures ==
  \/ MakeOrRegisterFails \/ CheckFails \/ PrepareFails \/ TurnOnFails \/ RecordFails \/ LeftoverFails
CopySteps == CopyCheck \/ CopyRun \/ CopyLine \/ CopyDiscard
DeleteSteps == DeleteCheck \/ DeleteRemove \/ DeleteLine

PullNext == Handle \/ PullSteps \/ ToolWrites \/ ToolExits \/ PullFailures \/ CopySteps \/ DeleteSteps
================================================================================
