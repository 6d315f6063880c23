--------------------------- MODULE DeviceImportProofs ---------------------------
(* That no evidence is lost and nothing is removed without a trace, for any     *)
(* number of pulls, destinations, clicks and faults; and that the guided setup   *)
(* can always resume what was interrupted and never passes off half a folder as  *)
(* the tools, for any libraries, releases and versions of the app; and that what *)
(* the panel shows is so, whatever the order its events and answers arrive in.   *)
EXTENDS DeviceImport, SequenceTheorems, WellFoundedInduction, FiniteSetTheorems, TLAPS

Early == {"mkdir", "register", "exists", "prepare", "turn_on"}
Clearing == {"leftover", "leftover_line"}
TracesOf(f) == f.lines \cap {"failed"}

\* The fields a step updates are there.
Typed ==
  /\ DOMAIN disk = Pulls /\ \A k \in Pulls : DOMAIN disk[k] = {"dest", "dir", "logs", "rec", "kept", "lines"}
  /\ DOMAIN tracker = {"folder", "stats", "ended"} /\ tracker.folder \in Pulls \cup {None}
  /\ DOMAIN job = {"pc", "call", "enable", "ours", "outcome"} /\ DOMAIN del = {"pc", "folder"}

\* A pull has a folder, empty until the tool runs; what it leaves is cleared
\* only after its end is on record.
JobKnown ==
  /\ job.pc \in JobPlaces /\ job.outcome \in {"failed", "no_folder"}
  /\ (tracker.folder # None) = (job.pc # "off")
  /\ job.pc # "off" => job.outcome # "no_folder"
  /\ job.pc \in Early => disk[Here].dir = "absent"
  /\ job.pc \in Clearing => TracesOf(disk[Here]) # {}
\* What is about to be deleted is still incomplete, and no tool writes to it.
DeleteKnown ==
  del.pc = "remove" /\ del.folder \in Pulls =>
    /\ disk[del.folder].dir = "unfinished"
    /\ del.folder = tracker.folder => job.pc \notin Early \cup {"backup"}
IInv == Typed /\ JobKnown /\ DeleteKnown

Kept == FinishedIsKept /\ NothingRemovedUntraced

\* Nothing is known or removed at first.
LEMMA InitIInv == Init => IInv
<1> SUFFICES ASSUME Init PROVE IInv OBVIOUS
<1> USE DEF Init, PullInit, NoPull, NoJob, NoOp, Unused
<1>1. Typed BY DEF Typed
<1>2. JobKnown BY DEF JobKnown, JobPlaces, Early, Clearing
<1>3. DeleteKnown BY DEF DeleteKnown
<1> QED BY <1>1, <1>2, <1>3 DEF IInv

-------------------------------------------------------------------------------
(* Steps that change no device folder. *)

\* A folder's own field is updated; the device's folder in it stays.
SameFolders ==
  /\ DOMAIN disk' = Pulls
  /\ \A k \in Pulls : /\ DOMAIN disk'[k] = {"dest", "dir", "logs", "rec", "kept", "lines"}
                      /\ disk'[k].dir = disk[k].dir /\ disk[k].lines \subseteq disk'[k].lines

LEMMA SameIsKept == ASSUME SameFolders PROVE Kept
BY DEF SameFolders, Kept, FinishedIsKept, NothingRemovedUntraced

\* The pull goes on, in the order of its places.
JobGoes ==
  /\ DOMAIN tracker' = {"folder", "stats", "ended"} /\ tracker'.folder = tracker.folder
  /\ DOMAIN job' = {"pc", "call", "enable", "ours", "outcome"} /\ job'.pc \in JobPlaces \ {"off"}
  /\ job'.outcome = "failed" /\ job.pc # "off"
  /\ job'.pc \in Early => job.pc \in Early
  /\ job'.pc = "backup" => job.pc \in Early \cup {"backup"}
  /\ job'.pc \in Clearing => job.pc \in Clearing \/ TracesOf(disk'[Here]) # {}
JobEnds ==
  /\ DOMAIN tracker' = {"folder", "stats", "ended"} /\ tracker'.folder = None
  /\ DOMAIN job' = {"pc", "call", "enable", "ours", "outcome"} /\ job'.pc = "off"
  /\ job'.outcome \in {"failed", "no_folder"}

LEMMA JobStep ==
  ASSUME IInv, SameFolders, del' = del, JobGoes \/ JobEnds \/ (job' = job /\ tracker' = tracker)
  PROVE  IInv' /\ Kept
<1>1. Typed' BY DEF IInv, Typed, SameFolders, JobGoes, JobEnds
<1>2. job.pc # "off" => Here \in Pulls BY DEF IInv, Typed, JobKnown, Here
<1>3. CASE JobGoes
  <2>1. JobKnown' BY <1>2, <1>3 DEF IInv, JobKnown, JobGoes, SameFolders, TracesOf, Here, JobPlaces
  <2>2. DeleteKnown' BY <1>3 DEF IInv, DeleteKnown, JobGoes, SameFolders, Early
  <2> QED BY <1>1, <2>1, <2>2, SameIsKept DEF IInv
<1>4. CASE JobEnds
  <2>1. JobKnown' BY <1>4 DEF JobKnown, JobEnds, JobPlaces, Early, Clearing
  <2>2. DeleteKnown' BY <1>4 DEF IInv, DeleteKnown, JobEnds, SameFolders, Early
  <2> QED BY <1>1, <2>1, <2>2, SameIsKept DEF IInv
<1>5. CASE job' = job /\ tracker' = tracker
  <2>1. JobKnown' BY <1>2, <1>5 DEF IInv, JobKnown, SameFolders, TracesOf, Here, Early, Clearing
  <2>2. DeleteKnown' BY <1>5 DEF IInv, DeleteKnown, SameFolders
  <2> QED BY <1>1, <2>1, <2>2, SameIsKept DEF IInv
<1> QED BY <1>3, <1>4, <1>5

\* A step that writes one folder's own fields, or none.
LEMMA OneFolder ==
  ASSUME Typed, NEW k, NEW f, disk' = [disk EXCEPT ![k] = f],
         k \in Pulls => /\ DOMAIN f = {"dest", "dir", "logs", "rec", "kept", "lines"}
                        /\ f.dir = disk[k].dir /\ disk[k].lines \subseteq f.lines
  PROVE  SameFolders
BY DEF Typed, SameFolders

LEMMA NoFolder == ASSUME Typed, disk' = disk PROVE SameFolders
BY DEF Typed, SameFolders

\* What writing crash logs or a line makes of a folder.
OwnFields(f, g) ==
  DOMAIN g = {"dest", "dir", "logs", "rec", "kept", "lines"} /\ g.dir = f.dir /\ f.lines \subseteq g.lines
LEMMA LogsAreOwnFields ==
  ASSUME NEW f, DOMAIN f = {"dest", "dir", "logs", "rec", "kept", "lines"}
  PROVE  /\ \A g \in {LogsLocked(f), LogsTorn(f), MakeLogs(f), CopyLogs(f)} \cup Discarded(f) : OwnFields(f, g)
         /\ \A line : OwnFields(f, [f EXCEPT !.lines = @ \cup {line}])
BY DEF OwnFields, LogsLocked, LogsTorn, MakeLogs, CopyLogs, Discarded

-------------------------------------------------------------------------------
(* The pull. *)

\* Steps of the pull that leave every folder as it is.
LEMMA JobOnly ==
  ASSUME IInv,
         \/ MakeFolder \/ Register \/ Exists \/ CheckFails \/ Prepare \/ PrepareFails \/ TurnOn \/ TurnOnFails
         \/ ToolExits \/ Settle \/ RecordFails \/ LeftoverFails \/ LeftoverLine \/ End
  PROVE  IInv' /\ Kept
<1> USE DEF Stays, Elsewhere, PullOnly, Goes
<1>1. disk' = disk /\ del' = del
  BY DEF MakeFolder, Register, Exists, CheckFails, Prepare, PrepareFails, TurnOn, TurnOnFails, ToolExits, Settle,
         RecordFails, LeftoverFails, LeftoverLine, End, Fails, Threw, Starts
<1>2. SameFolders BY <1>1, NoFolder DEF IInv
<1>3. /\ DOMAIN tracker = {"folder", "stats", "ended"}
      /\ DOMAIN job = {"pc", "call", "enable", "ours", "outcome"}
      /\ job.pc # "off" => job.outcome = "failed"
  BY DEF IInv, Typed, JobKnown
<1>4. CASE End
  <2>1. JobEnds BY <1>4 DEF End, JobEnds, NoJob, NoPull
  <2> QED BY <1>1, <1>2, <2>1, JobStep
<1> USE <1>3 DEF JobGoes, Early, Clearing, JobPlaces
<1>5. ASSUME NEW reported \in BOOLEAN, Threw(reported), job.pc # "off"
      PROVE  JobGoes
  BY <1>5 DEF Threw
<1>6. ASSUME NEW reported \in BOOLEAN, Fails(reported), job.pc # "off" PROVE JobGoes
  BY <1>5, <1>6 DEF Fails
<1>7. CASE MakeFolder \/ LeftoverFails \/ LeftoverLine
  BY <1>7, <1>1, <1>2, JobStep DEF MakeFolder, LeftoverFails, LeftoverLine
<1>8. CASE Register BY <1>8, <1>1, <1>2, JobStep DEF Register
<1>9. CASE Exists
  <2>1. JobGoes BY <1>6, <1>9 DEF Exists
  <2> QED BY <2>1, <1>1, <1>2, JobStep
<1>10. CASE CheckFails \/ PrepareFails \/ TurnOnFails
  <2>1. JobGoes BY <1>5, <1>6, <1>10 DEF CheckFails, PrepareFails, TurnOnFails
  <2> QED BY <2>1, <1>1, <1>2, JobStep
<1>11. CASE Prepare
  <2>1. JobGoes BY <1>6, <1>11 DEF Prepare, Starts
  <2> QED BY <2>1, <1>1, <1>2, JobStep
<1>12. CASE TurnOn
  <2>1. JobGoes BY <1>12 DEF TurnOn, Starts
  <2> QED BY <2>1, <1>1, <1>2, JobStep
<1>13. CASE ToolExits
  <2>1. JobGoes BY <1>13 DEF ToolExits
  <2> QED BY <2>1, <1>1, <1>2, JobStep
<1>14. CASE Settle
  <2>1. JobGoes BY <1>6, <1>14 DEF Settle, Closed
  <2> QED BY <2>1, <1>1, <1>2, JobStep
<1>15. CASE RecordFails
  <2>1. JobGoes BY <1>15 DEF RecordFails
  <2> QED BY <2>1, <1>1, <1>2, JobStep
<1> QED BY <1>4, <1>7, <1>8, <1>9, <1>10, <1>11, <1>12, <1>13, <1>14, <1>15

\* Steps of the pull that write crash logs or how it ended.
LEMMA JobWrites ==
  ASSUME IInv, Verify \/ Logs \/ Record \/ RecordFailure
  PROVE  IInv' /\ Kept
<1>1. /\ DOMAIN tracker = {"folder", "stats", "ended"}
      /\ DOMAIN job = {"pc", "call", "enable", "ours", "outcome"}
      /\ job.pc # "off" => job.outcome = "failed" /\ Here \in Pulls
      /\ Here \in Pulls => DOMAIN Folder = {"dest", "dir", "logs", "rec", "kept", "lines"}
  BY DEF IInv, Typed, JobKnown, Here, Folder
<1>2. del' = del
  BY DEF Verify, Logs, Record, RecordFailure, Fails, Stays, Elsewhere, PullOnly
<1>3. ASSUME NEW f, Writes(f), Here \in Pulls => OwnFields(Folder, f) PROVE SameFolders
  BY <1>3, OneFolder DEF IInv, Writes, OwnFields, Folder
<1>4. disk' = disk => SameFolders BY NoFolder DEF IInv
<1>5. /\ Here \in Pulls => \A g \in {LogsLocked(Folder), LogsTorn(Folder), MakeLogs(Folder), CopyLogs(Folder)} :
           OwnFields(Folder, g)
      /\ \A line : Here \in Pulls => OwnFields(Folder, [Folder EXCEPT !.lines = @ \cup {line}])
  BY <1>1, LogsAreOwnFields
<1> USE DEF Goes, Early, Clearing, JobPlaces
<1>6. CASE Verify
  <2>1. SameFolders BY <1>3, <1>4, <1>5, <1>6 DEF Verify, Fails, Stays
  <2>2. JobGoes BY <1>1, <1>6, ZenonT(30) DEF Verify, Fails, Threw, JobGoes, Stays
  <2> QED BY <1>2, <2>1, <2>2, JobStep
<1>7. CASE Logs
  <2>1. SameFolders BY <1>3, <1>5, <1>7 DEF Logs
  <2>2. JobGoes BY <1>1, <1>7 DEF Logs, JobGoes
  <2> QED BY <1>2, <2>1, <2>2, JobStep
<1>8. CASE Record
  <2>1. SameFolders BY <1>3, <1>5, <1>8 DEF Record
  <2>2. JobEnds BY <1>8 DEF Record, JobEnds, NoJob, NoPull
  <2> QED BY <1>2, <2>1, <2>2, JobStep
<1>9. CASE RecordFailure
  <2>1. SameFolders BY <1>3, <1>4, <1>5, <1>9 DEF RecordFailure
  <2>2. ASSUME Writes([Folder EXCEPT !.lines = @ \cup {"failed"}]), job.pc = "failed" PROVE TracesOf(disk'[Here]) # {}
    <3>1. disk'[Here] = [Folder EXCEPT !.lines = @ \cup {"failed"}]
      BY <1>1, <2>2 DEF Writes, IInv, Typed
    <3>2. "failed" \in disk'[Here].lines BY <1>1, <2>2, <3>1
    <3> QED BY <1>1, <2>2, <3>2 DEF TracesOf
  <2>3. JobGoes
    <3>1. CASE /\ Writes([Folder EXCEPT !.lines = @ \cup {"failed"}])
               /\ job' = [job EXCEPT !.pc = IF job.ours THEN "leftover" ELSE "end"]
      BY <1>1, <1>9, <2>2, <3>1 DEF RecordFailure, JobGoes
    <3>2. CASE Goes("failed", "end") BY <1>1, <1>9, <3>2 DEF RecordFailure, JobGoes
    <3> QED BY <1>9, <3>1, <3>2 DEF RecordFailure
  <2> QED BY <1>2, <2>1, <2>3, JobStep
<1> QED BY <1>6, <1>7, <1>8, <1>9

\* What the step of one pull makes of its own device folder, all others staying.
LEMMA HereOnly ==
  ASSUME IInv, job.pc # "off", NEW f, Writes(f)
  PROVE  Here \in Pulls /\ DOMAIN disk' = Pulls /\ disk'[Here] = f /\ \A k \in Pulls \ {Here} : disk'[k] = disk[k]
BY DEF IInv, Typed, JobKnown, Here, Writes

\* The tool writes to a folder nobody deletes, and never to a finished one.
LEMMA ToolWritesIInv == ASSUME IInv, ToolWrites PROVE IInv' /\ Kept
<1>1. UNCHANGED <<job, tracker, del>> /\ job.pc = "backup" BY DEF ToolWrites, Elsewhere, PullOnly
<1>2. PICK d \in {"bare", "unfinished", "finished"} : Writes([Folder EXCEPT !.dir = d]) BY DEF ToolWrites
<1>3. Folder.dir # "finished" BY DEF ToolWrites
<1> DEFINE f == [Folder EXCEPT !.dir = d]
<1>4. Here \in Pulls /\ DOMAIN disk' = Pulls /\ disk'[Here] = f /\ \A k \in Pulls \ {Here} : disk'[k] = disk[k]
  BY <1>1, <1>2, HereOnly
<1>5. DOMAIN f = {"dest", "dir", "logs", "rec", "kept", "lines"} /\ f.dir = d BY <1>4 DEF IInv, Typed, Folder
<1> HIDE DEF f
<1>6. Typed' BY <1>1, <1>4, <1>5 DEF IInv, Typed
<1>7. JobKnown' BY <1>1 DEF IInv, JobKnown, Early, Clearing
<1>8. DeleteKnown' BY <1>1, <1>4 DEF IInv, DeleteKnown, Here
<1>9. Kept BY <1>3, <1>4, <1>5 DEF Kept, FinishedIsKept, NothingRemovedUntraced, Folder
<1> QED BY <1>6, <1>7, <1>8, <1>9 DEF IInv

\* The folder of a failed pull goes after its end was recorded, and only if bare.
LEMMA LeftoverIInv == ASSUME IInv, Leftover PROVE IInv' /\ Kept
<1>1. /\ UNCHANGED <<tracker, del>> /\ job.pc = "leftover"
      /\ job' = [job EXCEPT !.pc = IF Removable(Folder) THEN "leftover_line" ELSE "end"]
  BY DEF Leftover, Elsewhere, PullOnly, Goes
<1>2. /\ DOMAIN job' = DOMAIN job /\ job'.pc \in {"leftover_line", "end"} /\ job'.outcome = job.outcome
  BY <1>1 DEF IInv, Typed
<1>3. CASE Removable(Folder)
  <2> DEFINE f == [Folder EXCEPT !.dir = "absent"]
  <2>1. Writes(f) BY <1>3 DEF Leftover
  <2>2. Here \in Pulls /\ DOMAIN disk' = Pulls /\ disk'[Here] = f /\ \A k \in Pulls \ {Here} : disk'[k] = disk[k]
    BY <1>1, <2>1, HereOnly
  <2>3. DOMAIN f = {"dest", "dir", "logs", "rec", "kept", "lines"} /\ f.dir = "absent" /\ f.lines = Folder.lines
    BY <2>2 DEF IInv, Typed, Folder
  <2> HIDE DEF f
  <2>4. Folder.dir = "bare" /\ TracesOf(Folder) # {} BY <1>1, <1>3 DEF Removable, IInv, JobKnown, Clearing, Folder
  <2>5. Typed' BY <1>1, <1>2, <2>2, <2>3 DEF IInv, Typed
  <2>6. JobKnown'
    BY <1>1, <1>2, <2>2, <2>3, <2>4 DEF IInv, JobKnown, JobPlaces, Early, Clearing, TracesOf, Here, Folder
  <2>7. DeleteKnown' BY <1>1, <1>2, <2>2, <2>4 DEF IInv, DeleteKnown, Here, Folder, Early
  <2>8. Kept BY <2>2, <2>3, <2>4 DEF Kept, FinishedIsKept, NothingRemovedUntraced, Folder, TracesOf
  <2> QED BY <2>5, <2>6, <2>7, <2>8 DEF IInv
<1>4. CASE ~Removable(Folder)
  <2>1. SameFolders BY <1>4, NoFolder DEF Leftover, IInv
  <2>2. JobGoes BY <1>1, <1>2 DEF JobGoes, IInv, Typed, JobKnown, JobPlaces, Early, Clearing
  <2> QED BY <1>1, <2>1, <2>2, JobStep
<1> QED BY <1>3, <1>4

\* A pull whose folder could not be made or remembered leaves nothing, and had nothing.
LEMMA NoFolderIInv == ASSUME IInv, MakeOrRegisterFails PROVE IInv' /\ Kept
<1>1. /\ del' = del /\ job.pc \in {"mkdir", "register"} /\ tracker' = NoPull /\ Writes(Unused)
      /\ job' = [NoJob EXCEPT !.outcome = "no_folder"]
  BY DEF MakeOrRegisterFails, Elsewhere, PullOnly
<1>2. Here \in Pulls /\ DOMAIN disk' = Pulls /\ disk'[Here] = Unused /\ \A k \in Pulls \ {Here} : disk'[k] = disk[k]
  BY <1>1, HereOnly
<1>3. Folder.dir = "absent" /\ Unused.dir = "absent" BY <1>1 DEF IInv, JobKnown, Early, Folder, Unused
<1>4. Typed' BY <1>1, <1>2 DEF IInv, Typed, Unused, NoJob, NoPull
<1>5. JobKnown' BY <1>1 DEF JobKnown, NoJob, NoPull, JobPlaces, Early, Clearing
<1>6. DeleteKnown' BY <1>1, <1>2, <1>3 DEF IInv, DeleteKnown, Here, Folder, NoJob, Early
<1>7. Kept BY <1>2, <1>3 DEF Kept, FinishedIsKept, NothingRemovedUntraced, Folder
<1> QED BY <1>4, <1>5, <1>6, <1>7 DEF IInv

-------------------------------------------------------------------------------
(* Copies, deletions and requests. *)

LEMMA CopyIInv == ASSUME IInv, CopySteps PROVE IInv' /\ Kept
<1>1. UNCHANGED <<job, tracker, del>> BY DEF CopySteps, CopyCheck, CopyRun, CopyLine, CopyDiscard, CopyStays
<1>2. ASSUME NEW f, CopyWrites(f), copy.folder \in Pulls => OwnFields(Copied, f) PROVE SameFolders
  BY <1>2, OneFolder DEF IInv, CopyWrites, OwnFields, Copied
<1>3. disk' = disk => SameFolders BY NoFolder DEF IInv
<1>4. /\ copy.folder \in Pulls =>
           \A g \in {LogsLocked(Copied), LogsTorn(Copied), MakeLogs(Copied), CopyLogs(Copied)} \cup Discarded(Copied) :
             OwnFields(Copied, g)
      /\ \A line : copy.folder \in Pulls => OwnFields(Copied, [Copied EXCEPT !.lines = @ \cup {line}])
  BY LogsAreOwnFields DEF IInv, Typed, Copied
<1>5. SameFolders
  <2>1. CASE CopyCheck BY <2>1, <1>2, <1>3, <1>4 DEF CopyCheck
  <2>2. CASE CopyRun BY <2>2, <1>2, <1>4 DEF CopyRun
  <2>3. CASE CopyLine BY <2>3, <1>3 DEF CopyLine
  <2>4. CASE CopyDiscard BY <2>4, <1>2, <1>4 DEF CopyDiscard
  <2> QED BY <2>1, <2>2, <2>3, <2>4 DEF CopySteps
<1> QED BY <1>1, <1>5, JobStep

\* A folder is looked at again before it is deleted, while no tool writes, and
\* none begins to write there before it has gone.
LEMMA DeleteIInv == ASSUME IInv, DeleteSteps PROVE IInv' /\ Kept
<1>1. UNCHANGED <<job, tracker>> BY DEF DeleteSteps, DeleteCheck, DeleteRemove, DeleteLine, DelStays
<1>2. CASE DeleteCheck
  <2>1. SameFolders /\ disk' = disk BY <1>2, NoFolder DEF DeleteCheck, IInv
  <2>2. \/ del' = NoOp
        \/ del' = [del EXCEPT !.pc = "remove"] /\ job.pc # "backup" /\ Deleted.dir = "unfinished"
    BY <1>2 DEF DeleteCheck, DelEnds, Deletable
  <2>3. DOMAIN del' = {"pc", "folder"} BY <2>2 DEF NoOp, IInv, Typed
  <2>4. Typed' /\ JobKnown' BY <1>1, <2>1, <2>3 DEF IInv, Typed, JobKnown, TracesOf, Here
  <2>5. DeleteKnown'
    <3>1. CASE del' = NoOp BY <3>1 DEF DeleteKnown, NoOp
    <3>2. CASE del' = [del EXCEPT !.pc = "remove"] /\ job.pc # "backup" /\ Deleted.dir = "unfinished"
      <4>1. del'.folder = del.folder BY <3>2 DEF IInv, Typed
      <4> QED BY <1>1, <2>1, <3>2, <4>1 DEF DeleteKnown, Deleted, IInv, JobKnown, Here
    <3> QED BY <2>2, <3>1, <3>2
  <2> QED BY <2>1, <2>4, <2>5, SameIsKept DEF IInv
<1>3. CASE DeleteRemove
  <2>1. del' = [del EXCEPT !.pc = "line"] /\ del.pc = "remove"
        /\ disk' = [disk EXCEPT ![del.folder] = [Deleted EXCEPT !.dir = "absent"]]
    BY <1>3 DEF DeleteRemove
  <2>2. DOMAIN del' = {"pc", "folder"} /\ del'.pc = "line" BY <2>1 DEF IInv, Typed
  <2>3. DOMAIN disk' = Pulls /\ \A k \in Pulls \ {del.folder} : disk'[k] = disk[k] BY <2>1 DEF IInv, Typed
  <2>4. ASSUME del.folder \in Pulls
        PROVE  /\ DOMAIN disk'[del.folder] = {"dest", "dir", "logs", "rec", "kept", "lines"}
               /\ disk[del.folder].dir = "unfinished" /\ disk'[del.folder].dir = "absent"
               /\ disk'[del.folder].lines = disk[del.folder].lines
    BY <2>1, <2>4 DEF IInv, Typed, DeleteKnown, Deleted
  <2>5. Typed' BY <1>1, <2>2, <2>3, <2>4 DEF IInv, Typed
  <2>6. JobKnown'
    <3>1. job.pc # "off" => Here \in Pulls BY DEF IInv, Typed, JobKnown, Here
    <3>2. \A k \in Pulls : disk'[k].lines = disk[k].lines /\ (disk[k].dir = "absent" => disk'[k].dir = "absent")
      BY <2>3, <2>4
    <3> QED BY <1>1, <3>1, <3>2 DEF IInv, JobKnown, TracesOf, Here, Early, Clearing
  <2>7. DeleteKnown' BY <2>2 DEF DeleteKnown
  <2>8. Kept BY <2>3, <2>4 DEF Kept, FinishedIsKept, NothingRemovedUntraced
  <2> QED BY <2>5, <2>6, <2>7, <2>8 DEF IInv
<1>4. CASE DeleteLine
  <2>1. del' = NoOp BY <1>4 DEF DeleteLine, DelEnds
  <2>2. SameFolders BY <1>4, NoFolder DEF DeleteLine, IInv
  <2>3. Typed' BY <1>1, <2>1, <2>2 DEF IInv, Typed, SameFolders, NoOp
  <2>4. JobKnown'
    <3>1. job.pc # "off" => Here \in Pulls BY DEF IInv, Typed, JobKnown, Here
    <3> QED BY <1>1, <2>2, <3>1 DEF IInv, JobKnown, SameFolders, TracesOf, Here, Early, Clearing
  <2>5. DeleteKnown' BY <2>1 DEF DeleteKnown, NoOp
  <2> QED BY <2>2, <2>3, <2>4, <2>5, SameIsKept DEF IInv
<1> QED BY <1>2, <1>3, <1>4 DEF DeleteSteps

\* A new pull gets a folder of its own.
LEMMA PullStarts ==
  ASSUME IInv, NEW m, HandlePull(m) PROVE IInv' /\ Kept
<1>1. CASE StartAllowed
  <2>1. PICK k \in Fresh :
          /\ tracker' = [NoPull EXCEPT !.folder = k] /\ del' = del
          /\ job' = [NoJob EXCEPT !.pc = "mkdir", !.call = m.call, !.enable = m.enable]
          /\ disk' = [disk EXCEPT ![k].dest = m.dest]
    BY <1>1 DEF HandlePull
  <2>2. k \in Pulls /\ k # None /\ disk[k].dir = "absent" BY <2>1 DEF Fresh, Unused, Pulls, None
  <2>3. SameFolders /\ disk'[k].dir = "absent" BY <2>1, <2>2 DEF IInv, Typed, SameFolders
  <2>4. /\ DOMAIN tracker' = {"folder", "stats", "ended"} /\ tracker'.folder = k
        /\ DOMAIN job' = {"pc", "call", "enable", "ours", "outcome"}
        /\ job'.pc = "mkdir" /\ job'.outcome = "failed"
    BY <2>1 DEF NoPull, NoJob
  <2>5. Typed' BY <2>1, <2>2, <2>3, <2>4 DEF IInv, Typed, SameFolders
  <2>6. JobKnown' BY <2>2, <2>3, <2>4 DEF JobKnown, JobPlaces, Early, Clearing, Here
  <2>7. DeleteKnown' BY <2>1, <2>2, <2>3, <2>4 DEF IInv, DeleteKnown, SameFolders
  <2> QED BY <2>3, <2>5, <2>6, <2>7, SameIsKept DEF IInv
<1>2. CASE ~StartAllowed
  <2>1. UNCHANGED <<disk, job, tracker, del>> BY <1>2 DEF HandlePull, mainVars
  <2>2. SameFolders BY <2>1, NoFolder DEF IInv
  <2> QED BY <2>1, <2>2, JobStep
<1> QED BY <1>1, <1>2

LEMMA HandleIInv == ASSUME IInv, Handle PROVE IInv' /\ Kept
<1> DEFINE m == Head(toMain)
<1>1. CASE HandlePull(m) BY <1>1, PullStarts
<1>2. CASE \/ HandleEncryption(m) \/ HandleCancel(m) \/ HandleState(m) \/ HandleList(m) \/ HandleCopy(m)
  <2>1. UNCHANGED <<disk, job, tracker, del>>
    BY <1>2 DEF HandleEncryption, HandleCancel, HandleState, HandleList, HandleCopy, mainVars
  <2>2. SameFolders BY <2>1, NoFolder DEF IInv
  <2> QED BY <2>1, <2>2, JobStep
<1>3. CASE HandleDelete(m)
  <2>1. UNCHANGED <<disk, job, tracker>> /\ (del' = del \/ del' = [pc |-> "check", folder |-> m.folder])
    BY <1>3 DEF HandleDelete, mainVars
  <2>2. SameFolders BY <2>1, NoFolder DEF IInv
  <2>3. CASE del' = del BY <2>1, <2>2, <2>3, JobStep
  <2>4. CASE del' = [pc |-> "check", folder |-> m.folder]
    <3>1. Typed' /\ JobKnown' BY <2>1, <2>4 DEF IInv, Typed, JobKnown, TracesOf, Here
    <3>2. DeleteKnown' BY <2>4 DEF DeleteKnown
    <3> QED BY <2>2, <3>1, <3>2, SameIsKept DEF IInv
  <2> QED BY <2>1, <2>3, <2>4
<1> QED BY <1>1, <1>2, <1>3 DEF Handle

-------------------------------------------------------------------------------
(* The whole. *)

LEMMA MainIInv == ASSUME IInv, PullNext PROVE IInv' /\ Kept
<1>1. CASE PullSteps BY <1>1, JobOnly, JobWrites, LeftoverIInv DEF PullSteps
<1>2. CASE PullFailures BY <1>2, JobOnly, NoFolderIInv DEF PullFailures
<1>3. CASE ToolExits BY <1>3, JobOnly
<1> QED BY <1>1, <1>2, <1>3, HandleIInv, ToolWritesIInv, CopyIInv, DeleteIInv DEF PullNext

\* The panel and the examiner touch no folder; the app that is killed forgets what
\* it was doing, and the folders stay.
LEMMA NextIInv == ASSUME IInv, [Next]_vars PROVE IInv' /\ Kept
<1>1. CASE Main BY <1>1, MainIInv DEF Main
<1>2. CASE UNCHANGED mainVars
  <2>1. UNCHANGED <<disk, tracker, job, del>> BY <1>2 DEF mainVars
  <2>2. SameFolders BY <2>1, NoFolder DEF IInv
  <2> QED BY <2>1, <2>2, JobStep
<1>3. CASE Examiner
  <2>1. UNCHANGED mainVars
    BY <1>3 DEF Examiner, Mount, Unmount, SelectDevice, OpenDialog, DialogAnswers, TypePassword, ClickPull,
                TurnOnClicked, ConsentRefused, ClickCancel, ClickDelete, ClickCopyAgain, MainWaits
  <2> QED BY <1>2, <2>1
<1>4. CASE Hear BY <1>2, <1>4 DEF Hear
<1>5. CASE Killed
  <2>1. disk' = disk /\ tracker' = NoPull /\ job' = NoJob /\ del' = NoOp BY <1>5 DEF Killed
  <2>2. SameFolders BY <2>1, NoFolder DEF IInv
  <2>3. Typed' BY <2>1 DEF IInv, Typed, NoPull, NoJob, NoOp
  <2>4. JobKnown' BY <2>1 DEF JobKnown, NoPull, NoJob, JobPlaces, Early, Clearing
  <2>5. DeleteKnown' BY <2>1 DEF DeleteKnown, NoOp
  <2> QED BY <2>2, <2>3, <2>4, <2>5, SameIsKept DEF IInv
<1>6. CASE UNCHANGED vars BY <1>2, <1>6 DEF vars, pullVars
<1> QED BY <1>1, <1>3, <1>4, <1>5, <1>6 DEF Next

\* A finished backup is never taken away, and what a failed pull left is removed
\* only after its end is on record (iosBackupSource.ts), whatever pulls, copies,
\* deletions, failures and crashes come together.
THEOREM EvidenceStays == Spec => EvidenceIsKept
<1>1. IInv /\ [Next]_vars => IInv' /\ [FinishedIsKept /\ NothingRemovedUntraced]_vars
  BY NextIInv DEF Kept
<1> QED BY InitIInv, <1>1, PTL DEF Spec, EvidenceIsKept

-------------------------------------------------------------------------------
(* The guided setup of the tools. *)

\* A release that an update of the app replaced is not pinned again by a later
\* one.  Without this the properties fail: a removal cut short under the version
\* between leaves a folder or a record that the older one's pins vouch for.
NoneComesBack ==
  \A u, v, w \in DOMAIN Pins : u <= v /\ v <= w =>
    \A c \in DOMAIN Pins[u] : Pins[u][c] = Pins[w][c] => Pins[v][c] = Pins[u][c]

Building == {"library", "install", "record", "verify"}
SetupTyped ==
  /\ version \in DOMAIN Pins /\ ready \in BOOLEAN
  /\ entries \subseteq Libs /\ DOMAIN made = Libs
  /\ manifest \in Seq(Nat) /\ Len(manifest) <= Top /\ progress \in Seq(Nat) /\ Len(progress) <= Top
  /\ builder \in [pc : BuildPlaces, done : Seq(Nat), asked : BOOLEAN] /\ Len(builder.done) <= Top

\* What a build has done is pinned, on record and in the folder, each library
\* built with the pinned ones before it; where the record goes on it disagrees.
BuildKnown ==
  LET n == Len(builder.done) IN
  builder.pc \in Building =>
    /\ n <= Len(progress) /\ (n = 0 => Len(progress) = 0)
    /\ \A i \in 1 .. n : /\ builder.done[i] = Pinned[i] /\ progress[i] = Pinned[i]
                         /\ i \in entries /\ made[i] = SubSeq(Pinned, 1, i)
    /\ n < Len(progress) => progress[n + 1] # Pinned[n + 1]
    /\ IF n = Top THEN builder.pc = "verify" ELSE builder.pc # "verify" /\ ~Installed
    /\ builder.pc = "record" => This \in entries /\ made[This] = SubSeq(Pinned, 1, This)
\* A record that is of any use is of an empty folder or of one that holds all it
\* names; and as far as it agrees with the pins, of what it says.
RecordKnown ==
  Len(progress) > 0 =>
    \/ progress[1] # Pinned[1]
    \/ entries = {}
    \/ \A n \in 1 .. Len(progress) :
         /\ n \in entries
         /\ (\A i \in 1 .. n : progress[i] = Pinned[i]) => made[n] = SubSeq(Pinned, 1, n)
\* The manifest is of a version there was; beside it the record can only be whole.
ManifestKnown ==
  /\ manifest # <<>> => \E u \in 1 .. version : manifest = Pins[u]
  /\ Installed /\ Len(progress) > 0 => progress = manifest
\* The record is of releases pinned so far.
SoFar == \A i \in 1 .. Len(progress) : \E u \in 1 .. version : progress[i] = Pins[u][i]
SetupInv == SetupTyped /\ BuildKnown /\ RecordKnown /\ ManifestKnown /\ SoFar

\* The pins of every version name the same libraries.
LEMMA PinsAre ==
  \E top \in Nat \ {0} :
    \A v \in DOMAIN Pins : v \in Nat \ {0} /\ Pins[v] \in Seq(Nat) /\ Len(Pins[v]) = top /\ DOMAIN Pins[v] = 1 .. top
<1>1. DOMAIN Pins = 1 .. Len(Pins) /\ Len(Pins) \in Nat BY ToolchainAssumption, LenProperties
<1>2. \A v \in DOMAIN Pins : Pins[v] \in Seq(Nat) BY <1>1, ToolchainAssumption, ElementOfSeq
<1>3. \A v \in DOMAIN Pins : Len(Pins[v]) \in Nat /\ DOMAIN Pins[v] = 1 .. Len(Pins[v]) BY <1>2, LenProperties
<1>4. 1 \in DOMAIN Pins BY <1>1, ToolchainAssumption, EmptySeq
<1>5. Len(Pins[1]) \in Nat /\ Len(Pins[1]) # 0 BY <1>2, <1>3, <1>4, ToolchainAssumption, EmptySeq
<1>6. \A v \in DOMAIN Pins : Len(Pins[v]) = Len(Pins[1]) BY <1>4, ToolchainAssumption
<1>7. \A v \in DOMAIN Pins : v \in Nat \ {0} BY <1>1
<1>8. Len(Pins[1]) \in Nat \ {0} BY <1>5
<1>9. \A v \in DOMAIN Pins : DOMAIN Pins[v] = 1 .. Len(Pins[1]) BY <1>3, <1>6
<1> QED BY <1>2, <1>6, <1>7, <1>8, <1>9

\* So the libraries are the same before and after an update.
LEMMA LibsAre ==
  /\ version \in DOMAIN Pins => Pinned \in Seq(Nat) /\ Top \in Nat \ {0} /\ Libs = 1 .. Top /\ version \in Nat \ {0}
  /\ version \in DOMAIN Pins /\ version' \in DOMAIN Pins => Libs' = Libs /\ Top' = Top
<1>1. PICK top \in Nat \ {0} :
        \A v \in DOMAIN Pins : v \in Nat \ {0} /\ Pins[v] \in Seq(Nat) /\ Len(Pins[v]) = top /\ DOMAIN Pins[v] = 1 .. top
  BY PinsAre
<1> QED BY <1>1 DEF Pinned, Libs, Top

\* The first n of a sequence, element by element.
LEMMA FirstIs ==
  ASSUME NEW s \in Seq(Nat), NEW n \in 0 .. Len(s)
  PROVE  /\ SubSeq(s, 1, n) \in Seq(Nat) /\ Len(SubSeq(s, 1, n)) = n
         /\ \A i \in 1 .. n : SubSeq(s, 1, n)[i] = s[i]
<1>1. Len(s) \in Nat /\ \A i \in 1 .. Len(s) : s[i] \in Nat BY LenProperties, ElementOfSeq
<1>2. n \in Int /\ \A i \in 1 .. n : s[i] \in Nat BY <1>1
<1>3. /\ SubSeq(s, 1, n) \in Seq(Nat) /\ Len(SubSeq(s, 1, n)) = IF 1 <= n THEN n - 1 + 1 ELSE 0
      /\ \A i \in 1 .. n - 1 + 1 : SubSeq(s, 1, n)[i] = s[1 + i - 1]
  BY <1>2, SubSeqProperties
<1>4. Len(SubSeq(s, 1, n)) = n BY <1>2, <1>3
<1>5. n - 1 + 1 = n BY <1>2
<1>6. ASSUME NEW i \in 1 .. n PROVE SubSeq(s, 1, n)[i] = s[i]
  <2>1. 1 + i - 1 = i OBVIOUS
  <2> QED BY <1>3, <1>5, <2>1
<1> QED BY <1>3, <1>4, <1>6

LEMMA SameFirst ==
  ASSUME NEW s \in Seq(Nat), NEW t \in Seq(Nat), NEW n \in 0 .. Len(s), n <= Len(t)
  PROVE  SubSeq(s, 1, n) = SubSeq(t, 1, n) <=> \A i \in 1 .. n : s[i] = t[i]
<1>1. n \in 0 .. Len(t) BY LenProperties
<1>2. /\ SubSeq(s, 1, n) \in Seq(Nat) /\ Len(SubSeq(s, 1, n)) = n
      /\ \A i \in 1 .. n : SubSeq(s, 1, n)[i] = s[i]
  BY FirstIs
<1>3. /\ SubSeq(t, 1, n) \in Seq(Nat) /\ Len(SubSeq(t, 1, n)) = n
      /\ \A i \in 1 .. n : SubSeq(t, 1, n)[i] = t[i]
  BY <1>1, FirstIs
<1>4. ASSUME \A i \in 1 .. n : s[i] = t[i] PROVE SubSeq(s, 1, n) = SubSeq(t, 1, n)
  BY <1>2, <1>3, <1>4, SeqEqual
<1>5. ASSUME SubSeq(s, 1, n) = SubSeq(t, 1, n) PROVE \A i \in 1 .. n : s[i] = t[i]
  BY <1>2, <1>3, <1>5
<1> QED BY <1>4, <1>5

\* Of naturals that are bounded one is the greatest.
LEMMA Greatest ==
  ASSUME NEW S \in SUBSET Nat, S # {}, NEW top \in Nat, \A v \in S : v <= top
  PROVE  \E m \in S : \A v \in S : v <= m
<1> DEFINE Less == {p \in Nat \X Nat : p[1] < p[2]}
           Distances == {d \in Nat : top - d \in S}
<1>1. IsWellFoundedOn(Less, Nat) BY NatLessThanWellFounded DEF OpToRel
<1>2. Distances \subseteq Nat /\ Distances # {}
  <2>1. PICK v \in S : TRUE OBVIOUS
  <2>2. top - v \in Distances OBVIOUS
  <2> QED BY <2>2
<1> HIDE DEF Less, Distances
<1>3. PICK least \in Distances : \A d \in Distances : <<d, least>> \notin Less BY <1>1, <1>2, WFMin
<1>4. least \in Nat /\ top - least \in S BY DEF Distances
<1>5. ASSUME NEW v \in S PROVE v <= top - least
  <2>1. v \in Nat /\ v <= top /\ top - v \in Nat /\ top - (top - v) = v OBVIOUS
  <2>2. top - v \in Distances BY <2>1 DEF Distances
  <2>3. <<top - v, least>> \notin Less BY <1>3, <2>2
  <2>4. ~(top - v < least) BY <1>4, <2>1, <2>3 DEF Less
  <2> QED BY <1>4, <2>1, <2>4
<1> QED BY <1>4, <1>5

\* What a build resumes from: the record up to where it first disagrees.
LEMMA RecordedIs ==
  ASSUME SetupTyped
  PROVE  LET n == Len(Recorded) IN
         /\ Recorded \in Seq(Nat) /\ n \in 0 .. Len(progress) /\ DOMAIN Recorded = 1 .. n
         /\ \A i \in 1 .. n : Recorded[i] = Pinned[i] /\ progress[i] = Pinned[i]
         /\ n < Len(progress) => progress[n + 1] # Pinned[n + 1]
<1> DEFINE agrees == {n \in 0 .. Len(progress) : SubSeq(progress, 1, n) = SubSeq(Pinned, 1, n)}
           n == CHOOSE n \in agrees : \A m \in agrees : m <= n
<1>1. /\ progress \in Seq(Nat) /\ Pinned \in Seq(Nat) /\ Len(progress) \in Nat
      /\ Len(Pinned) = Top /\ Top \in Nat /\ Len(progress) <= Top
  BY LibsAre, LenProperties DEF SetupTyped, Top
<1>2. \A m \in 0 .. Len(progress) : m \in agrees <=> \A i \in 1 .. m : progress[i] = Pinned[i]
  BY <1>1, SameFirst
<1>3. 0 \in agrees BY <1>1, <1>2
<1>4. agrees \in SUBSET Nat /\ \A m \in agrees : m <= Len(progress) BY <1>1
<1>R. Recorded = SubSeq(progress, 1, n) BY DEF Recorded
<1> HIDE DEF agrees
<1>5. \E m \in agrees : \A v \in agrees : v <= m BY <1>1, <1>3, <1>4, Greatest
<1>6. n \in agrees /\ \A m \in agrees : m <= n BY <1>5
<1> HIDE DEF n
<1>7. n \in 0 .. Len(progress) /\ n \in Nat BY <1>6, <1>1 DEF agrees
<1>8. Recorded \in Seq(Nat) /\ Len(Recorded) = n /\ \A i \in 1 .. n : Recorded[i] = progress[i]
  BY <1>1, <1>7, <1>R, FirstIs
<1>9. DOMAIN Recorded = 1 .. n BY <1>8, LenProperties
<1>10. \A i \in 1 .. n : progress[i] = Pinned[i] BY <1>2, <1>6, <1>7
<1>11. ASSUME n < Len(progress), progress[n + 1] = Pinned[n + 1] PROVE FALSE
  <2>1. n + 1 \in 0 .. Len(progress) BY <1>1, <1>7, <1>11
  <2>2. \A i \in 1 .. n + 1 : progress[i] = Pinned[i]
    <3>1. \A i \in 1 .. n + 1 : i = n + 1 \/ i \in 1 .. n BY <1>7
    <3> QED BY <1>10, <1>11, <3>1
  <2>3. n + 1 \in agrees BY <1>2, <2>1, <2>2
  <2> QED BY <1>6, <1>7, <2>3
<1> QED BY <1>7, <1>8, <1>9, <1>10, <1>11
-------------------------------------------------------------------------------
(* The setup, step by step. *)

Builder == [pc : BuildPlaces, done : Seq(Nat), asked : BOOLEAN]
SetupGoesOn == SetupInv' /\ WholeWhenInstalled

\* Nothing is built at first.
LEMMA InitSetup == SetupInit => SetupInv
<1> SUFFICES ASSUME SetupInit PROVE SetupInv OBVIOUS
<1> USE DEF SetupInit
<1>1. version \in DOMAIN Pins BY ToolchainAssumption, LenProperties, EmptySeq
<1>2. Pinned \in Seq(Nat) /\ Top \in Nat \ {0} /\ Libs = 1 .. Top BY <1>1, LibsAre
<1>3. <<>> \in Seq(Nat) /\ Len(<<>>) = 0 OBVIOUS
<1>4. SetupTyped BY <1>1, <1>2, <1>3 DEF SetupTyped, NoBuild, BuildPlaces
<1>5. BuildKnown BY DEF BuildKnown, NoBuild, Building
<1>6. RecordKnown /\ SoFar BY <1>3 DEF RecordKnown, SoFar
<1>7. ManifestKnown BY <1>3 DEF ManifestKnown
<1> QED BY <1>4, <1>5, <1>6, <1>7 DEF SetupInv

\* Steps that leave the folder as it is and build nothing; the record may be lost.
LEMMA AtRest ==
  ASSUME SetupInv, UNCHANGED <<version, folder>>, ready' \in BOOLEAN, progress' \in {progress, <<>>},
         builder' \in Builder, Len(builder'.done) <= Top, builder'.pc \notin Building
  PROVE  SetupGoesOn
<1>1. <<>> \in Seq(Nat) /\ Len(<<>>) = 0 OBVIOUS
<1>2. Pinned' = Pinned /\ Top' = Top /\ Libs' = Libs BY DEF Pinned, Top, Libs
<1>3. UNCHANGED <<version, entries, made, manifest>> BY DEF folder
<1>T. SetupTyped /\ Top \in Nat BY LibsAre DEF SetupInv, SetupTyped
<1>R. progress' \in Seq(Nat) /\ Len(progress') <= Top
  <2>1. CASE progress' = progress BY <2>1, <1>T DEF SetupTyped
  <2>2. CASE progress' = <<>> BY <2>2, <1>1, <1>T
  <2> QED BY <2>1, <2>2
<1>4. SetupTyped' BY <1>2, <1>3, <1>T, <1>R DEF SetupTyped, Builder
<1>5. BuildKnown' BY DEF BuildKnown
<1>6. RecordKnown' BY <1>1, <1>2, <1>3 DEF SetupInv, RecordKnown
<1>7. ManifestKnown' BY <1>1, <1>2, <1>3 DEF SetupInv, ManifestKnown, Installed
<1>8. SoFar' BY <1>1, <1>3 DEF SetupInv, SoFar
<1>9. WholeWhenInstalled BY <1>2, <1>3 DEF WholeWhenInstalled, Installed, Whole
<1> QED BY <1>4, <1>5, <1>6, <1>7, <1>8, <1>9 DEF SetupInv, SetupGoesOn

\* The page that asked for the build leaves: the build does not.
LEMMA PageOnly ==
  ASSUME SetupInv, UNCHANGED <<version, ready, folder, progress>>,
         builder' \in Builder, builder'.pc = builder.pc, builder'.done = builder.done
  PROVE  SetupGoesOn
<1>1. Pinned' = Pinned /\ Top' = Top /\ Libs' = Libs /\ This' = This BY DEF Pinned, Top, Libs, This
<1>2. UNCHANGED <<version, ready, entries, made, manifest, progress>> BY DEF folder
<1>3. SetupTyped' BY <1>1, <1>2 DEF SetupInv, SetupTyped, Builder
<1>4. BuildKnown' BY <1>1, <1>2 DEF SetupInv, BuildKnown, Installed
<1>5. RecordKnown' BY <1>1, <1>2 DEF SetupInv, RecordKnown
<1>6. ManifestKnown' BY <1>1, <1>2 DEF SetupInv, ManifestKnown, Installed
<1>7. SoFar' BY <1>2 DEF SetupInv, SoFar
<1>8. WholeWhenInstalled BY <1>1, <1>2 DEF WholeWhenInstalled, Installed, Whole
<1> QED BY <1>3, <1>4, <1>5, <1>6, <1>7, <1>8 DEF SetupInv, SetupGoesOn

\* The folder is removed, whole or as far as the app got.
LEMMA Removed ==
  ASSUME SetupInv, UNCHANGED <<version, ready>>, entries' \subseteq entries, DOMAIN made' = Libs,
         manifest' \in {manifest, <<>>}, progress' \in {progress, <<>>},
         entries' = {} \/ progress' = <<>> \/ progress[1] # Pinned[1],
         builder' \in Builder, Len(builder'.done) <= Top, builder'.pc \notin Building,
         manifest' = <<>> \/ builder.pc = "check"
  PROVE  SetupGoesOn
<1>1. <<>> \in Seq(Nat) /\ Len(<<>>) = 0 OBVIOUS
<1>2. Pinned' = Pinned /\ Top' = Top /\ Libs' = Libs BY DEF Pinned, Top, Libs
<1>T. SetupTyped /\ Top \in Nat \ {0} /\ Len(Pinned) = Top BY LibsAre DEF SetupInv, SetupTyped, Top
<1>R. progress' \in Seq(Nat) /\ Len(progress') <= Top
  <2>1. CASE progress' = progress BY <2>1, <1>T DEF SetupTyped
  <2>2. CASE progress' = <<>> BY <2>2, <1>1, <1>T
  <2> QED BY <2>1, <2>2
<1>M. manifest' \in Seq(Nat) /\ Len(manifest') <= Top
  <2>1. CASE manifest' = manifest BY <2>1, <1>T DEF SetupTyped
  <2>2. CASE manifest' = <<>> BY <2>2, <1>1, <1>T
  <2> QED BY <2>1, <2>2
<1>3. SetupTyped' BY <1>2, <1>T, <1>R, <1>M DEF SetupTyped, Builder
<1>4. BuildKnown' BY DEF BuildKnown
<1>5. RecordKnown' BY <1>1, <1>2 DEF RecordKnown
<1>6. Installed' => Installed /\ manifest' = manifest /\ manifest' # <<>> BY <1>1, <1>2, <1>T DEF Installed
<1>7. ManifestKnown' BY <1>1, <1>2, <1>6 DEF SetupInv, ManifestKnown
<1>8. SoFar' BY <1>1 DEF SetupInv, SoFar
<1>9. WholeWhenInstalled BY <1>6 DEF WholeWhenInstalled
<1> QED BY <1>3, <1>4, <1>5, <1>7, <1>8, <1>9 DEF SetupInv, SetupGoesOn

\* A folder is removed where its record is of no use.
LEMMA Useless ==
  ASSUME SetupInv, Resumable = <<>>
  PROVE  progress = <<>> \/ entries = {} \/ progress[1] # Pinned[1]
<1> DEFINE n == Len(Recorded)
<1>1. /\ Recorded \in Seq(Nat) /\ n \in 0 .. Len(progress) /\ DOMAIN Recorded = 1 .. n
      /\ n < Len(progress) => progress[n + 1] # Pinned[n + 1]
  BY RecordedIs DEF SetupInv
<1>2. progress \in Seq(Nat) /\ Len(progress) \in Nat BY LenProperties DEF SetupInv, SetupTyped
<1>3. CASE Len(progress) = 0 BY <1>2, <1>3, EmptySeq
<1>4. CASE Len(progress) > 0 /\ Found(Recorded)
  <2>1. Recorded = <<>> BY <1>4 DEF Resumable
  <2>2. n = 0 BY <2>1
  <2> QED BY <1>1, <1>4, <2>2
<1>5. CASE Len(progress) > 0 /\ ~Found(Recorded)
  <2>1. ~(\A i \in 1 .. Len(progress) : i \in entries) BY <1>1, <1>2, <1>5 DEF Found
  <2> QED BY <1>5, <2>1 DEF SetupInv, RecordKnown
<1> QED BY <1>2, <1>3, <1>4, <1>5

\* A build starts over in an empty folder, or goes on from what its record names.
LEMMA CheckGoesOn == ASSUME SetupInv, Check PROVE SetupGoesOn
<1>T. SetupTyped BY DEF SetupInv
<1>L. Pinned \in Seq(Nat) /\ Top \in Nat \ {0} /\ Libs = 1 .. Top /\ Len(Pinned) = Top BY <1>T, LibsAre DEF SetupTyped, Top
<1>0. <<>> \in Seq(Nat) /\ Len(<<>>) = 0 OBVIOUS
<1>P. version' = version /\ ready' = ready /\ builder.pc = "check" BY DEF Check, FolderStays, ToolsStay
<1>V. Pinned' = Pinned /\ Top' = Top /\ Libs' = Libs BY <1>P DEF Pinned, Top, Libs
<1>1. CASE Ends /\ FolderStays
  <2>1. builder' \in Builder /\ Len(builder'.done) <= Top /\ builder'.pc \notin Building
    BY <1>1, <1>0, <1>L DEF Ends, NoBuild, Builder, BuildPlaces, Building
  <2> QED BY <1>1, <1>T, <2>1, AtRest DEF FolderStays, ToolsStay, SetupTyped
<1>2. CASE /\ Resumable = <<>>
           /\ builder' = [builder EXCEPT !.done = <<>>, !.pc = "library"]
           /\ entries' = {} /\ made' = [c \in Libs |-> Gone] /\ manifest' = <<>> /\ progress' = <<>>
  <2>1. builder' \in Builder /\ builder'.done = <<>> /\ builder'.pc = "library"
    BY <1>0, <1>2, <1>T DEF SetupTyped, Builder, BuildPlaces
  <2>2. SetupTyped' BY <1>0, <1>2, <1>L, <1>P, <1>T, <1>V, <2>1 DEF SetupTyped, Builder
  <2>3. ~Installed' BY <1>0, <1>2, <1>L, <1>V DEF Installed
  <2>4. BuildKnown' BY <1>0, <1>2, <1>L, <1>V, <2>1, <2>3 DEF BuildKnown
  <2>5. RecordKnown' /\ SoFar' BY <1>0, <1>2 DEF RecordKnown, SoFar
  <2>6. ManifestKnown' BY <1>2, <2>3 DEF ManifestKnown
  <2>7. WholeWhenInstalled BY <2>3 DEF WholeWhenInstalled
  <2> QED BY <2>2, <2>3, <2>4, <2>5, <2>6, <2>7 DEF SetupInv, SetupGoesOn, WholeWhenInstalled
<1>3. CASE /\ Resumable # <<>> /\ UNCHANGED <<folder, progress>>
           /\ builder' = [builder EXCEPT !.done = Resumable, !.pc = NextPlace(Resumable)]
  <2> DEFINE n == Len(Recorded)
  <2>1. Resumable = Recorded /\ Found(Recorded) BY <1>3 DEF Resumable
  <2>2. /\ Recorded \in Seq(Nat) /\ n \in 0 .. Len(progress) /\ DOMAIN Recorded = 1 .. n
        /\ \A i \in 1 .. n : Recorded[i] = Pinned[i] /\ progress[i] = Pinned[i]
        /\ n < Len(progress) => progress[n + 1] # Pinned[n + 1]
    BY <1>T, RecordedIs
  <2>3. Len(progress) \in Nat /\ n \in Nat /\ n <= Top BY <1>L, <1>T, <2>2, LenProperties DEF SetupTyped
  <2>4. n # 0 BY <1>3, <2>1, <2>2, EmptySeq
  <2>5. /\ builder' \in Builder /\ builder'.done = Recorded
        /\ builder'.pc = (IF n = Top THEN "verify" ELSE "library")
    BY <1>3, <1>T, <2>1, <2>2 DEF SetupTyped, Builder, BuildPlaces, NextPlace
  <2>6. UNCHANGED <<entries, made, manifest, progress>> BY <1>3 DEF folder
  <2>7. SetupTyped' BY <1>P, <1>T, <1>V, <2>3, <2>5, <2>6 DEF SetupTyped, Builder
  <2>8. \A i \in 1 .. n : i \in entries /\ made[i] = SubSeq(Pinned, 1, i)
    <3>1. \A i \in 1 .. n : i \in entries BY <2>1, <2>2 DEF Found
    <3>2. 1 \in 1 .. n /\ Len(progress) > 0 BY <2>2, <2>3, <2>4
    <3>3. \A m \in 1 .. Len(progress) : (\A i \in 1 .. m : progress[i] = Pinned[i]) => made[m] = SubSeq(Pinned, 1, m)
      BY <2>2, <3>1, <3>2 DEF SetupInv, RecordKnown
    <3>4. ASSUME NEW m \in 1 .. n PROVE made[m] = SubSeq(Pinned, 1, m)
      <4>1. m \in 1 .. Len(progress) /\ \A i \in 1 .. m : i \in 1 .. n BY <2>2, <2>3
      <4> QED BY <2>2, <3>3, <4>1
    <3> QED BY <3>1, <3>4
  <2>9. n # Top => ~Installed
    <3>1. ASSUME Installed PROVE n = Top
      <4>1. progress = Pinned BY <3>1, <2>2, <2>3, <2>4 DEF SetupInv, ManifestKnown, Installed
      <4>2. Len(progress) = Top BY <1>L, <4>1
      <4>3. n + 1 \in 1 .. Top \/ n = Top BY <1>L, <2>3
      <4> QED BY <2>2, <2>3, <4>1, <4>2, <4>3
    <3> QED BY <3>1
  <2>10. BuildKnown'
    <3>1. Installed' = Installed BY <1>V, <2>6 DEF Installed
    <3>2. builder'.pc # "record" BY <2>5
    <3> HIDE DEF n
    <3>3. Len(builder'.done) = n BY <2>5 DEF n
    <3>4. \A i \in 1 .. n : builder'.done[i] = Pinned[i] BY <2>2, <2>5
    <3>5. n <= Len(progress) BY <2>2, <2>3
    <3> QED BY <1>V, <2>2, <2>4, <2>5, <2>6, <2>8, <2>9, <3>1, <3>2, <3>3, <3>4, <3>5 DEF BuildKnown
  <2>11. RecordKnown' BY <1>V, <2>6 DEF SetupInv, RecordKnown
  <2>12. ManifestKnown' BY <1>P, <1>V, <2>6 DEF SetupInv, ManifestKnown, Installed
  <2>13. SoFar' BY <1>P, <2>6 DEF SetupInv, SoFar
  <2>14. WholeWhenInstalled BY <1>V, <2>6 DEF WholeWhenInstalled, Installed, Whole
  <2> QED BY <2>7, <2>10, <2>11, <2>12, <2>13, <2>14 DEF SetupInv, SetupGoesOn
<1>4. NextPlace(<<>>) = "library" BY <1>0, <1>L DEF NextPlace
<1> QED BY <1>1, <1>2, <1>3, <1>4 DEF Check
\* A library is compiled or put into the folder where the build is at.
LEMMA GoesOn ==
  ASSUME SetupInv, UNCHANGED <<version, ready, manifest, progress>>, builder.pc \in {"library", "install"},
         entries \subseteq entries', entries' \subseteq entries \cup {This}, DOMAIN made' = Libs,
         \A c \in Libs \ {This} : made'[c] = made[c],
         builder' \in Builder, builder'.done = builder.done, builder'.pc \in {"install", "record"},
         builder'.pc = "record" => This \in entries' /\ made'[This] = SubSeq(Pinned, 1, This)
  PROVE  SetupGoesOn
<1> DEFINE n == Len(builder.done)
<1>V. Pinned' = Pinned /\ Top' = Top /\ Libs' = Libs BY DEF Pinned, Top, Libs
<1>T. SetupTyped /\ Top \in Nat \ {0} /\ Libs = 1 .. Top BY LibsAre DEF SetupInv, SetupTyped
<1>1. /\ n <= Len(progress) /\ (n = 0 => Len(progress) = 0)
      /\ \A i \in 1 .. n : /\ builder.done[i] = Pinned[i] /\ progress[i] = Pinned[i]
                           /\ i \in entries /\ made[i] = SubSeq(Pinned, 1, i)
      /\ n < Len(progress) => progress[n + 1] # Pinned[n + 1]
      /\ n # Top /\ ~Installed
  BY DEF SetupInv, BuildKnown, Building
<1>2. /\ builder \in Builder /\ builder.done \in Seq(Nat) /\ progress \in Seq(Nat)
      /\ n \in Nat /\ n <= Top /\ Len(progress) \in Nat
  BY <1>T, LenProperties DEF SetupTyped, Builder
<1>3. This = n + 1 /\ This' = n + 1 BY DEF This
<1>N. n < Top /\ This \in Libs /\ Len(builder'.done) = n BY <1>1, <1>2, <1>3, <1>T
<1> HIDE DEF n
<1>4. SetupTyped' BY <1>T, <1>V, <1>2, <1>N DEF SetupTyped, Builder
<1>5. ~Installed' BY <1>1, <1>V DEF Installed
<1>6. \A i \in 1 .. n : i \in entries' /\ made'[i] = SubSeq(Pinned, 1, i)
  <2>1. \A i \in 1 .. n : i \in Libs \ {This} BY <1>2, <1>3, <1>N, <1>T
  <2> QED BY <1>1, <2>1
<1>7. BuildKnown' BY <1>1, <1>3, <1>5, <1>6, <1>N, <1>V DEF BuildKnown
<1>8. RecordKnown'
  <2> SUFFICES ASSUME Len(progress) > 0, progress[1] = Pinned[1]
               PROVE  \A m \in 1 .. Len(progress) :
                        /\ m \in entries'
                        /\ (\A i \in 1 .. m : progress[i] = Pinned[i]) => made'[m] = SubSeq(Pinned, 1, m)
    BY <1>V DEF RecordKnown
  <2>1. 1 \in 1 .. n BY <1>1, <1>2
  <2>2. \A m \in 1 .. Len(progress) :
          /\ m \in entries
          /\ (\A i \in 1 .. m : progress[i] = Pinned[i]) => made[m] = SubSeq(Pinned, 1, m)
    BY <1>1, <2>1 DEF SetupInv, RecordKnown
  <2>3. ASSUME NEW m \in 1 .. Len(progress), \A i \in 1 .. m : progress[i] = Pinned[i]
        PROVE  made'[m] = SubSeq(Pinned, 1, m)
    <3>1. m <= n
      <4>1. CASE m > n
        <5>1. n + 1 \in 1 .. m /\ n < Len(progress) BY <4>1, <1>2
        <5> QED BY <1>1, <2>3, <5>1
      <4> QED BY <1>2, <4>1
    <3>2. m \in 1 .. n BY <3>1
    <3> QED BY <1>6, <3>2
  <2> QED BY <2>2, <2>3
<1>9. ManifestKnown' BY <1>5 DEF SetupInv, ManifestKnown
<1>10. SoFar' BY DEF SetupInv, SoFar
<1>11. WholeWhenInstalled BY <1>5 DEF WholeWhenInstalled
<1> QED BY <1>4, <1>7, <1>8, <1>9, <1>10, <1>11 DEF SetupInv, SetupGoesOn

LEMMA CompileGoesOn == ASSUME SetupInv, Compile PROVE SetupGoesOn
<1>T. SetupTyped /\ This = This BY DEF SetupInv
<1>1. builder' = [builder EXCEPT !.pc = "install"] /\ builder.pc = "library" BY DEF Compile, BuildGoes
<1>2. builder' \in Builder /\ builder'.done = builder.done /\ builder'.pc = "install"
  BY <1>1, <1>T DEF SetupTyped, Builder, BuildPlaces
<1>3. made' = [made EXCEPT ![This] = Gone] /\ entries' \in {entries, entries \cup {This}} BY DEF Compile
<1>4. DOMAIN made' = Libs /\ \A c \in Libs \ {This} : made'[c] = made[c] BY <1>3, <1>T DEF SetupTyped
<1> QED BY <1>1, <1>2, <1>3, <1>4, GoesOn DEF Compile

\* A library is put beside those it was built with.
LEMMA InstallGoesOn == ASSUME SetupInv, Install PROVE SetupGoesOn
<1>T. SetupTyped BY DEF SetupInv
<1>L. Pinned \in Seq(Nat) /\ Top \in Nat \ {0} /\ Libs = 1 .. Top /\ Len(Pinned) = Top BY <1>T, LibsAre DEF SetupTyped, Top
<1>1. builder' = [builder EXCEPT !.pc = "record"] /\ builder.pc = "install" BY DEF Install, BuildGoes
<1>2. builder' \in Builder /\ builder'.done = builder.done /\ builder'.pc = "record"
  BY <1>1, <1>T DEF SetupTyped, Builder, BuildPlaces
<1>3. /\ entries' = entries \cup {This}
      /\ made' = [made EXCEPT ![This] = [c \in 1 .. This |-> IF c = This THEN Pinned[c] ELSE made[c][c]]]
  BY DEF Install
<1>4. DOMAIN made' = Libs /\ \A c \in Libs \ {This} : made'[c] = made[c] BY <1>3, <1>T DEF SetupTyped
<1>5. This \in 1 .. Top /\ \A c \in 1 .. This : c # This => made[c] = SubSeq(Pinned, 1, c)
  <2>1. Len(builder.done) \in Nat /\ Len(builder.done) <= Top /\ Len(builder.done) # Top
    BY <1>1, <1>T, <1>L, LenProperties DEF SetupInv, SetupTyped, BuildKnown, Building
  <2>2. This \in 1 .. Top /\ \A c \in 1 .. This : c # This => c \in 1 .. Len(builder.done) BY <2>1, <1>L DEF This
  <2> QED BY <1>1, <2>2 DEF SetupInv, BuildKnown, Building
<1>6. made'[This] = [c \in 1 .. This |-> Pinned[c]]
  <2>1. made'[This] = [c \in 1 .. This |-> IF c = This THEN Pinned[c] ELSE made[c][c]] BY <1>3, <1>5, <1>L, <1>T DEF SetupTyped
  <2>2. ASSUME NEW c \in 1 .. This, c # This PROVE made[c][c] = Pinned[c]
    <3>1. c \in 0 .. Len(Pinned) /\ c \in 1 .. c BY <1>5, <1>L
    <3> QED BY <1>5, <1>L, <2>2, <3>1, FirstIs
  <2> QED BY <2>1, <2>2
<1>7. SubSeq(Pinned, 1, This) = [c \in 1 .. This |-> Pinned[c]]
  <2>1. This \in 0 .. Len(Pinned) BY <1>5, <1>L
  <2>2. SubSeq(Pinned, 1, This) \in Seq(Nat) /\ Len(SubSeq(Pinned, 1, This)) = This
        /\ \A i \in 1 .. This : SubSeq(Pinned, 1, This)[i] = Pinned[i]
    BY <2>1, <1>L, FirstIs
  <2>3. SubSeq(Pinned, 1, This) \in [1 .. This -> Nat] BY <2>2, LenProperties
  <2> QED BY <2>2, <2>3
<1> QED BY <1>1, <1>2, <1>3, <1>4, <1>6, <1>7, GoesOn DEF Install

\* The record names the library that is in the folder now.
LEMMA RecordGoesOn == ASSUME SetupInv, RecordBuilt PROVE SetupGoesOn
<1> DEFINE n == Len(builder.done)
           done == Append(builder.done, Pinned[This])
<1>P. UNCHANGED <<version, ready, entries, made, manifest>> /\ builder.pc = "record" BY DEF RecordBuilt, ToolsStay, folder
<1>D. progress' = done /\ builder' = [builder EXCEPT !.done = done, !.pc = NextPlace(done)] BY DEF RecordBuilt
<1>V. Pinned' = Pinned /\ Top' = Top /\ Libs' = Libs BY <1>P DEF Pinned, Top, Libs
<1>T. SetupTyped /\ Pinned \in Seq(Nat) /\ Top \in Nat \ {0} /\ Len(Pinned) = Top /\ version \in Nat \ {0}
  BY LibsAre DEF SetupInv, SetupTyped, Top
<1>1. /\ \A i \in 1 .. n : /\ builder.done[i] = Pinned[i] /\ i \in entries /\ made[i] = SubSeq(Pinned, 1, i)
      /\ n # Top /\ ~Installed /\ This \in entries /\ made[This] = SubSeq(Pinned, 1, This)
  BY <1>P DEF SetupInv, BuildKnown, Building
<1>2. n \in Nat /\ n <= Top /\ builder.done \in Seq(Nat) BY <1>T, LenProperties DEF SetupTyped
<1>3. This = n + 1 /\ This \in 1 .. Top BY <1>1, <1>2, <1>T DEF This
<1>4. Pinned[This] \in Nat BY <1>T, <1>3, ElementOfSeq
<1>5. /\ done \in Seq(Nat) /\ Len(done) = n + 1 /\ done[n + 1] = Pinned[This]
      /\ \A i \in 1 .. n : done[i] = builder.done[i]
  BY <1>2, <1>4, AppendProperties
<1> HIDE DEF done, n
<1>6. Len(done) \in Nat /\ Len(done) <= Top BY <1>1, <1>2, <1>5, <1>T
<1>7. /\ builder' \in Builder /\ builder'.done = done
      /\ builder'.pc = (IF Len(done) = Top THEN "verify" ELSE "library")
  BY <1>D, <1>T, <1>5 DEF SetupTyped, Builder, BuildPlaces, NextPlace
<1>8. SetupTyped' BY <1>D, <1>P, <1>T, <1>V, <1>5, <1>6, <1>7 DEF SetupTyped, Builder
<1>9. \A i \in 1 .. Len(done) : /\ done[i] = Pinned[i] /\ i \in entries /\ made[i] = SubSeq(Pinned, 1, i)
  <2>1. \A i \in 1 .. Len(done) : i \in 1 .. n \/ i = n + 1 BY <1>2, <1>5
  <2> QED BY <1>1, <1>3, <1>5, <2>1
<1>10. ~Installed' BY <1>1, <1>P, <1>V DEF Installed
<1>11. BuildKnown'
  <2>1. Len(done) # 0 BY <1>2, <1>5
  <2> QED BY <1>D, <1>P, <1>V, <1>6, <1>7, <1>9, <1>10, <2>1 DEF BuildKnown
<1>12. RecordKnown' BY <1>D, <1>P, <1>V, <1>9 DEF RecordKnown
<1>13. ManifestKnown' BY <1>P, <1>10 DEF SetupInv, ManifestKnown
<1>14. SoFar'
  <2>1. version \in 1 .. version BY <1>T
  <2> QED BY <1>D, <1>P, <1>9, <2>1 DEF SoFar, Pinned
<1>15. WholeWhenInstalled BY <1>10 DEF WholeWhenInstalled
<1> QED BY <1>8, <1>11, <1>12, <1>13, <1>14, <1>15 DEF SetupInv, SetupGoesOn

\* What was built to the end is whole when the manifest says so.
LEMMA VerifyGoesOn ==
  ASSUME SetupInv, builder.pc = "verify", ManifestWritten, progress' \in {progress, <<>>}, Ends,
         UNCHANGED <<version, ready>>
  PROVE  SetupGoesOn
<1>0. <<>> \in Seq(Nat) /\ Len(<<>>) = 0 OBVIOUS
<1>V. Pinned' = Pinned /\ Top' = Top /\ Libs' = Libs BY DEF Pinned, Top, Libs
<1>T. /\ SetupTyped /\ Pinned \in Seq(Nat) /\ Top \in Nat \ {0} /\ Len(Pinned) = Top /\ Libs = 1 .. Top
      /\ version \in Nat \ {0}
  BY LibsAre DEF SetupInv, SetupTyped, Top
<1>M. manifest' = builder.done /\ UNCHANGED <<entries, made>> BY DEF ManifestWritten
<1>1. /\ Top <= Len(progress) /\ Len(builder.done) = Top
      /\ \A i \in 1 .. Top : /\ builder.done[i] = Pinned[i] /\ progress[i] = Pinned[i]
                             /\ made[i] = SubSeq(Pinned, 1, i)
  BY DEF SetupInv, BuildKnown, Building
<1>2. Len(progress) = Top /\ progress \in Seq(Nat) /\ builder.done \in Seq(Nat)
  BY <1>1, <1>T, LenProperties DEF SetupTyped
<1>3. builder.done = Pinned BY <1>1, <1>2, <1>T, SeqEqual
<1>4. progress = Pinned BY <1>1, <1>2, <1>T, SeqEqual
<1>R. progress' \in Seq(Nat) /\ Len(progress') <= Top
  <2>1. CASE progress' = progress BY <2>1, <1>2, <1>T
  <2>2. CASE progress' = <<>> BY <2>2, <1>0, <1>T
  <2> QED BY <2>1, <2>2
<1>5. SetupTyped' BY <1>0, <1>M, <1>R, <1>T, <1>V, <1>1, <1>2 DEF SetupTyped, Ends, NoBuild, BuildPlaces
<1>6. BuildKnown' BY DEF BuildKnown, Ends, NoBuild, Building
<1>7. RecordKnown' BY <1>0, <1>M, <1>V DEF SetupInv, RecordKnown
<1>8. ManifestKnown'
  <2>1. version \in 1 .. version BY <1>T
  <2> QED BY <1>0, <1>M, <1>3, <1>4, <2>1 DEF ManifestKnown, Pinned
<1>9. SoFar' BY <1>0 DEF SetupInv, SoFar
<1>10. WholeWhenInstalled BY <1>M, <1>T, <1>V, <1>1 DEF WholeWhenInstalled, Whole
<1> QED BY <1>5, <1>6, <1>7, <1>8, <1>9, <1>10 DEF SetupInv, SetupGoesOn

\* An update of the app.
LEMMA UpdateGoesOn == ASSUME NoneComesBack, SetupInv, Update PROVE SetupGoesOn
<1>P. /\ version' = version + 1 /\ UNCHANGED <<ready, entries, made, manifest, progress, builder>>
      /\ version < Len(Pins) /\ builder.pc = "off"
  BY DEF Update, Busy, folder
<1>T. SetupTyped BY DEF SetupInv
<1>D. DOMAIN Pins = 1 .. Len(Pins) /\ Len(Pins) \in Nat BY ToolchainAssumption, LenProperties
<1>1. version \in Nat /\ version \in 1 .. Len(Pins) /\ version + 1 \in 1 .. Len(Pins) BY <1>P, <1>T, <1>D DEF SetupTyped
<1>2. PICK top \in Nat \ {0} :
        \A v \in DOMAIN Pins : v \in Nat \ {0} /\ Pins[v] \in Seq(Nat) /\ Len(Pins[v]) = top /\ DOMAIN Pins[v] = 1 .. top
  BY PinsAre
<1>3. /\ Pinned = Pins[version] /\ Pinned' = Pins[version + 1] /\ Top = top /\ Top' = top /\ Libs = 1 .. top /\ Libs' = 1 .. top
      /\ Pinned \in Seq(Nat) /\ Pinned' \in Seq(Nat)
  BY <1>1, <1>2, <1>D, <1>P DEF Pinned, Top, Libs
<1>4. ASSUME NEW u \in 1 .. version, NEW c \in 1 .. top, Pins[u][c] = Pinned'[c] PROVE Pinned[c] = Pins[u][c]
  <2>1. u \in DOMAIN Pins /\ version \in DOMAIN Pins /\ version + 1 \in DOMAIN Pins /\ u <= version /\ version <= version + 1
    BY <1>1, <1>D
  <2>2. c \in DOMAIN Pins[u] BY <1>2, <2>1
  <2> QED BY <1>3, <1>4, <2>1, <2>2 DEF NoneComesBack
<1>5. progress \in Seq(Nat) /\ Len(progress) \in Nat /\ Len(progress) <= top BY <1>3, <1>T, LenProperties DEF SetupTyped
<1>6. \A i \in 1 .. Len(progress) : progress[i] = Pinned'[i] => progress[i] = Pinned[i]
  <2> SUFFICES ASSUME NEW i \in 1 .. Len(progress), progress[i] = Pinned'[i] PROVE progress[i] = Pinned[i] OBVIOUS
  <2>1. PICK u \in 1 .. version : progress[i] = Pins[u][i] BY DEF SetupInv, SoFar
  <2>2. i \in 1 .. top BY <1>2, <1>5
  <2> QED BY <1>4, <2>1, <2>2
<1>7. Installed' => Pinned' = Pinned /\ Installed
  <2> SUFFICES ASSUME Installed' PROVE Pinned' = Pinned BY <1>P DEF Installed
  <2>1. manifest = Pinned' BY <1>P DEF Installed
  <2>2. Len(Pinned') = top /\ Len(Pinned) = top BY <1>3 DEF Top
  <2>3. manifest # <<>> BY <1>2, <2>1, <2>2
  <2>4. PICK u \in 1 .. version : manifest = Pins[u] BY <2>3 DEF SetupInv, ManifestKnown
  <2>5. \A c \in 1 .. top : Pinned[c] = Pinned'[c] BY <1>4, <2>1, <2>4
  <2> QED BY <1>3, <2>2, <2>5, SeqEqual
<1>8. SetupTyped' BY <1>D, <1>1, <1>3, <1>P, <1>T DEF SetupTyped
<1>9. BuildKnown' BY <1>P DEF BuildKnown, Building
<1>10. RecordKnown'
  <2> SUFFICES ASSUME Len(progress) > 0, progress[1] = Pinned'[1], entries # {}
               PROVE  \A m \in 1 .. Len(progress) :
                        /\ m \in entries
                        /\ (\A i \in 1 .. m : progress[i] = Pinned'[i]) => made[m] = SubSeq(Pinned', 1, m)
    BY <1>P DEF RecordKnown
  <2>1. 1 \in 1 .. Len(progress) BY <1>5
  <2>2. progress[1] = Pinned[1] BY <1>6, <2>1
  <2>3. \A m \in 1 .. Len(progress) :
          /\ m \in entries
          /\ (\A i \in 1 .. m : progress[i] = Pinned[i]) => made[m] = SubSeq(Pinned, 1, m)
    BY <2>2 DEF SetupInv, RecordKnown
  <2>4. ASSUME NEW m \in 1 .. Len(progress), \A i \in 1 .. m : progress[i] = Pinned'[i]
        PROVE  made[m] = SubSeq(Pinned', 1, m)
    <3>1. \A i \in 1 .. m : i \in 1 .. Len(progress) BY <1>5
    <3>2. \A i \in 1 .. m : Pinned[i] = Pinned'[i] BY <1>6, <2>4, <3>1
    <3>3. m \in 0 .. Len(Pinned) /\ m <= Len(Pinned')
      <4>1. Len(Pinned) = top /\ Len(Pinned') = top BY <1>3 DEF Top
      <4> QED BY <1>2, <1>5, <4>1
    <3>4. SubSeq(Pinned, 1, m) = SubSeq(Pinned', 1, m)
      <4> DEFINE s == Pinned
                 t == Pinned'
      <4>1. s \in Seq(Nat) /\ t \in Seq(Nat) /\ m \in 0 .. Len(s) /\ m <= Len(t) /\ \A i \in 1 .. m : s[i] = t[i]
        BY <1>3, <3>2, <3>3
      <4> HIDE DEF s, t
      <4>2. SubSeq(s, 1, m) = SubSeq(t, 1, m) BY <4>1, SameFirst
      <4> QED BY <4>2 DEF s, t
    <3>5. \A i \in 1 .. m : progress[i] = Pinned[i] BY <2>4, <3>2
    <3> QED BY <2>3, <3>4, <3>5
  <2> QED BY <2>3, <2>4
<1>11. ManifestKnown'
  <2>1. \A u \in 1 .. version : u \in 1 .. version + 1 BY <1>1
  <2>2. manifest' # <<>> => \E u \in 1 .. version' : manifest' = Pins[u] BY <1>P, <2>1 DEF SetupInv, ManifestKnown
  <2> QED BY <1>7, <1>P, <2>2 DEF SetupInv, ManifestKnown
<1>12. SoFar'
  <2>1. \A u \in 1 .. version : u \in 1 .. version + 1 BY <1>1
  <2> QED BY <1>P, <2>1 DEF SetupInv, SoFar
<1>13. WholeWhenInstalled BY <1>3, <1>7, <1>P DEF WholeWhenInstalled, Whole
<1> QED BY <1>8, <1>9, <1>10, <1>11, <1>12, <1>13 DEF SetupInv, SetupGoesOn

\* The folder is deleted, or removed as far as the app got.
LEMMA DeletedGoesOn == ASSUME SetupInv, FolderDeleted PROVE SetupGoesOn
<1>1. DOMAIN made' = Libs BY DEF FolderDeleted
<1>2. builder' \in Builder /\ Len(builder'.done) <= Top /\ builder'.pc \notin Building
  BY DEF FolderDeleted, Busy, SetupInv, SetupTyped, Builder, Building
<1> QED BY <1>1, <1>2, Removed DEF FolderDeleted

LEMMA CutGoesOn == ASSUME SetupInv, CutShort, UNCHANGED <<version, ready, progress>>, Ends PROVE SetupGoesOn
<1>0. <<>> \in Seq(Nat) /\ Len(<<>>) = 0 OBVIOUS
<1>1. DOMAIN made' = Libs BY DEF CutShort
<1>2. Top \in Nat BY LibsAre DEF SetupInv, SetupTyped
<1>3. builder' \in Builder /\ Len(builder'.done) <= Top /\ builder'.pc \notin Building
  BY <1>0, <1>2 DEF Ends, NoBuild, Builder, BuildPlaces, Building
<1>4. progress = <<>> \/ entries = {} \/ progress[1] # Pinned[1] BY Useless DEF CutShort
<1>5. entries' \subseteq entries /\ manifest' \in {manifest, <<>>} /\ builder.pc = "check" BY DEF CutShort
<1>6. entries' = {} \/ progress' = <<>> \/ progress[1] # Pinned[1] BY <1>4, <1>5
<1> QED BY <1>1, <1>3, <1>5, <1>6, Removed

\* What the setup does keeps what is known of it.
LEMMA InterruptedGoesOn == ASSUME SetupInv, Interrupted PROVE SetupGoesOn
<1>0. <<>> \in Seq(Nat) /\ Len(<<>>) = 0 OBVIOUS
<1>2. Top \in Nat BY LibsAre DEF SetupInv, SetupTyped
<1>3. builder' \in Builder /\ Len(builder'.done) <= Top /\ builder'.pc \notin Building /\ Ends /\ UNCHANGED <<version, ready>>
  BY <1>0, <1>2 DEF Interrupted, Ends, NoBuild, Builder, BuildPlaces, Building
<1>4. CASE CutShort /\ UNCHANGED progress BY <1>3, <1>4, CutGoesOn
<1>5. CASE builder.pc = "verify" /\ Runs /\ ManifestWritten /\ UNCHANGED progress BY <1>3, <1>5, VerifyGoesOn
<1>6. CASE UNCHANGED folder /\ progress' \in {progress} \cup (IF builder.pc = "record" THEN {<<>>} ELSE {})
  BY <1>3, <1>6, AtRest DEF SetupInv, SetupTyped
<1> QED BY <1>4, <1>5, <1>6 DEF Interrupted

LEMMA RestGoesOn ==
  ASSUME SetupInv, PackagesFail \/ BuildFails \/ InstallPackages \/ TempCleaned
                   \/ SetupStarts("packages") \/ SetupStarts("check")
  PROVE  SetupGoesOn
<1>0. <<>> \in Seq(Nat) /\ Len(<<>>) = 0 OBVIOUS
<1>2. Top \in Nat BY LibsAre DEF SetupInv, SetupTyped
<1> USE <1>0, <1>2 DEF SetupInv, SetupTyped, Builder, BuildPlaces, Building, NoBuild
<1>3. CASE PackagesFail BY <1>3, AtRest DEF PackagesFail, Ends, FolderStays, ToolsStay
<1>4. CASE BuildFails
  <2>1. Ends /\ UNCHANGED <<version, folder>> /\ ready' = ready /\ progress' \in {progress, <<>>}
    BY <1>4 DEF BuildFails, FolderStays, ToolsStay
  <2>2. ready' \in BOOLEAN BY <2>1
  <2>3. builder' \in Builder /\ Len(builder'.done) <= Top /\ builder'.pc \notin Building BY <2>1 DEF Ends
  <2> QED BY <2>1, <2>2, <2>3, AtRest
<1>5. CASE InstallPackages BY <1>5, AtRest DEF InstallPackages, Ends
<1>6. CASE TempCleaned BY <1>6, AtRest DEF TempCleaned, Busy
<1>7. ASSUME NEW place \in {"packages", "check"}, SetupStarts(place) PROVE SetupGoesOn
  <2>1. builder' = [NoBuild EXCEPT !.pc = place, !.asked = TRUE] /\ UNCHANGED <<version, ready, folder, progress>>
    BY <1>7 DEF SetupStarts
  <2>2. builder'.pc = place /\ builder'.done = <<>> /\ builder' \in Builder BY <2>1
  <2> QED BY <2>1, <2>2, AtRest
<1> QED BY <1>3, <1>4, <1>5, <1>6, <1>7

\* And so a build can succeed.
LEMMA SetupIsRight == ASSUME SetupInv PROVE SetupTypeOK /\ CanSucceed
<1>T. SetupTyped /\ Pinned \in Seq(Nat) /\ Top \in Nat \ {0} /\ Len(Pinned) = Top /\ Libs = 1 .. Top
  BY LibsAre DEF SetupInv, SetupTyped, Top
<1>1. SetupTypeOK
  <2>1. \A s \in {manifest, progress, builder.done} : s \in Seq(Nat) /\ Len(s) <= Top BY <1>T DEF SetupTyped
  <2>2. \A s \in Seq(Nat) : \A i \in DOMAIN s : s[i] \in Nat BY ElementOfSeq, LenProperties
  <2>3. builder.pc \in BuildPlaces /\ builder.asked \in BOOLEAN BY <1>T DEF SetupTyped
  <2> QED BY <1>T, <2>1, <2>2, <2>3 DEF SetupTypeOK, SetupTyped
<1> DEFINE n == Len(builder.done)
<1>2. n \in Nat /\ n <= Top BY <1>T, LenProperties DEF SetupTyped
<1>3. ASSUME NEW c \in 1 .. n, made[c] = SubSeq(Pinned, 1, c) PROVE made[c] # Gone /\ made[c][c] = Pinned[c]
  <2>1. c \in 0 .. Len(Pinned) /\ c \in 1 .. c BY <1>2, <1>T
  <2>2. Len(made[c]) = c /\ made[c][c] = Pinned[c] BY <1>3, <1>T, <2>1, FirstIs
  <2>3. Len(Gone) = 0 BY DEF Gone
  <2> QED BY <2>1, <2>2, <2>3
<1>4. builder.pc \in Building => \A i \in 1 .. n : i \in entries /\ made[i] = SubSeq(Pinned, 1, i)
  BY DEF SetupInv, BuildKnown
<1>5. ASSUME builder.pc = "library" PROVE Buildable
  <2>1. Before = 1 .. n BY <1>2 DEF Before, This
  <2> QED BY <1>3, <1>4, <1>5, <2>1 DEF Buildable, Building
<1>6. ASSUME builder.pc = "verify" PROVE Runs
  <2>1. n = Top BY <1>6 DEF SetupInv, BuildKnown, Building
  <2>2. Top \in 1 .. Top BY <1>T
  <2> QED BY <1>3, <1>4, <1>6, <1>T, <2>1, <2>2 DEF Runs, Building
<1> QED BY <1>1, <1>5, <1>6 DEF CanSucceed
-------------------------------------------------------------------------------
(* The view, and the two together. *)

\* A page that waits for a run is the setup's, and a panel that is there is the
\* view's.
ViewKnown ==
  /\ view \in [at : Places, seen : [known : BOOLEAN, ready : BOOLEAN, installed : BOOLEAN]]
  /\ builder.asked => view.at = "setup"
  /\ panel.phase # "unmounted" => view.at = "tools"

\* Every step of the setup keeps what is known of it.
LEMMA SetupStepGoesOn ==
  ASSUME NoneComesBack, SetupInv,
         SetupSteps \/ SetupFailures \/ Update \/ FolderDeleted \/ TempCleaned \/ Interrupted
           \/ SetupStarts("packages") \/ SetupStarts("check")
  PROVE  SetupGoesOn
<1>1. CASE SetupSteps
  <2>1. CASE VerifyRuns BY <2>1, VerifyGoesOn DEF VerifyRuns
  <2> QED BY <1>1, <2>1, RestGoesOn, CheckGoesOn, CompileGoesOn, InstallGoesOn, RecordGoesOn DEF SetupSteps
<1>2. CASE SetupFailures BY <1>2, RestGoesOn DEF SetupFailures
<1> QED BY <1>1, <1>2, RestGoesOn, UpdateGoesOn, DeletedGoesOn, InterruptedGoesOn

LEMMA SetupStaysSound == ASSUME SetupInv, SetupStays PROVE SetupGoesOn
<1>1. UNCHANGED <<version, ready, folder, progress, builder>> BY DEF SetupStays, setupVars
<1>2. builder' \in Builder BY <1>1 DEF SetupInv, SetupTyped, Builder
<1> QED BY <1>1, <1>2, PageOnly

\* A run keeps the page that asked for it no longer than it lasts.
LEMMA PageIsKept ==
  ASSUME SetupInv, SetupSteps \/ SetupFailures
  PROVE  builder'.asked => builder.asked /\ builder'.pc # "off"
<1>1. builder \in Builder BY DEF SetupInv, SetupTyped, Builder
<1>2. CASE Ends BY <1>2 DEF Ends, NoBuild
<1>3. ASSUME NEW done, NEW place, place # "off", builder' = [builder EXCEPT !.done = done, !.pc = place]
      PROVE  builder'.asked => builder.asked /\ builder'.pc # "off"
  BY <1>1, <1>3 DEF Builder
<1>4. ASSUME NEW place, place # "off", builder' = [builder EXCEPT !.pc = place]
      PROVE  builder'.asked => builder.asked /\ builder'.pc # "off"
  BY <1>1, <1>4 DEF Builder
<1>5. \A done : NextPlace(done) # "off" BY DEF NextPlace
<1>6. CASE InstallPackages BY <1>2, <1>6 DEF InstallPackages
<1>7. CASE Check BY <1>2, <1>3, <1>5, <1>7 DEF Check
<1>8. CASE Compile BY <1>4, <1>8 DEF Compile, BuildGoes
<1>9. CASE Install BY <1>4, <1>9 DEF Install, BuildGoes
<1>10. CASE RecordBuilt BY <1>3, <1>5, <1>10 DEF RecordBuilt
<1>11. CASE VerifyRuns BY <1>2, <1>11 DEF VerifyRuns
<1>12. CASE SetupFailures BY <1>2, <1>12 DEF SetupFailures, PackagesFail, BuildFails
<1> QED BY <1>6, <1>7, <1>8, <1>9, <1>10, <1>11, <1>12 DEF SetupSteps

\* No step of the whole does more to the setup, and the view goes along.
LEMMA ImportGoesOn ==
  ASSUME NoneComesBack, SetupInv, ViewKnown, [ImportNext]_importVars
  PROVE  SetupGoesOn /\ ViewKnown'
<1>T. builder \in Builder BY DEF SetupInv, SetupTyped, Builder
<1> DEFINE Views == [at : Places, seen : [known : BOOLEAN, ready : BOOLEAN, installed : BOOLEAN]]
<1>V. view \in Views BY DEF ViewKnown
<1>S. ASSUME SetupStays PROVE SetupGoesOn /\ builder' = builder BY <1>S, SetupStaysSound DEF SetupStays, setupVars
<1>P. PullsStay \/ PullsWait => panel' = panel BY DEF PullsStay, PullsWait, vars, pullVars, panelVars
<1>L. Left \in Views /\ Left.at = "left" BY DEF Left, Places, Unknown
<1>1. CASE Open \/ ChecksTool \/ CheckAgain
  <2>1. SetupStays /\ PullsStay BY <1>1 DEF Open, ChecksTool, CheckAgain
  <2>2. view' \in Views /\ ~builder.asked /\ view.at # "tools"
    BY <1>1, <1>L, <1>V DEF Open, ChecksTool, CheckAgain, Offers, ViewKnown, Places, Left, Unknown
  <2> QED BY <1>S, <1>P, <2>1, <2>2 DEF ViewKnown
<1>2. CASE Leave
  <2>1. builder' = [builder EXCEPT !.asked = FALSE] /\ UNCHANGED <<version, ready, folder, progress>> BY <1>2 DEF Leave
  <2>2. builder' \in Builder /\ builder'.pc = builder.pc /\ builder'.done = builder.done /\ ~builder'.asked
    BY <1>T, <2>1 DEF Builder
  <2>3. SetupGoesOn BY <2>1, <2>2, PageOnly
  <2>4. view' \in Views /\ panel' = panel /\ view.at # "tools" BY <1>2, <1>L, <1>P DEF Leave
  <2> QED BY <2>2, <2>3, <2>4 DEF ViewKnown
<1>3. CASE ReadsStatus
  <2>1. SetupStays /\ PullsStay BY <1>3 DEF ReadsStatus
  <2>2. SystemReady \in BOOLEAN /\ Installed \in BOOLEAN BY DEF SetupInv, SetupTyped, SystemReady, Installed
  <2>3. view' = [at |-> "setup", seen |-> [known |-> TRUE, ready |-> SystemReady, installed |-> Installed]] /\ view.at = "status"
    BY <1>3 DEF ReadsStatus
  <2>4. view' \in Views /\ view'.at = "setup" BY <2>2, <2>3 DEF Places
  <2> QED BY <1>S, <1>P, <2>1, <2>3, <2>4 DEF ViewKnown
<1>4. ASSUME NEW place \in {"packages", "check"}, Asked(place), ~builder.asked PROVE SetupGoesOn /\ ViewKnown'
  <2>1. PullsStay /\ view.at # "tools" BY <1>4 DEF Asked
  <2>2. CASE Busy
    <3>1. SetupStays /\ view' = [view EXCEPT !.at = "checking"] BY <1>4, <2>2 DEF Asked
    <3>2. view' \in Views BY <1>V, <3>1 DEF Places
    <3> QED BY <1>4, <1>S, <1>P, <2>1, <3>1, <3>2 DEF ViewKnown
  <2>3. CASE ~Busy
    <3>1. SetupStarts(place) /\ view' = [view EXCEPT !.at = "setup"] BY <1>4, <2>3 DEF Asked
    <3>2. view' \in Views /\ view'.at = "setup" BY <1>V, <3>1 DEF Places
    <3>3. SetupGoesOn BY <1>4, <3>1, SetupStepGoesOn
    <3> QED BY <1>P, <2>1, <3>2, <3>3 DEF ViewKnown
  <2> QED BY <2>2, <2>3
<1>5. CASE ClickInstall \/ ClickBuild BY <1>4, <1>5 DEF ClickInstall, ClickBuild, Offers
<1>6. CASE SetupRuns \/ SetupFails
  <2>1. (SetupSteps \/ SetupFailures) /\ PullsWait /\ Answered BY <1>6 DEF SetupRuns, SetupFails
  <2>2. SetupGoesOn /\ (builder'.asked => builder.asked /\ builder'.pc # "off") BY <2>1, SetupStepGoesOn, PageIsKept
  <2>3. CASE builder.asked /\ builder'.pc = "off"
    <3>1. view' = [view EXCEPT !.at = "checking"] /\ view.at = "setup" BY <2>1, <2>3 DEF Answered, ViewKnown
    <3>2. view' \in Views BY <1>V, <3>1 DEF Places
    <3> QED BY <1>P, <2>1, <2>2, <2>3, <3>1, <3>2 DEF ViewKnown
  <2>4. CASE ~(builder.asked /\ builder'.pc = "off")
    <3>1. view' = view BY <2>1, <2>4 DEF Answered
    <3> QED BY <1>P, <2>1, <2>2, <3>1 DEF ViewKnown
  <2> QED BY <2>3, <2>4
<1>7. CASE ToolsChange
  <2>1. (Update \/ FolderDeleted \/ TempCleaned) /\ PullsStay /\ view' = view BY <1>7 DEF ToolsChange
  <2>2. SetupGoesOn /\ builder' = builder BY <2>1, SetupStepGoesOn DEF Update, FolderDeleted, TempCleaned
  <2> QED BY <1>P, <2>1, <2>2 DEF ViewKnown
<1>8. CASE PanelMounts
  <2>1. SetupStays /\ view.at # "setup" /\ view' = [at |-> "tools", seen |-> Unknown] BY <1>8 DEF PanelMounts
  <2>2. view' \in Views /\ view'.at = "tools" BY <2>1 DEF Places, Unknown
  <2> QED BY <1>S, <2>1, <2>2 DEF ViewKnown
<1>9. CASE PanelLeaves
  <2>1. SetupStays /\ view' = Left /\ panel.phase # "unmounted" /\ panel' = Unmounted
    BY <1>9 DEF PanelLeaves, Unmount, Shows
  <2>2. panel'.phase = "unmounted" BY <2>1 DEF Unmounted, Mounted
  <2> QED BY <1>S, <1>L, <2>1, <2>2 DEF ViewKnown
<1>10. CASE PanelGoesOn
  <2>1. SetupStays /\ view' = view /\ (panel.phase = "unmounted") = (panel'.phase = "unmounted")
    BY <1>10 DEF PanelGoesOn, SetupStays
  <2> QED BY <1>S, <2>1 DEF ViewKnown
<1>11. CASE AppEnds
  <2>1. Interrupted /\ view' = Left /\ panel' = Unmounted /\ builder' = NoBuild
    BY <1>11 DEF AppEnds, Killed, Shows, Interrupted, Ends
  <2>2. panel'.phase = "unmounted" /\ ~builder'.asked BY <2>1 DEF Unmounted, Mounted, NoBuild
  <2>3. SetupGoesOn BY <2>1, SetupStepGoesOn
  <2> QED BY <1>L, <2>1, <2>2, <2>3 DEF ViewKnown
<1>12. CASE UNCHANGED importVars
  <2>1. SetupStays /\ view' = view /\ PullsStay BY <1>12 DEF importVars, SetupStays, PullsStay
  <2> QED BY <1>S, <1>P, <2>1 DEF ViewKnown
<1> QED BY <1>1, <1>2, <1>3, <1>5, <1>6, <1>7, <1>8, <1>9, <1>10, <1>11, <1>12 DEF ImportNext

LEMMA InitView == ImportInit => SetupInv /\ ViewKnown
<1> SUFFICES ASSUME ImportInit PROVE SetupInv /\ ViewKnown OBVIOUS
<1>1. SetupInv BY InitSetup DEF ImportInit
<1>2. view = Left /\ ~builder.asked /\ panel = Unmounted BY DEF ImportInit, Init, SetupInit, NoBuild
<1>3. panel.phase = "unmounted" BY <1>2 DEF Unmounted, Mounted
<1> QED BY <1>1, <1>2, <1>3 DEF ViewKnown, Left, Unknown, Places

\* Where no release is pinned again after another replaced it: whatever an
\* interrupted build, an update or a deletion left in the tools folder and in the
\* record of what was built, a build that goes on can succeed.
THEOREM ResumedBuildsSucceed == ASSUME NoneComesBack PROVE ImportSpec => []SetupIsSound
<1>1. SetupInv /\ ViewKnown /\ [ImportNext]_importVars => SetupInv' /\ ViewKnown'
  BY ImportGoesOn DEF SetupGoesOn
<1>2. SetupInv /\ ViewKnown => SetupIsSound BY SetupIsRight DEF SetupIsSound, ViewTypeOK, ViewKnown
<1> QED BY InitView, <1>1, <1>2, PTL DEF ImportSpec

\* Under the same condition the tools folder never comes to read as installed
\* half-finished (manifest.ts), and only a removal takes from one that is whole.
THEOREM InstalledMeansWhole == ASSUME NoneComesBack PROVE ImportSpec => InstalledIsWhole
<1>1. SetupInv /\ ViewKnown /\ [ImportNext]_importVars => SetupInv' /\ ViewKnown' /\ [WholeWhenInstalled]_setupVars
  BY ImportGoesOn DEF SetupGoesOn
<1> QED BY InitView, <1>1, PTL DEF ImportSpec, InstalledIsWhole

\* The setup of the tools and the view touch no backup.
LEMMA ImportKeeps == ASSUME IInv, [ImportNext]_importVars PROVE IInv' /\ Kept
<1>1. CASE [Next]_vars BY <1>1, NextIInv
<1>2. CASE PullsWait
  <2>1. UNCHANGED <<disk, job, tracker, del>> BY <1>2 DEF PullsWait
  <2>2. SameFolders BY <2>1, NoFolder DEF IInv
  <2> QED BY <2>1, <2>2, JobStep
<1>3. CASE \/ Open \/ Leave \/ ChecksTool \/ ReadsStatus \/ ClickInstall \/ ClickBuild \/ CheckAgain
           \/ ToolsChange
  BY <1>1, <1>3 DEF Open, Leave, ChecksTool, ReadsStatus, ClickInstall, ClickBuild, CheckAgain, Asked,
                    ToolsChange, PullsStay
<1>4. CASE SetupRuns \/ SetupFails BY <1>2, <1>4 DEF SetupRuns, SetupFails
<1>5. CASE PanelMounts \/ PanelLeaves \/ PanelGoesOn \/ AppEnds
  BY <1>1, <1>5 DEF PanelMounts, PanelLeaves, PanelGoesOn, AppEnds, Next, Examiner
<1>6. CASE UNCHANGED importVars BY <1>1, <1>6 DEF importVars
<1> QED BY <1>3, <1>4, <1>5, <1>6 DEF ImportNext

\* The same with the view and the setup of the tools around the panel, under which
\* a build may fail or be interrupted and the app be updated.
THEOREM EvidenceStaysInTheApp == ImportSpec => EvidenceIsKept
<1>1. IInv /\ [ImportNext]_importVars => IInv' /\ [FinishedIsKept /\ NothingRemovedUntraced]_vars
  BY ImportKeeps DEF Kept
<1>2. ImportInit => IInv BY InitIInv DEF ImportInit
<1> QED BY <1>1, <1>2, PTL DEF ImportSpec, EvidenceIsKept

-------------------------------------------------------------------------------
(* The panel.  What of a queue is picked. *)

\* What is picked of a queue is some of it, each place at most once.
LEMMA PickedIs ==
  ASSUME NEW S, NEW q \in Seq(S), NEW at \in SUBSET DOMAIN q
  PROVE  /\ Picked(q, at) \in Seq(S)
         /\ \E f \in [DOMAIN Picked(q, at) -> at] :
              /\ \A n \in DOMAIN Picked(q, at) : Picked(q, at)[n] = q[f[n]]
              /\ \A m, n \in DOMAIN Picked(q, at) : f[m] = f[n] => m = n
<1>1. IsFiniteSet(at) /\ Cardinality(at) \in Nat
  <2>1. DOMAIN q = 1 .. Len(q) /\ Len(q) \in Nat OBVIOUS
  <2>2. IsFiniteSet(DOMAIN q) BY <2>1, FS_Interval
  <2>3. IsFiniteSet(at) BY <2>2, FS_Subset
  <2> QED BY <2>3, FS_CardinalityType
<1> DEFINE n == Cardinality(at)
           Below(i) == {j \in at : j <= i}
           r == [i \in at |-> Cardinality(Below(i))]
<1>2. \A i \in at : IsFiniteSet(Below(i)) /\ r[i] \in 1 .. n
  <2> SUFFICES ASSUME NEW i \in at PROVE IsFiniteSet(Below(i)) /\ r[i] \in 1 .. n OBVIOUS
  <2>1. Below(i) \in SUBSET at /\ i \in Below(i) BY DOMAIN q \subseteq Int
  <2>2. IsFiniteSet(Below(i)) /\ Cardinality(Below(i)) <= n BY <1>1, <2>1, FS_Subset
  <2>3. Cardinality(Below(i)) \in Nat /\ Cardinality(Below(i)) # 0
    BY <2>1, <2>2, FS_CardinalityType, FS_EmptySet
  <2> QED BY <1>1, <2>2, <2>3
<1>3. \A i, j \in at : r[i] = r[j] => i = j
  <2> SUFFICES ASSUME NEW i \in at, NEW j \in at, i < j PROVE r[i] # r[j] BY DOMAIN q \subseteq Int
  <2>1. Below(i) \in SUBSET Below(j) /\ j \in Below(j) /\ j \notin Below(i) BY DOMAIN q \subseteq Int
  <2>2. Cardinality(Below(i)) = Cardinality(Below(j)) => Below(i) = Below(j) BY <1>2, <2>1, FS_Subset
  <2> QED BY <2>1, <2>2
<1>4. r \in Injection(at, 1 .. n)
  BY <1>2, <1>3 DEF Injection, IsInjective
<1>5. \A k \in 1 .. n : \E i \in at : r[i] = k
  <2>1. IsFiniteSet(1 .. n) /\ Cardinality(1 .. n) = n BY <1>1, FS_Interval
  <2>2. r \in Surjection(at, 1 .. n) BY <1>4, <2>1, FS_Injection
  <2> QED BY <2>2 DEF Surjection
<1> DEFINE f == [k \in 1 .. n |-> CHOOSE i \in at : Cardinality({j \in at : j <= i}) = k]
<1>6. \A k \in 1 .. n : f[k] \in at /\ r[f[k]] = k BY <1>5
<1>7. Picked(q, at) = [k \in 1 .. n |-> q[f[k]]] BY DEF Picked
<1>8. DOMAIN Picked(q, at) = 1 .. n /\ \A k \in 1 .. n : Picked(q, at)[k] = q[f[k]]
  BY <1>7
<1> HIDE DEF r, n, f
<1>9. \A k \in 1 .. n : q[f[k]] \in S BY <1>6
<1>10. Picked(q, at) \in Seq(S)
  <2>1. Picked(q, at) \in [1 .. n -> S] BY <1>7, <1>9
  <2> QED BY <1>1, <2>1, SeqDef DEF n
<1>11. f \in [1 .. n -> at] BY <1>6 DEF f
<1>12. \A m, k \in 1 .. n : f[m] = f[k] => m = k BY <1>6
<1>13. f \in [DOMAIN Picked(q, at) -> at] BY <1>8, <1>11
<1>14. \A k \in DOMAIN Picked(q, at) : Picked(q, at)[k] = q[f[k]] BY <1>8
<1>15. \A m, k \in DOMAIN Picked(q, at) : f[m] = f[k] => m = k BY <1>8, <1>12
<1> QED BY <1>10, <1>13, <1>14, <1>15

-------------------------------------------------------------------------------
(* What the two queues may hold. *)

PullFolders == [dest : Dests \cup {NoDest}, dir : {"absent", "bare", "unfinished", "finished"},
            logs : {"absent", "partial", "whole"}, rec : BOOLEAN, kept : BOOLEAN, lines : SUBSET Lines]
Trackers == [folder : Pulls \cup {None}, stats : BOOLEAN, ended : BOOLEAN]
Jobs == [pc : JobPlaces, call : Nat, enable : BOOLEAN, ours : BOOLEAN, outcome : {"failed", "no_folder"}]
Copies == [pc : OpPlaces, folder : Pulls \cup {None}, copied : BOOLEAN]
Deletions == [pc : OpPlaces, folder : Pulls \cup {None}]

RequestsOf(types, cs, folders) ==
  [type : types, call : cs, folder : folders, dest : Dests \cup {NoDest}, enable : BOOLEAN]
Requests ==
  RequestsOf({"pull", "encryption"}, Clicks, {None}) \cup RequestsOf({"cancel", "state", "list"}, {0}, {None})
    \cup RequestsOf({"delete", "copy"}, {0}, Pulls)
Answers(type, cs, values) == [type : {type}, call : cs, ok : BOOLEAN, value : values]
Figures == [type : {"event"}, what : {"stats"}]
Errors == [type : {"event"}, what : {"error"}]
Dones == [type : {"event"}, what : {"done"}, folder : Pulls, logs : BOOLEAN]
CopyAnswers == [type : {"copy"}, value : {"copied", "failed"}, folder : Pulls]
Messages ==
  UNION {Figures, Errors, Dones, CopyAnswers,
         Answers("pull", Clicks, Pulls \cup {None}), Answers("encryption", Clicks, BOOLEAN \cup {None}),
         Answers("cancel", {0}, BOOLEAN), Answers("state", {0}, Trackers),
         Answers("list", {0}, SUBSET Pulls), Answers("delete", {0}, Pulls \cup {None})}

MainTypes ==
  /\ disk \in [Pulls -> PullFolders]
  /\ known \in Seq(Pulls) /\ Len(known) <= MaxDestinations
  /\ encrypts \in BOOLEAN /\ tracker \in Trackers /\ job \in Jobs /\ cancel \in {"null", "no", "yes"}
  /\ copy \in Copies /\ del \in Deletions /\ faults \in 0 .. MaxFaults
  /\ (tracker.folder # None) = (job.pc # "off")
  /\ (cancel # "null") = (job.pc \in InTry)
  /\ job.pc # "off" => job.call \in Clicks
  /\ copy.pc # "off" => copy.folder \in Pulls
  /\ job.pc # "off" => job.outcome # "no_folder"
  /\ job.pc = "turn_on" => ~encrypts

\* A step of the pull under way: it goes on, and what it tells of its end it notes;
\* or it ends, and has told so, unless its folder could not be made.
DoneEvent == [type |-> "event", what |-> "done", folder |-> Here, logs |-> Folder.rec]
Completes == Writes([Folder EXCEPT !.lines = @ \cup {"completed"}])
PullGoesOn ==
  /\ job.pc # "off" /\ job'.pc # "off" /\ job'.call = job.call /\ Here' = Here
  /\ \/ tracker'.ended = tracker.ended /\ toPanel' = toPanel
     \/ tracker'.ended = tracker.ended /\ Tell(<<Event("stats")>>)
     \/ tracker'.ended /\ Tell(<<Event("error")>>)
PullEnds ==
  /\ job.pc # "off" /\ job'.pc = "off" /\ Here' = None
  /\ \/ job'.outcome = "no_folder" /\ Tell(<<PullAnswer(FALSE)>>)
     \/ job.pc = "record" /\ Completes /\ Tell(<<DoneEvent, PullAnswer(TRUE)>>)
     \/ ~tracker.ended /\ Tell(<<Event("error"), PullAnswer(FALSE)>>)
     \/ tracker.ended /\ Tell(<<PullAnswer(FALSE)>>)
PullStep ==
  /\ MainTypes' /\ UNCHANGED <<copy, del, toMain>> /\ (encrypts => encrypts')
  /\ PullGoesOn \/ PullEnds

\* What the types are made of, for the steps of the pull.
LEMMA MainTypesAre ==
  ASSUME MainTypes
  PROVE  /\ DOMAIN tracker = {"folder", "stats", "ended"} /\ DOMAIN job = {"pc", "call", "enable", "ours", "outcome"}
         /\ tracker.ended \in BOOLEAN /\ job.outcome \in {"failed", "no_folder"}
         /\ job.pc # "off" => Here \in Pulls
         /\ Here \in Pulls => Folder \in PullFolders
BY DEF MainTypes, Trackers, Jobs, Here, Folder, None, Pulls

\* What the notes of no pull and of no job are.
LEMMA NotedAre ==
  ASSUME MainTypes
  PROVE  /\ \A pc \in JobPlaces : [job EXCEPT !.pc = pc] \in Jobs
         /\ \A pc \in JobPlaces, o \in {"failed", "no_folder"} : [job EXCEPT !.pc = pc, !.outcome = o] \in Jobs
         /\ \A ours \in BOOLEAN, pc \in JobPlaces : [job EXCEPT !.pc = pc, !.ours = ours] \in Jobs
         /\ \A stats \in BOOLEAN : [tracker EXCEPT !.stats = stats] \in Trackers
         /\ \A ended \in BOOLEAN : [tracker EXCEPT !.ended = ended] \in Trackers
         /\ NoPull \in Trackers /\ NoJob \in Jobs
BY Zenon DEF MainTypes, Trackers, Jobs, NoPull, NoJob, JobPlaces

\* A step that leaves the notes about the other parts as they are.
LEMMA MainTypesStay ==
  ASSUME MainTypes, UNCHANGED <<copy, del>>, disk' \in [Pulls -> PullFolders],
         known' \in Seq(Pulls), Len(known') <= MaxDestinations, encrypts' \in BOOLEAN,
         faults' = faults \/ Fault, tracker' \in Trackers, job' \in Jobs, cancel' \in {"null", "no", "yes"},
         (tracker'.folder # None) = (job'.pc # "off"), (cancel' # "null") = (job'.pc \in InTry),
         job'.pc # "off" => job'.call = job.call /\ job'.outcome # "no_folder" /\ job.pc # "off",
         job'.pc = "turn_on" => ~encrypts'
  PROVE  MainTypes'
<1>1. faults' \in 0 .. MaxFaults BY DevicePullAssumption DEF MainTypes, Fault
<1> QED BY <1>1 DEF MainTypes

\* A step that goes on, saying nothing of its end.
LEMMA QuietStep ==
  ASSUME MainTypes, Goes("mkdir", "register") \/ Goes("leftover_line", "end")
                      \/ Goes("backup", "closed_0") \/ Goes("backup", "closed_1")
                      \/ (job.pc \in Clearing /\ job' = [job EXCEPT !.pc = "end"]),
         faults' = faults \/ Fault, Quiet, Stays
  PROVE  PullStep
<1> USE DEF Stays, Elsewhere, PullOnly, Quiet
<1>0. \E pc \in JobPlaces \ {"off", "turn_on"} : job' = [job EXCEPT !.pc = pc] /\ (pc \in InTry) = (job.pc \in InTry)
  BY DEF Goes, Clearing, JobPlaces, InTry
<1>1. job' \in Jobs /\ job'.call = job.call /\ job'.outcome = job.outcome /\ job.pc # "off" /\ job'.pc # "off"
      /\ job'.pc # "turn_on" /\ (job.pc \in InTry) = (job'.pc \in InTry)
  <2>1. job.pc # "off" BY DEF Goes, Clearing
  <2> QED BY <1>0, <2>1, MainTypesAre, NotedAre, ZenonT(30)
<1>2. MainTypes' BY <1>1, MainTypesStay DEF MainTypes
<1> QED BY <1>1, <1>2 DEF PullStep, PullGoesOn, Here

\* A throw in the pull's try.
LEMMA ThrowStep ==
  ASSUME MainTypes, NEW reported \in BOOLEAN, Threw(reported), job.pc # "off",
         UNCHANGED <<disk, known>>, PullOnly, encrypts' \in BOOLEAN, encrypts => encrypts',
         faults' = faults \/ Fault
  PROVE  PullStep
<1>1. /\ job' \in Jobs /\ job'.call = job.call /\ job'.outcome # "no_folder" /\ job'.pc = "failed"
      /\ tracker' \in Trackers /\ tracker'.folder = tracker.folder /\ tracker'.ended = (tracker.ended \/ reported)
      /\ cancel' = "null"
  <2>1. job.outcome # "no_folder" BY DEF MainTypes
  <2>2. job' = [job EXCEPT !.pc = "failed"] BY DEF Threw
  <2>3. job' \in Jobs /\ job'.call = job.call /\ job'.outcome = job.outcome /\ job'.pc = "failed"
    BY <2>2, MainTypesAre, NotedAre, Zenon DEF JobPlaces
  <2>4. tracker' = [tracker EXCEPT !.ended = @ \/ reported] /\ cancel' = "null" BY DEF Threw
  <2>5. tracker' \in Trackers /\ tracker'.folder = tracker.folder /\ tracker'.ended = (tracker.ended \/ reported)
    BY <2>4, MainTypesAre, NotedAre, Zenon
  <2> QED BY <2>1, <2>3, <2>4, <2>5
<1>2. MainTypes' BY <1>1, MainTypesStay DEF MainTypes, PullOnly, InTry
<1>3. PullGoesOn
  <2>1. CASE reported BY <1>1, <2>1 DEF Threw, PullGoesOn, Here
  <2>2. CASE ~reported
    <3>1. tracker'.ended = tracker.ended BY <1>1, <2>2, MainTypesAre
    <3>2. toPanel' = toPanel BY <2>2 DEF Threw, Quiet
    <3> QED BY <1>1, <3>1, <3>2 DEF PullGoesOn, Here
  <2> QED BY <2>1, <2>2
<1> QED BY <1>2, <1>3 DEF PullStep, PullOnly

\* A reported or unreported failure is such a throw.
LEMMA FailStep ==
  ASSUME MainTypes, NEW reported \in BOOLEAN, Fails(reported), job.pc # "off", faults' = faults \/ Fault
  PROVE  PullStep
BY ThrowStep DEF Fails, Elsewhere, MainTypes

\* The process is spawned.
LEMMA StartStep ==
  ASSUME MainTypes, Starts, job.pc \in {"prepare", "turn_on"}, encrypts' \in BOOLEAN, encrypts => encrypts',
         faults' = faults
  PROVE  PullStep
<1>1. /\ job' \in Jobs /\ job'.call = job.call /\ job'.outcome = job.outcome /\ job'.pc = "backup"
      /\ tracker' \in Trackers /\ tracker'.folder = tracker.folder /\ tracker'.ended = tracker.ended
  BY MainTypesAre, NotedAre, Zenon DEF Starts, JobPlaces
<1>2. MainTypes' BY <1>1, MainTypesStay DEF MainTypes, PullOnly, InTry, Starts
<1> QED BY <1>1, <1>2 DEF PullStep, PullGoesOn, PullOnly, Starts, Here

\* A step that writes the pull's own folder.
LEMMA WriteStep ==
  ASSUME MainTypes, NEW f \in PullFolders, Writes(f), job.pc # "off", job' \in Jobs, job'.pc # "off",
         job'.call = job.call, job'.outcome = job.outcome, (job.pc \in InTry) = (job'.pc \in InTry),
         job.pc # "turn_on", job'.pc # "turn_on", UNCHANGED <<tracker, cancel>>,
         faults' = faults \/ Fault, Quiet, Elsewhere
  PROVE  PullStep
<1>1. disk' \in [Pulls -> PullFolders] BY DEF Writes, MainTypes
<1>2. MainTypes' BY <1>1, MainTypesStay DEF MainTypes, PullOnly, Elsewhere
<1> QED BY <1>2 DEF PullStep, PullGoesOn, PullOnly, Elsewhere, Quiet, Here

\* What is written of a pull folder is one.
LEMMA FieldsAreTyped ==
  ASSUME NEW f \in PullFolders
  PROVE  /\ \A g \in {LogsLocked(f), LogsTorn(f), MakeLogs(f), CopyLogs(f)} \cup Discarded(f) : g \in PullFolders
         /\ \A line \in Lines : [f EXCEPT !.lines = @ \cup {line}] \in PullFolders
         /\ \A d \in {"absent", "bare", "unfinished", "finished"} : [f EXCEPT !.dir = d] \in PullFolders
         /\ Unused \in PullFolders
BY ZenonT(30) DEF PullFolders, LogsLocked, LogsTorn, MakeLogs, CopyLogs, Discarded, Unused

\* The app remembers no more folders than it may.
LEMMA RememberIs ==
  ASSUME known \in Seq(Pulls), NEW k \in Pulls
  PROVE  Remember(k) \in Seq(Pulls) /\ Len(Remember(k)) <= MaxDestinations
<1> DEFINE rest == Picked(known, {i \in DOMAIN known : known[i] # k})
           next == <<k>> \o rest
           n == IF Len(next) < MaxDestinations THEN Len(next) ELSE MaxDestinations
<1>1. rest \in Seq(Pulls) BY PickedIs
<1>2. next \in Seq(Pulls) BY <1>1
<1>3. n \in Nat /\ n <= MaxDestinations /\ n <= Len(next) BY <1>2, DevicePullAssumption
<1>4. Remember(k) = SubSeq(next, 1, n) BY DEF Remember
<1> HIDE DEF next, n
<1>5. \A i \in 1 .. n : next[i] \in Pulls BY <1>2, <1>3
<1> QED BY <1>3, <1>4, <1>5, SubSeqProperties

\* Two messages are told one after the other.
LEMMA ToldTogether == ASSUME NEW a, NEW b PROVE <<>> \o <<a>> = <<a>> /\ <<a>> \o <<b>> = <<a, b>>
<1>1. <<a>> \in Seq({a, b}) /\ <<b>> \in Seq({a, b}) /\ <<a, b>> \in Seq({a, b}) OBVIOUS
<1>2. <<>> \o <<a>> = <<a>> BY <1>1, ConcatEmptySeq
<1>3. <<a>> \o <<b>> \in Seq({a, b}) /\ Len(<<a>> \o <<b>>) = 2
      /\ (<<a>> \o <<b>>)[1] = a /\ (<<a>> \o <<b>>)[2] = b
  BY <1>1, ConcatProperties
<1>4. Len(<<a, b>>) = 2 /\ <<a, b>>[1] = a /\ <<a, b>>[2] = b OBVIOUS
<1>5. <<a>> \o <<b>> = <<a, b>>
  <2> DEFINE s == <<a>> \o <<b>>
             t == <<a, b>>
  <2>1. s \in Seq({a, b}) /\ t \in Seq({a, b}) /\ Len(s) = Len(t) /\ \A i \in 1 .. Len(s) : s[i] = t[i]
    BY <1>1, <1>3, <1>4
  <2> HIDE DEF s, t
  <2>2. s = t BY <2>1, SeqEqual
  <2> QED BY <2>2 DEF s, t
<1> QED BY <1>2, <1>5

\* The pull ends.
LEMMA EndStep ==
  ASSUME MainTypes, job.pc # "off", job' \in Jobs, job'.pc = "off", tracker' = NoPull, cancel' = "null",
         disk' \in [Pulls -> PullFolders], UNCHANGED <<known, encrypts>>, PullOnly, faults' = faults \/ Fault,
         \/ job'.outcome = "no_folder" /\ Tell(<<PullAnswer(FALSE)>>)
         \/ job.pc = "record" /\ Completes /\ Tell(<<DoneEvent, PullAnswer(TRUE)>>)
         \/ ~tracker.ended /\ Tell(<<Event("error"), PullAnswer(FALSE)>>)
         \/ tracker.ended /\ Tell(<<PullAnswer(FALSE)>>)
  PROVE  PullStep
<1>1. NoPull \in Trackers /\ NoPull.folder = None BY DEF NoPull, Trackers, None
<1>2. MainTypes' BY <1>1, MainTypesStay DEF MainTypes, PullOnly, InTry
<1> QED BY <1>1, <1>2 DEF PullStep, PullEnds, PullOnly, Here

\* Every step of the pull is one of the two kinds.
LEMMA EachPullStep ==
  ASSUME MainTypes, PullSteps \/ ToolWrites \/ ToolExits \/ PullFailures PROVE PullStep
<1>0. (Here \in Pulls /\ Folder \in PullFolders) \/ job.pc = "off" BY MainTypesAre
<1>1. CASE MakeFolder BY <1>1, QuietStep DEF MakeFolder, Sure
<1>2. CASE Register
  <2>1. known' \in Seq(Pulls) /\ Len(known') <= MaxDestinations
    BY <1>0, <1>2, RememberIs DEF Register, MainTypes
  <2>2. job' \in Jobs /\ job'.call = job.call /\ job'.outcome = job.outcome /\ job'.pc \in {"end", "exists"} /\ job.pc = "register"
        /\ cancel' \in {"null", "no"} /\ (cancel' # "null") = (job'.pc \in InTry)
    <3>1. cancel = "null" /\ job.pc = "register" BY <1>2 DEF Register, MainTypes, InTry
    <3>2. PICK pc \in {"end", "exists"} :
                 job' = [job EXCEPT !.pc = pc] /\ cancel' = IF pc = "end" THEN "null" ELSE "no"
      BY <1>2, <3>1 DEF Register
    <3>3. job' \in Jobs /\ job'.call = job.call /\ job'.outcome = job.outcome /\ job'.pc = pc
      BY <3>2, NotedAre, MainTypesAre, Zenon DEF JobPlaces
    <3> QED BY <3>1, <3>2, <3>3 DEF InTry
  <2>3. MainTypes' BY <1>2, <2>1, <2>2, MainTypesStay DEF Register, PullOnly, Sure, MainTypes
  <2> QED BY <1>2, <2>2, <2>3 DEF Register, PullStep, PullGoesOn, PullOnly, Quiet, Here
<1>3. CASE MakeOrRegisterFails
  <2>1. job' \in Jobs /\ job'.pc = "off" /\ job'.outcome = "no_folder" /\ cancel = "null"
    BY <1>3, NotedAre, Zenon DEF MakeOrRegisterFails, NoJob, Jobs, MainTypes, InTry
  <2>2. disk' \in [Pulls -> PullFolders] /\ job.pc # "off"
    BY <1>3, <1>0, FieldsAreTyped DEF MakeOrRegisterFails, Writes, MainTypes
  <2> QED BY <1>3, <2>1, <2>2, EndStep DEF MakeOrRegisterFails, Elsewhere
<1>4. CASE Exists
  <2>1. CASE Folder.dir = "absent"
    <3>1. job' \in Jobs /\ job'.call = job.call /\ job'.outcome = job.outcome /\ job'.pc # "off" /\ job.pc = "exists" /\ job'.pc = "prepare"
      BY <1>4, <2>1, NotedAre, MainTypesAre, Zenon DEF Exists, JobPlaces
    <3>2. UNCHANGED <<disk, tracker, cancel, known, encrypts, copy, del, toMain, toPanel, faults>>
      BY <1>4, <2>1 DEF Exists, Stays, Elsewhere, PullOnly, Quiet, Sure
    <3>3. MainTypes' BY <3>1, <3>2, MainTypesStay DEF MainTypes, InTry
    <3> QED BY <3>1, <3>2, <3>3 DEF PullStep, PullGoesOn, Here
  <2>2. CASE Folder.dir # "absent" BY <1>4, <2>2, FailStep DEF Exists, Sure
  <2> QED BY <2>1, <2>2
<1>5. CASE CheckFails \/ PrepareFails BY <1>5, FailStep DEF CheckFails, PrepareFails
<1>6. CASE Prepare
  <2>1. CASE encrypts BY <1>6, <2>1, StartStep DEF Prepare, MainTypes, Sure
  <2>2. CASE ~encrypts /\ job.enable
    <3>1. job' \in Jobs /\ job'.call = job.call /\ job'.outcome = job.outcome /\ job'.pc # "off" /\ job.pc = "prepare" /\ job'.pc = "turn_on"
      BY <1>6, <2>2, NotedAre, MainTypesAre, Zenon DEF Prepare, JobPlaces, Goes
    <3>2. UNCHANGED <<disk, tracker, cancel, known, encrypts, copy, del, toMain, toPanel, faults>>
      BY <1>6, <2>2 DEF Prepare, Stays, Elsewhere, PullOnly, Quiet, Sure
    <3>3. MainTypes' BY <2>2, <3>1, <3>2, MainTypesStay DEF MainTypes, InTry
    <3> QED BY <3>1, <3>2, <3>3 DEF PullStep, PullGoesOn, Here
  <2>3. CASE ~encrypts /\ ~job.enable BY <1>6, <2>3, FailStep DEF Prepare, Sure
  <2> QED BY <2>1, <2>2, <2>3
<1>7. CASE TurnOn BY <1>7, StartStep DEF TurnOn, Sure
<1>8. CASE TurnOnFails BY <1>8, ThrowStep DEF TurnOnFails, PullOnly, MainTypes
<1>9. CASE ToolWrites
  <2>1. PICK d \in {"bare", "unfinished", "finished"} : Writes([Folder EXCEPT !.dir = d])
    BY <1>9 DEF ToolWrites
  <2>2. [Folder EXCEPT !.dir = d] \in PullFolders BY <1>0, <1>9, FieldsAreTyped DEF ToolWrites
  <2>3. job' \in Jobs /\ job' = job /\ job.pc = "backup" BY <1>9 DEF ToolWrites, MainTypes
  <2> QED BY <1>9, <2>1, <2>2, <2>3, WriteStep DEF ToolWrites, Sure
<1>10. CASE ToolExits BY <1>10, QuietStep DEF ToolExits, Sure
<1>11. CASE Settle
  <2>1. CASE Settled
    <3>1. job' \in Jobs /\ job'.call = job.call /\ job'.outcome = job.outcome /\ job.pc \in {"closed_0", "closed_1"} /\ job'.pc = "verify"
      BY <1>11, <2>1, NotedAre, MainTypesAre, Zenon DEF Settle, Closed, JobPlaces
    <3>2. UNCHANGED <<disk, tracker, cancel, known, encrypts, copy, del, toMain, toPanel, faults>>
      BY <1>11, <2>1 DEF Settle, Stays, Elsewhere, PullOnly, Quiet, Sure
    <3>3. MainTypes' BY <3>1, <3>2, MainTypesStay DEF MainTypes, InTry
    <3> QED BY <3>1, <3>2, <3>3 DEF PullStep, PullGoesOn, Here
  <2>2. CASE ~Settled BY <1>11, <2>2, FailStep DEF Settle, Closed, Sure
  <2> QED BY <2>1, <2>2
<1>12. CASE Verify
  <2>1. CASE Fails(TRUE) BY <1>12, <2>1, FailStep DEF Verify, Sure
  <2>2. CASE Goes("verify", "logs") /\ Writes(MakeLogs(Folder)) /\ Sure /\ UNCHANGED <<tracker, cancel>> /\ Quiet /\ Elsewhere
    <3>1. job' \in Jobs /\ job'.call = job.call /\ job'.outcome = job.outcome /\ job.pc = "verify" /\ job'.pc = "logs"
      BY <2>2, NotedAre, MainTypesAre, Zenon DEF Goes, JobPlaces
    <3>2. MakeLogs(Folder) \in PullFolders BY <1>0, <3>1, FieldsAreTyped
    <3> QED BY <2>2, <3>1, <3>2, WriteStep DEF Sure, InTry
  <2>3. CASE Fault /\ Goes("verify", "record") /\ Quiet /\ Stays
    <3>1. job' \in Jobs /\ job'.call = job.call /\ job'.outcome = job.outcome /\ job.pc = "verify" /\ job'.pc = "record"
      BY <2>3, NotedAre, MainTypesAre, Zenon DEF Goes, JobPlaces
    <3>2. UNCHANGED <<disk, tracker, cancel, known, encrypts, copy, del, toMain, toPanel>>
      BY <2>3 DEF Stays, Elsewhere, PullOnly, Quiet
    <3>3. MainTypes' BY <2>3, <3>1, <3>2, MainTypesStay DEF MainTypes, InTry
    <3> QED BY <3>1, <3>2, <3>3 DEF PullStep, PullGoesOn, Here
  <2> QED BY <1>12, <2>1, <2>2, <2>3 DEF Verify
<1>13. CASE Logs
  <2>1. PICK f \in {CopyLogs(Folder), LogsLocked(Folder), LogsTorn(Folder)} : Writes(f) BY <1>13 DEF Logs
  <2>2. job' \in Jobs /\ job'.call = job.call /\ job'.outcome = job.outcome /\ job.pc = "logs" /\ job'.pc = "record"
    BY <1>13, NotedAre, MainTypesAre, Zenon DEF Logs, Goes, JobPlaces
  <2>3. f \in PullFolders BY <1>0, <2>2, FieldsAreTyped
  <2> QED BY <1>13, <2>1, <2>2, <2>3, WriteStep DEF Logs, Sure, InTry
<1>14. CASE Record
  <2>1. [Folder EXCEPT !.lines = @ \cup {"completed"}] \in PullFolders
    BY <1>0, <1>14, FieldsAreTyped DEF Record, Lines
  <2>2. disk' \in [Pulls -> PullFolders] BY <1>14, <2>1 DEF Record, Writes, MainTypes
  <2>3. NoJob \in Jobs /\ NoJob.pc = "off" BY NotedAre, Zenon DEF NoJob
  <2> QED BY <1>14, <2>2, <2>3, EndStep DEF Record, Elsewhere, Sure, DoneEvent, Completes
<1>15. CASE RecordFails
  <2>1. /\ job' \in Jobs /\ job'.call = job.call /\ job'.outcome = job.outcome /\ job.pc = "record" /\ job'.pc = "end" /\ cancel' = "null"
        /\ tracker' \in Trackers /\ tracker'.folder = tracker.folder /\ tracker'.ended
    BY <1>15, NotedAre, MainTypesAre, Zenon DEF RecordFails, Goes, JobPlaces
  <2>2. MainTypes' BY <1>15, <2>1, MainTypesStay DEF MainTypes, InTry, RecordFails, Elsewhere, PullOnly
  <2> QED BY <1>15, <2>1, <2>2 DEF PullStep, PullGoesOn, Here, RecordFails, Elsewhere, PullOnly
<1>16. CASE RecordFailure
  <2>1. CASE Goes("failed", "end") /\ UNCHANGED disk
    <3>1. /\ job' \in Jobs /\ job'.call = job.call /\ job'.outcome = job.outcome /\ job.pc = "failed" /\ job'.pc = "end"
      BY <2>1, NotedAre, MainTypesAre, Zenon DEF Goes, JobPlaces
    <3>2. faults' = faults \/ Fault BY <1>16 DEF RecordFailure, Sure
    <3>3. UNCHANGED <<disk, tracker, cancel, known, encrypts, copy, del, toMain, toPanel>>
      BY <1>16, <2>1 DEF RecordFailure, Elsewhere, PullOnly, Quiet
    <3>4. MainTypes' BY <3>1, <3>2, <3>3, MainTypesStay DEF MainTypes, InTry
    <3> QED BY <3>1, <3>3, <3>4 DEF PullStep, PullGoesOn, Here
  <2>2. CASE /\ Writes([Folder EXCEPT !.lines = @ \cup {"failed"}]) /\ Sure
             /\ job' = [job EXCEPT !.pc = IF job.ours THEN "leftover" ELSE "end"]
    <3>1. job.pc = "failed" BY <1>16 DEF RecordFailure
    <3>2. PICK pc \in {"leftover", "end"} : job' = [job EXCEPT !.pc = pc] BY <2>2
    <3>3. job' \in Jobs /\ job'.call = job.call /\ job'.outcome = job.outcome /\ job'.pc = pc
      BY <3>2, NotedAre, MainTypesAre, Zenon DEF JobPlaces
    <3>4. [Folder EXCEPT !.lines = @ \cup {"failed"}] \in PullFolders
      BY <1>0, <3>1, FieldsAreTyped, MainTypesAre DEF Lines, MainTypes
    <3> QED BY <1>16, <2>2, <3>1, <3>2, <3>3, <3>4, WriteStep DEF RecordFailure, Sure, InTry
  <2> QED BY <1>16, <2>1, <2>2 DEF RecordFailure
<1>17. CASE Leftover
  <2>1. PICK pc \in {"leftover_line", "end"} : job' = [job EXCEPT !.pc = pc] /\ job.pc = "leftover"
    BY <1>17 DEF Leftover, Goes
  <2>2. job' \in Jobs /\ job'.call = job.call /\ job'.outcome = job.outcome /\ job'.pc = pc
    BY <2>1, NotedAre, MainTypesAre, Zenon DEF JobPlaces
  <2>3. [Folder EXCEPT !.dir = "absent"] \in PullFolders BY <1>0, <2>1, FieldsAreTyped
  <2>4. Writes([Folder EXCEPT !.dir = "absent"]) \/ Writes(Folder)
    <3>1. disk = [disk EXCEPT ![Here] = Folder] BY DEF MainTypes, Folder
    <3> QED BY <1>17, <3>1 DEF Leftover, Writes
  <2> QED BY <1>0, <1>17, <2>1, <2>2, <2>3, <2>4, WriteStep DEF Leftover, Sure, InTry
<1>18. CASE LeftoverFails BY <1>18, QuietStep DEF LeftoverFails, Clearing
<1>19. CASE LeftoverLine BY <1>19, QuietStep DEF LeftoverLine, Sure
<1>20. CASE End
  <2>1. NoJob \in Jobs /\ NoJob.pc = "off" /\ disk' \in [Pulls -> PullFolders] BY <1>20, NotedAre, Zenon DEF NoJob, End, MainTypes
  <2>2. cancel' = "null" BY <1>20 DEF End, MainTypes, InTry
  <2>3. IF tracker.ended THEN Tell(<<PullAnswer(FALSE)>>) ELSE Tell(<<Event("error"), PullAnswer(FALSE)>>)
    <3>1. CASE tracker.ended BY <1>20, <3>1, ToldTogether DEF End, Tell
    <3>2. CASE ~tracker.ended BY <1>20, <3>2, ToldTogether DEF End, Tell
    <3> QED BY <3>1, <3>2
  <2> QED BY <1>20, <2>1, <2>2, <2>3, EndStep DEF End, Elsewhere, Sure
<1> QED
  BY <1>1, <1>2, <1>3, <1>4, <1>5, <1>6, <1>7, <1>8, <1>9, <1>10, <1>11, <1>12, <1>13, <1>14, <1>15, <1>16, <1>17,
     <1>18, <1>19, <1>20 DEF PullSteps, PullFailures

-------------------------------------------------------------------------------
(* Requests handled. *)

Asking == Head(toMain)
\* The answer is told at once.
IsAnswered ==
  /\ UNCHANGED <<disk, known, encrypts, tracker, job, copy, del>>
  /\ \E a \in Messages :
       /\ Tell(<<a>>) /\ a.type = Asking.type
       /\ a.type \in {"pull", "encryption"} => a.call = Asking.call /\ (Running => ~a.ok)
       /\ a.type = "pull" => Running
       /\ a.type = "encryption" => (a.ok => a.value = encrypts)
       /\ a.type = "state" => a.value = tracker
       /\ a.type = "copy" => a.folder = Asking.folder /\ a.value = "failed"
PullBegins ==
  /\ Asking.type = "pull" /\ ~Running
  /\ UNCHANGED <<known, encrypts, copy, del, toPanel>>
  /\ \E k \in Fresh :
       /\ tracker' = [NoPull EXCEPT !.folder = k] /\ disk' = [disk EXCEPT ![k].dest = Asking.dest]
       /\ job' = [NoJob EXCEPT !.pc = "mkdir", !.call = Asking.call, !.enable = Asking.enable]
DeletionBegins ==
  /\ Asking.type = "delete" /\ UNCHANGED <<disk, known, encrypts, tracker, job, copy, toPanel>>
CopyBegins ==
  /\ Asking.type = "copy" /\ copy' = [NoCopy EXCEPT !.pc = "check", !.folder = Asking.folder] /\ copy.pc = "off"
  /\ UNCHANGED <<disk, known, encrypts, tracker, job, del, toPanel>>
HandleStep ==
  /\ toMain # <<>> /\ toMain' = Tail(toMain) /\ MainTypes'
  /\ IsAnswered \/ PullBegins \/ DeletionBegins \/ CopyBegins

\* What the requests are made of.
LEMMA RequestKinds ==
  ASSUME NEW m \in Requests
  PROVE  /\ m.type \in {"pull", "encryption"} => m.call \in Clicks
         /\ m.type \in {"cancel", "state", "list", "delete", "copy"} => m.call = 0
         /\ m.type \in {"delete", "copy"} => m.folder \in Pulls
         /\ m.folder \in Pulls \cup {None} /\ m.dest \in Dests \cup {NoDest} /\ m.enable \in BOOLEAN
BY DEF Requests, RequestsOf

\* What the answers are made of.
LEMMA AnswersAreMessages ==
  /\ \A c \in Clicks, ok \in BOOLEAN, v \in Pulls \cup {None} :
       [type |-> "pull", call |-> c, ok |-> ok, value |-> v] \in Messages
  /\ \A c \in Clicks, ok \in BOOLEAN, v \in BOOLEAN \cup {None} :
       [type |-> "encryption", call |-> c, ok |-> ok, value |-> v] \in Messages
  /\ \A ok, v \in BOOLEAN : [type |-> "cancel", call |-> 0, ok |-> ok, value |-> v] \in Messages
  /\ \A ok \in BOOLEAN, v \in Trackers : [type |-> "state", call |-> 0, ok |-> ok, value |-> v] \in Messages
  /\ \A ok \in BOOLEAN, v \in SUBSET Pulls : [type |-> "list", call |-> 0, ok |-> ok, value |-> v] \in Messages
  /\ \A ok \in BOOLEAN, v \in Pulls \cup {None} : [type |-> "delete", call |-> 0, ok |-> ok, value |-> v] \in Messages
  /\ \A v \in {"copied", "failed"}, k \in Pulls : [type |-> "copy", value |-> v, folder |-> k] \in Messages
  /\ Event("stats") \in Messages /\ Event("error") \in Messages
  /\ \A k \in Pulls, logs \in BOOLEAN :
       [type |-> "event", what |-> "done", folder |-> k, logs |-> logs] \in Messages
BY DEF Messages, Answers, CopyAnswers, Figures, Errors, Dones, Event

\* An answer changes nothing of the main process but a cancelling or a failure.
LEMMA StaysTyped ==
  ASSUME MainTypes, UNCHANGED <<disk, known, encrypts, tracker, job, copy, del>>,
         faults' = faults \/ Fault, cancel' = cancel \/ (job.pc = "backup" /\ cancel' = "yes")
  PROVE  MainTypes'
<1>1. faults' \in 0 .. MaxFaults BY DevicePullAssumption DEF MainTypes, Fault
<1>2. cancel' \in {"null", "no", "yes"} /\ (cancel' # "null") = (job.pc \in InTry) BY DEF MainTypes, InTry
<1> QED BY <1>1, <1>2 DEF MainTypes

\* Every handler answers, or begins what it was asked for.
LEMMA EachHandleStep ==
  ASSUME MainTypes, toMain \in Seq(Requests), Handle PROVE HandleStep
<1> DEFINE m == Head(toMain)
<1>1. toMain # <<>> /\ toMain' = Tail(toMain) /\ m \in Requests BY DEF Handle
<1>2. Asking = m BY DEF Asking
<1> HIDE DEF m
<1>3. CASE m.type = "pull" /\ HandlePull(m)
  <2>1. CASE Running
    <3> DEFINE a == Answer(m, FALSE, None)
    <3>1. UNCHANGED mainVars /\ Tell(<<a>>) BY <1>3, <2>1 DEF HandlePull, StartAllowed
    <3>2. a = [type |-> "pull", call |-> m.call, ok |-> FALSE, value |-> None] BY <1>3 DEF Answer
    <3>3. a \in Messages BY <1>1, <1>3, <3>2, RequestKinds, AnswersAreMessages
    <3>4. MainTypes' BY <3>1, StaysTyped DEF mainVars
    <3>5. a.type = "pull" /\ a.call = m.call /\ ~a.ok BY <1>3 DEF Answer
    <3> HIDE DEF a
    <3> QED BY <1>1, <1>2, <1>3, <2>1, <3>1, <3>3, <3>4, <3>5 DEF HandleStep, IsAnswered, mainVars
  <2>2. CASE ~Running
    <3>1. PICK k \in Fresh :
            /\ tracker' = [NoPull EXCEPT !.folder = k] /\ disk' = [disk EXCEPT ![k].dest = m.dest]
            /\ job' = [NoJob EXCEPT !.pc = "mkdir", !.call = m.call, !.enable = m.enable]
            /\ Quiet /\ UNCHANGED <<known, encrypts, cancel, copy, del, faults>>
      BY <1>3, <2>2 DEF HandlePull, StartAllowed
    <3>2. m.call \in Clicks /\ m.dest \in Dests \cup {NoDest} /\ m.enable \in BOOLEAN BY <1>1, <1>3, RequestKinds
    <3>3. k \in Pulls BY DEF Fresh
    <3>4. disk' \in [Pulls -> PullFolders]
      <4>1. disk[k] \in PullFolders BY <3>3 DEF MainTypes
      <4>2. [disk[k] EXCEPT !.dest = m.dest] \in PullFolders BY <3>2, <4>1 DEF PullFolders
      <4>3. disk' = [disk EXCEPT ![k] = [disk[k] EXCEPT !.dest = m.dest]] BY <3>1
      <4> QED BY <4>2, <4>3 DEF MainTypes
    <3>5. tracker' \in Trackers /\ tracker'.folder = k BY <3>1, <3>3 DEF NoPull, Trackers
    <3>6. job' \in Jobs /\ job'.pc = "mkdir" /\ job'.call = m.call /\ job'.outcome = "failed"
      <4>1. m.call \in Nat BY <3>2 DEF Clicks
      <4>2. job' = [pc |-> "mkdir", call |-> m.call, enable |-> m.enable, ours |-> FALSE, outcome |-> "failed"]
        BY <3>1 DEF NoJob
      <4> QED BY <3>2, <4>1, <4>2 DEF Jobs, JobPlaces
    <3>7. k # None BY <3>3 DEF Pulls, None
    <3>8. cancel = "null" BY <2>2 DEF MainTypes, Running, InTry
    <3>9. MainTypes' BY <3>1, <3>2, <3>4, <3>5, <3>6, <3>7, <3>8 DEF MainTypes, InTry
    <3> QED BY <1>1, <1>2, <1>3, <2>2, <3>1, <3>9 DEF HandleStep, PullBegins, Quiet
  <2> QED BY <2>1, <2>2
<1>4. CASE m.type = "encryption" /\ HandleEncryption(m)
  <2>1. /\ UNCHANGED <<disk, known, encrypts, tracker, job, cancel, copy, del>> /\ (faults' = faults \/ Fault)
        /\ Tell(<<Answer(m, FALSE, None)>>) \/ (~Running /\ Tell(<<Answer(m, TRUE, encrypts)>>))
    BY <1>4 DEF HandleEncryption
  <2>2. PICK a \in {Answer(m, FALSE, None), Answer(m, TRUE, encrypts)} :
               Tell(<<a>>) /\ (Running => a = Answer(m, FALSE, None))
    BY <2>1
  <2>3. /\ Answer(m, FALSE, None) = [type |-> "encryption", call |-> m.call, ok |-> FALSE, value |-> None]
        /\ Answer(m, TRUE, encrypts) = [type |-> "encryption", call |-> m.call, ok |-> TRUE, value |-> encrypts]
    BY <1>4 DEF Answer
  <2>4. m.call \in Clicks /\ encrypts \in BOOLEAN BY <1>1, <1>4, RequestKinds DEF MainTypes
  <2>5. a \in Messages BY <2>2, <2>3, <2>4, AnswersAreMessages
  <2>6. MainTypes' BY <2>1, StaysTyped
  <2>7. a.type = "encryption" /\ a.call = m.call /\ (Running => ~a.ok) /\ (a.ok => a.value = encrypts)
    <3>1. CASE a = Answer(m, FALSE, None)
      <4>1. a.type = m.type /\ a.call = m.call /\ ~a.ok BY <3>1 DEF Answer
      <4> QED BY <1>4, <4>1
    <3>2. CASE a = Answer(m, TRUE, encrypts) /\ ~Running
      <4>1. a.type = m.type /\ a.call = m.call /\ a.ok /\ a.value = encrypts BY <3>2 DEF Answer
      <4> QED BY <1>4, <3>2, <4>1
    <3>3. a = Answer(m, FALSE, None) \/ ~Running BY <2>2
    <3> QED BY <2>2, <3>1, <3>2, <3>3
  <2> QED BY <1>1, <1>2, <1>4, <2>1, <2>2, <2>5, <2>6, <2>7 DEF HandleStep, IsAnswered
<1>5. CASE m.type = "cancel" /\ HandleCancel(m)
  <2> DEFINE a == Answer(m, TRUE, job.pc = "backup")
  <2>1. Tell(<<a>>) /\ UNCHANGED <<disk, known, encrypts, tracker, job, copy, del, faults>>
        /\ (cancel' = cancel \/ (job.pc = "backup" /\ cancel' = "yes"))
    BY <1>5 DEF HandleCancel
  <2>2. a \in Messages /\ a.type = "cancel" BY <1>1, <1>5, RequestKinds, AnswersAreMessages DEF Answer
  <2>3. MainTypes' BY <2>1, StaysTyped
  <2> QED BY <1>1, <1>2, <1>5, <2>1, <2>2, <2>3 DEF HandleStep, IsAnswered
<1>6. CASE m.type = "state" /\ HandleState(m)
  <2> DEFINE a == Answer(m, TRUE, tracker)
  <2>1. Tell(<<a>>) /\ UNCHANGED mainVars BY <1>6 DEF HandleState
  <2>2. a \in Messages /\ a.type = "state" /\ a.value = tracker
    BY <1>1, <1>6, RequestKinds, AnswersAreMessages DEF Answer, MainTypes
  <2>3. MainTypes' BY <2>1, StaysTyped DEF mainVars
  <2> QED BY <1>1, <1>2, <1>6, <2>1, <2>2, <2>3 DEF HandleStep, IsAnswered, mainVars
<1>7. CASE m.type = "list" /\ HandleList(m)
  <2> DEFINE a == Answer(m, TRUE, Incomplete)
  <2>1. Tell(<<a>>) /\ UNCHANGED mainVars BY <1>7 DEF HandleList
  <2>2. Incomplete \in SUBSET Pulls BY DEF Incomplete, ToSet, MainTypes
  <2>3. a \in Messages /\ a.type = "list" BY <1>1, <1>7, <2>2, RequestKinds, AnswersAreMessages DEF Answer
  <2>4. MainTypes' BY <2>1, StaysTyped DEF mainVars
  <2> QED BY <1>1, <1>2, <1>7, <2>1, <2>3, <2>4 DEF HandleStep, IsAnswered, mainVars
<1>8. CASE m.type = "delete" /\ HandleDelete(m)
  <2>1. CASE Running \/ m.folder \notin ToSet(known)
    <3> DEFINE a == Answer(m, FALSE, None)
    <3>1. Tell(<<a>>) /\ UNCHANGED mainVars BY <1>8, <2>1 DEF HandleDelete
    <3>2. a \in Messages /\ a.type = "delete" BY <1>1, <1>8, RequestKinds, AnswersAreMessages DEF Answer
    <3>3. MainTypes' BY <3>1, StaysTyped DEF mainVars
    <3> QED BY <1>1, <1>2, <1>8, <3>1, <3>2, <3>3 DEF HandleStep, IsAnswered, mainVars
  <2>2. CASE ~(Running \/ m.folder \notin ToSet(known))
    <3>1. del' = [pc |-> "check", folder |-> m.folder] /\ Quiet
          /\ UNCHANGED <<disk, known, encrypts, tracker, job, cancel, copy, faults>>
      BY <1>8, <2>2 DEF HandleDelete
    <3>2. del' \in Deletions BY <1>1, <1>8, <3>1, RequestKinds DEF Deletions, OpPlaces
    <3>3. MainTypes' BY <3>1, <3>2 DEF MainTypes
    <3> QED BY <1>1, <1>2, <1>8, <3>1, <3>3 DEF HandleStep, DeletionBegins, Quiet
  <2> QED BY <2>1, <2>2
<1>9. CASE m.type = "copy" /\ HandleCopy(m)
  <2>1. CASE Running \/ cancel # "null" \/ copy.pc # "off"
    <3> DEFINE a == CopyAnswer("failed", m.folder)
    <3>1. Tell(<<a>>) /\ UNCHANGED mainVars BY <1>9, <2>1 DEF HandleCopy
    <3>2. a \in Messages /\ a.type = "copy" /\ a.folder = m.folder /\ a.value = "failed"
      BY <1>1, <1>9, RequestKinds, AnswersAreMessages DEF CopyAnswer
    <3>3. MainTypes' BY <3>1, StaysTyped DEF mainVars
    <3> QED BY <1>1, <1>2, <1>9, <3>1, <3>2, <3>3 DEF HandleStep, IsAnswered, mainVars
  <2>2. CASE ~(Running \/ cancel # "null" \/ copy.pc # "off")
    <3>1. copy' = [NoCopy EXCEPT !.pc = "check", !.folder = m.folder] /\ Quiet
          /\ UNCHANGED <<disk, known, encrypts, tracker, job, cancel, del, faults>>
      BY <1>9, <2>2 DEF HandleCopy
    <3>2. copy' \in Copies /\ copy'.folder = m.folder /\ m.folder \in Pulls
      BY <1>1, <1>9, <3>1, RequestKinds DEF Copies, OpPlaces, NoCopy
    <3>3. MainTypes' BY <3>1, <3>2 DEF MainTypes
    <3> QED BY <1>1, <1>2, <1>9, <2>2, <3>1, <3>3 DEF HandleStep, CopyBegins, Quiet
  <2> QED BY <2>1, <2>2
<1> QED BY <1>3, <1>4, <1>5, <1>6, <1>7, <1>8, <1>9 DEF Handle, m

-------------------------------------------------------------------------------
(* Copies and deletions. *)

CopyStep ==
  /\ MainTypes' /\ UNCHANGED <<known, encrypts, tracker, job, cancel, del, toMain>> /\ copy.pc # "off"
  /\ \/ copy'.pc # "off" /\ copy'.folder = copy.folder /\ toPanel' = toPanel
     \/ copy'.pc = "off" /\ \E v \in {"copied", "failed"} : Tell(<<CopyAnswer(v, copy.folder)>>)
SameLogs ==
  \A k \in Pulls : /\ disk'[k].lines = disk[k].lines /\ disk'[k].rec = disk[k].rec
                    /\ disk'[k].kept = disk[k].kept /\ disk'[k].logs = disk[k].logs
DeleteStep ==
  /\ MainTypes' /\ UNCHANGED <<known, encrypts, tracker, job, cancel, copy, toMain>> /\ SameLogs
  /\ \/ toPanel' = toPanel
     \/ \E ok \in BOOLEAN : Tell(<<[type |-> "delete", call |-> 0, ok |-> ok, value |-> del.folder]>>)

\* Every step of a copy goes on, or ends and answers.
LEMMA EachCopyStep == ASSUME MainTypes, CopySteps PROVE CopyStep
<1>1. copy.pc # "off" /\ copy.folder \in Pulls /\ copy \in Copies /\ Copied \in PullFolders
  BY DEF MainTypes, CopySteps, CopyCheck, CopyRun, CopyLine, CopyDiscard, Copied
<1>2. UNCHANGED <<known, encrypts, tracker, job, cancel, del, toMain>> /\ (faults' = faults \/ Fault)
  BY DEF CopySteps, CopyCheck, CopyRun, CopyLine, CopyDiscard, CopyStays, Sure
<1>3. disk' \in [Pulls -> PullFolders]
  <2>1. disk' = disk \/ \E f \in {LogsLocked(Copied), LogsTorn(Copied), MakeLogs(Copied), CopyLogs(Copied)}
                                   \cup Discarded(Copied) : CopyWrites(f)
    BY DEF CopySteps, CopyCheck, CopyRun, CopyLine, CopyDiscard
  <2> QED BY <1>1, <2>1, FieldsAreTyped DEF CopyWrites, MainTypes
<1>4. \/ \E pc \in OpPlaces \ {"off"}, copied \in BOOLEAN :
            copy' = [copy EXCEPT !.pc = pc, !.copied = copied] /\ toPanel' = toPanel
      \/ copy' = NoCopy /\ \E v \in {"copied", "failed"} : Tell(<<CopyAnswer(v, copy.folder)>>)
  BY <1>1 DEF CopySteps, CopyCheck, CopyRun, CopyLine, CopyDiscard, CopyGoes, CopyEnds, Quiet, OpPlaces, Copies
<1>5. /\ copy' \in Copies /\ (copy'.pc # "off" => copy'.folder = copy.folder)
      /\ \/ copy'.pc # "off" /\ toPanel' = toPanel
         \/ copy'.pc = "off" /\ \E v \in {"copied", "failed"} : Tell(<<CopyAnswer(v, copy.folder)>>)
  <2>1. ASSUME NEW pc \in OpPlaces \ {"off"}, NEW copied \in BOOLEAN,
               copy' = [copy EXCEPT !.pc = pc, !.copied = copied]
        PROVE  copy' \in Copies /\ copy'.pc # "off" /\ copy'.folder = copy.folder
    BY <1>1, <2>1 DEF Copies
  <2>2. NoCopy \in Copies /\ NoCopy.pc = "off" BY DEF Copies, NoCopy, OpPlaces
  <2> QED BY <1>4, <2>1, <2>2
<1>6. faults' \in 0 .. MaxFaults BY <1>2, DevicePullAssumption DEF MainTypes, Fault
<1>7. MainTypes' BY <1>1, <1>2, <1>3, <1>5, <1>6 DEF MainTypes
<1> QED BY <1>1, <1>2, <1>5, <1>7 DEF CopyStep

\* Every step of a deletion leaves the crash logs and the records alone.
LEMMA EachDeleteStep == ASSUME MainTypes, DeleteSteps PROVE DeleteStep
<1>1. UNCHANGED <<known, encrypts, tracker, job, cancel, copy, toMain>> /\ (faults' = faults \/ Fault)
  BY DEF DeleteSteps, DeleteCheck, DeleteRemove, DeleteLine, DelStays, Sure
<1>2. disk' = disk \/ disk' = [disk EXCEPT ![del.folder] = [Deleted EXCEPT !.dir = "absent"]]
  BY DEF DeleteSteps, DeleteCheck, DeleteRemove, DeleteLine
<1>3. disk' \in [Pulls -> PullFolders] /\ SameLogs
  <2>1. CASE disk' = disk BY <2>1 DEF MainTypes, SameLogs
  <2>2. CASE disk' = [disk EXCEPT ![del.folder] = [Deleted EXCEPT !.dir = "absent"]] /\ del.folder \in Pulls
    <3>1. Deleted \in PullFolders BY <2>2 DEF MainTypes, Deleted
    <3>2. [Deleted EXCEPT !.dir = "absent"] \in PullFolders BY <3>1, FieldsAreTyped
    <3>3. disk' \in [Pulls -> PullFolders] BY <2>2, <3>2 DEF MainTypes
    <3>4. /\ DOMAIN Deleted = {"dest", "dir", "logs", "rec", "kept", "lines"} BY <3>1 DEF PullFolders
    <3>5. SameLogs BY <2>2, <3>4 DEF SameLogs, MainTypes, Deleted
    <3> QED BY <3>3, <3>5
  <2>3. CASE disk' = [disk EXCEPT ![del.folder] = [Deleted EXCEPT !.dir = "absent"]] /\ del.folder \notin Pulls
    <3>1. disk' = disk BY <2>3 DEF MainTypes
    <3> QED BY <2>1, <3>1
  <2> QED BY <1>2, <2>1, <2>2, <2>3
<1>4. \/ \E pc \in OpPlaces : del' = [del EXCEPT !.pc = pc] /\ toPanel' = toPanel
      \/ /\ del' = NoOp
         /\ \E ok \in BOOLEAN : Tell(<<[type |-> "delete", call |-> 0, ok |-> ok, value |-> del.folder]>>)
  BY DEF DeleteSteps, DeleteCheck, DeleteRemove, DeleteLine, DelEnds, Quiet, OpPlaces
<1>5. del' \in Deletions BY <1>4 DEF MainTypes, Deletions, NoOp, OpPlaces
<1>6. faults' \in 0 .. MaxFaults BY <1>1, DevicePullAssumption DEF MainTypes, Fault
<1>7. MainTypes' BY <1>1, <1>3, <1>5, <1>6 DEF MainTypes
<1> QED BY <1>1, <1>3, <1>4, <1>7 DEF DeleteStep

-------------------------------------------------------------------------------
(* What goes round between the app's main process and its panel once at a time:  *)
(* a call, with its requests and answers; a copy; the question what is running;   *)
(* and the news that a pull is done.                                         *)

Nothing == <<"nothing", 0>>
Token(m) ==
  CASE m.type \in {"pull", "encryption"} -> <<"call", m.call>>
    [] m.type = "copy" -> <<"copy", 0>>
    [] m.type = "state" -> <<"state", 0>>
    [] m.type = "event" /\ m.what = "done" -> <<"done", m.folder>>
    [] OTHER -> Nothing

Carries(q, x) == \E i \in 1 .. Len(q) : Token(q[i]) = x
CarriesOnce(q, x) == \A i, j \in 1 .. Len(q) : Token(q[i]) = x /\ Token(q[j]) = x => i = j

\* A queue without its oldest message.
LEMMA CarriesTail ==
  ASSUME NEW S, NEW q \in Seq(S), q # <<>>, NEW x
  PROVE  /\ Carries(q, x) <=> Token(Head(q)) = x \/ Carries(Tail(q), x)
         /\ CarriesOnce(q, x) => CarriesOnce(Tail(q), x) /\ (Token(Head(q)) = x => ~Carries(Tail(q), x))
<1>1. /\ Len(q) \in Nat \ {0} /\ Len(Tail(q)) = Len(q) - 1 /\ \A i \in 1 .. Len(Tail(q)) : Tail(q)[i] = q[i + 1]
      /\ Head(q) = q[1]
  BY HeadTailProperties, EmptySeq
<1> DEFINE t == Tail(q)
           h == Head(q)
<1> HIDE DEF t, h
<1>2. /\ Len(q) \in Nat \ {0} /\ Len(t) = Len(q) - 1 /\ \A i \in 1 .. Len(t) : t[i] = q[i + 1]
      /\ h = q[1]
  BY <1>1 DEF t, h
<1>3. Carries(q, x) <=> Token(h) = x \/ Carries(t, x)
  <2>1. ASSUME NEW i \in 1 .. Len(q), Token(q[i]) = x PROVE Token(h) = x \/ Carries(t, x)
    <3>1. CASE i = 1 BY <1>2, <2>1, <3>1
    <3>2. CASE i # 1
      <4>1. i - 1 \in 1 .. Len(t) /\ t[i - 1] = q[i] BY <1>2, <3>2
      <4> QED BY <2>1, <4>1 DEF Carries
    <3> QED BY <3>1, <3>2
  <2>2. ASSUME NEW i \in 1 .. Len(t), Token(t[i]) = x PROVE Carries(q, x)
    <3>1. i + 1 \in 1 .. Len(q) /\ t[i] = q[i + 1] BY <1>2
    <3> QED BY <2>2, <3>1 DEF Carries
  <2>3. Token(h) = x => Carries(q, x)
    <3>1. 1 \in 1 .. Len(q) /\ h = q[1] BY <1>2
    <3> QED BY <3>1 DEF Carries
  <2> QED BY <2>1, <2>2, <2>3 DEF Carries
<1>4. ASSUME CarriesOnce(q, x) PROVE CarriesOnce(t, x) /\ (Token(h) = x => ~Carries(t, x))
  <2>1. ASSUME NEW i \in 1 .. Len(t), NEW j \in 1 .. Len(t), Token(t[i]) = x, Token(t[j]) = x PROVE i = j
    <3>1. i + 1 \in 1 .. Len(q) /\ t[i] = q[i + 1] /\ j + 1 \in 1 .. Len(q) /\ t[j] = q[j + 1] BY <1>2
    <3>2. i + 1 = j + 1 BY <1>4, <2>1, <3>1 DEF CarriesOnce
    <3> QED BY <3>2
  <2>2. ASSUME NEW i \in 1 .. Len(t), Token(t[i]) = x, Token(h) = x PROVE FALSE
    <3>1. i + 1 \in 1 .. Len(q) /\ t[i] = q[i + 1] /\ 1 \in 1 .. Len(q) /\ h = q[1] BY <1>2
    <3>2. i + 1 = 1 BY <1>4, <2>2, <3>1 DEF CarriesOnce
    <3> QED BY <3>2
  <2> QED BY <2>1, <2>2 DEF CarriesOnce, Carries
<1> QED BY <1>3, <1>4 DEF t, h

\* A queue with one message more.
LEMMA CarriesMore ==
  ASSUME NEW S, NEW q \in Seq(S), NEW a \in S, NEW x
  PROVE  /\ Carries(q \o <<a>>, x) <=> Carries(q, x) \/ Token(a) = x
         /\ CarriesOnce(q, x) /\ ~(Carries(q, x) /\ Token(a) = x) => CarriesOnce(q \o <<a>>, x)
<1> DEFINE r == q \o <<a>>
<1>1. Len(q) \in Nat /\ Len(r) = Len(q) + 1 /\ r[Len(q) + 1] = a /\ \A i \in 1 .. Len(q) : r[i] = q[i]
  BY ConcatProperties
<1> HIDE DEF r
<1>2. Carries(r, x) <=> Carries(q, x) \/ Token(a) = x
  <2>1. ASSUME NEW i \in 1 .. Len(r), Token(r[i]) = x PROVE Carries(q, x) \/ Token(a) = x
    <3>1. i \in 1 .. Len(q) \/ i = Len(q) + 1 BY <1>1
    <3> QED BY <1>1, <2>1, <3>1 DEF Carries
  <2>2. Carries(q, x) => Carries(r, x)
    <3>1. 1 .. Len(q) \subseteq 1 .. Len(r) BY <1>1
    <3> QED BY <1>1, <3>1 DEF Carries
  <2>3. Token(a) = x => Carries(r, x)
    <3>1. Len(q) + 1 \in 1 .. Len(r) BY <1>1
    <3> QED BY <1>1, <3>1 DEF Carries
  <2> QED BY <2>1, <2>2, <2>3 DEF Carries
<1>3. ASSUME CarriesOnce(q, x), ~(Carries(q, x) /\ Token(a) = x) PROVE CarriesOnce(r, x)
  <2> SUFFICES ASSUME NEW i \in 1 .. Len(r), NEW j \in 1 .. Len(r), Token(r[i]) = x, Token(r[j]) = x PROVE i = j
    BY DEF CarriesOnce
  <2>1. (i \in 1 .. Len(q) \/ i = Len(q) + 1) /\ (j \in 1 .. Len(q) \/ j = Len(q) + 1) BY <1>1
  <2>2. CASE i \in 1 .. Len(q) /\ j \in 1 .. Len(q)
    <3>1. Token(q[i]) = x /\ Token(q[j]) = x BY <1>1, <2>2
    <3> QED BY <1>3, <2>2, <3>1 DEF CarriesOnce
  <2>3. CASE i \in 1 .. Len(q) /\ j = Len(q) + 1
    <3>1. Token(q[i]) = x /\ Token(a) = x BY <1>1, <2>3
    <3> QED BY <1>3, <2>3, <3>1 DEF Carries
  <2>4. CASE j \in 1 .. Len(q) /\ i = Len(q) + 1
    <3>1. Token(q[j]) = x /\ Token(a) = x BY <1>1, <2>4
    <3> QED BY <1>3, <2>4, <3>1 DEF Carries
  <2> QED BY <2>1, <2>2, <2>3, <2>4
<1> QED BY <1>2, <1>3 DEF r

\* A queue of which some is picked.
LEMMA CarriesPicked ==
  ASSUME NEW S, NEW q \in Seq(S), NEW at \in SUBSET DOMAIN q, NEW x
  PROVE  /\ Carries(Picked(q, at), x) => \E i \in at : Token(q[i]) = x
         /\ CarriesOnce(q, x) => CarriesOnce(Picked(q, at), x)
<1> DEFINE p == Picked(q, at)
<1>1. p \in Seq(S) BY PickedIs
<1>2. DOMAIN p = 1 .. Len(p) /\ DOMAIN q = 1 .. Len(q) BY <1>1
<1>3. PICK f \in [DOMAIN p -> at] :
             (\A n \in DOMAIN p : p[n] = q[f[n]]) /\ \A m, n \in DOMAIN p : f[m] = f[n] => m = n
  BY PickedIs
<1> HIDE DEF p
<1>4. Carries(p, x) => \E i \in at : Token(q[i]) = x BY <1>2, <1>3 DEF Carries
<1>5. CarriesOnce(q, x) => CarriesOnce(p, x)
  <2> SUFFICES ASSUME CarriesOnce(q, x), NEW i \in 1 .. Len(p), NEW j \in 1 .. Len(p), Token(p[i]) = x, Token(p[j]) = x
               PROVE  i = j
    BY DEF CarriesOnce
  <2>1. f[i] \in 1 .. Len(q) /\ f[j] \in 1 .. Len(q) /\ p[i] = q[f[i]] /\ p[j] = q[f[j]] BY <1>2, <1>3
  <2>2. f[i] = f[j] BY <2>1 DEF CarriesOnce
  <2> QED BY <1>2, <1>3, <2>2
<1> QED BY <1>4, <1>5 DEF p

\* What the main process has in hand.
Holds(x) == (job.pc # "off" /\ x = <<"call", job.call>>) \/ (copy.pc # "off" /\ x = <<"copy", 0>>)
TokenOnce(x) ==
  /\ CarriesOnce(toMain, x) /\ CarriesOnce(toPanel, x)
  /\ ~Carries(toMain, x) \/ ~Carries(toPanel, x)
  /\ Holds(x) => ~Carries(toMain, x) /\ ~Carries(toPanel, x)
Somewhere(x) == Carries(toMain, x) \/ Carries(toPanel, x) \/ Holds(x)
QueueTypes == toMain \in Seq(Requests) /\ toPanel \in Seq(Messages)

\* What each kind of message stands for.
LEMMA TokensAre ==
  /\ \A m : m.type \in {"pull", "encryption"} => Token(m) = <<"call", m.call>>
  /\ \A m : m.type = "copy" => Token(m) = <<"copy", 0>>
  /\ \A m : m.type = "state" => Token(m) = <<"state", 0>>
  /\ \A m : m.type \in {"cancel", "list", "delete"} => Token(m) = Nothing
  /\ Token(Event("stats")) = Nothing /\ Token(Event("error")) = Nothing
  /\ \A ok : Token(PullAnswer(ok)) = <<"call", job.call>>
  /\ \A v, k : Token(CopyAnswer(v, k)) = <<"copy", 0>>
  /\ Token(DoneEvent) = <<"done", Here>>
BY DEF Token, Event, PullAnswer, CopyAnswer, DoneEvent

\* One message more to the panel.
LEMMA OneTold ==
  ASSUME QueueTypes, NEW a \in Messages, NEW x, TokenOnce(x), toMain' = toMain, Tell(<<a>>),
         Holds(x)' => Holds(x) /\ Token(a) # x,
         Token(a) = x => ~Carries(toMain, x) /\ ~Carries(toPanel, x)
  PROVE  TokenOnce(x)' /\ (Somewhere(x)' => Somewhere(x) \/ Token(a) = x)
<1>1. /\ Carries(toPanel', x) <=> Carries(toPanel, x) \/ Token(a) = x
      /\ CarriesOnce(toPanel, x) /\ ~(Carries(toPanel, x) /\ Token(a) = x) => CarriesOnce(toPanel', x)
  BY CarriesMore DEF QueueTypes, Tell
<1> QED BY <1>1 DEF TokenOnce, Somewhere

\* Two messages more to the panel.
LEMMA TwoTold ==
  ASSUME QueueTypes, NEW a \in Messages, NEW b \in Messages, NEW x, TokenOnce(x), toMain' = toMain, Tell(<<a, b>>),
         Token(a) # Token(b) \/ Token(a) # x,
         Holds(x)' => Holds(x) /\ Token(a) # x /\ Token(b) # x,
         Token(a) = x \/ Token(b) = x => ~Carries(toMain, x) /\ ~Carries(toPanel, x)
  PROVE  TokenOnce(x)' /\ (Somewhere(x)' => Somewhere(x) \/ Token(a) = x \/ Token(b) = x)
<1> DEFINE q == toPanel \o <<a>>
<1>1. q \in Seq(Messages) BY DEF QueueTypes
<1>2. toPanel' = q \o <<b>>
  <2>1. toPanel \in Seq(Messages) /\ <<a>> \in Seq(Messages) /\ <<b>> \in Seq(Messages) BY DEF QueueTypes
  <2>2. q \o <<b>> = toPanel \o (<<a>> \o <<b>>) BY <2>1, ConcatAssociative
  <2> QED BY <2>2, ToldTogether DEF Tell
<1>3. /\ Carries(q, x) <=> Carries(toPanel, x) \/ Token(a) = x
      /\ CarriesOnce(toPanel, x) /\ ~(Carries(toPanel, x) /\ Token(a) = x) => CarriesOnce(q, x)
  BY CarriesMore DEF QueueTypes
<1> HIDE DEF q
<1>4. /\ Carries(toPanel', x) <=> Carries(q, x) \/ Token(b) = x
      /\ CarriesOnce(q, x) /\ ~(Carries(q, x) /\ Token(b) = x) => CarriesOnce(toPanel', x)
  BY <1>1, <1>2, CarriesMore
<1> QED BY <1>3, <1>4 DEF TokenOnce, Somewhere

\* Nothing more to the panel.
LEMMA NoneTold ==
  ASSUME NEW x, TokenOnce(x), toMain' = toMain, toPanel' = toPanel,
         Holds(x)' => Holds(x) \/ (~Carries(toMain, x) /\ ~Carries(toPanel, x))
  PROVE  TokenOnce(x)' /\ (Somewhere(x)' => Somewhere(x) \/ Holds(x)')
BY DEF TokenOnce, Somewhere

\* The pull answers its call once, and tells once that it is done.
LEMMA PullTokens ==
  ASSUME QueueTypes, MainTypes, PullStep, NEW x, x # Nothing, TokenOnce(x),
         job.pc = "record" /\ x = <<"done", Here>> => ~Somewhere(x)
  PROVE  TokenOnce(x)' /\ (Somewhere(x)' => Somewhere(x) \/ (job.pc = "record" /\ x = <<"done", Here>>))
<1>1. /\ Event("stats") \in Messages /\ Event("error") \in Messages
      /\ \A ok \in BOOLEAN : job.pc # "off" => PullAnswer(ok) \in Messages
      /\ job.pc # "off" => DoneEvent \in Messages
  <2>1. job.pc # "off" => job.call \in Clicks /\ Here \in Pulls /\ Folder.rec \in BOOLEAN
    BY MainTypesAre DEF MainTypes, PullFolders
  <2> QED BY <2>1, AnswersAreMessages DEF PullAnswer, DoneEvent
<1>2. UNCHANGED <<copy, toMain>> BY DEF PullStep
<1> DEFINE c == <<"call", job.call>>
<1>3. ASSUME PullGoesOn PROVE TokenOnce(x)' /\ (Somewhere(x)' => Somewhere(x))
  <2>1. Holds(x)' <=> Holds(x) BY <1>2, <1>3 DEF PullGoesOn, Holds
  <2>2. CASE toPanel' = toPanel BY <1>2, <2>1, <2>2, NoneTold DEF Somewhere
  <2>3. CASE Tell(<<Event("stats")>>) BY <1>1, <1>2, <2>1, <2>3, TokensAre, OneTold
  <2>4. CASE Tell(<<Event("error")>>) BY <1>1, <1>2, <2>1, <2>4, TokensAre, OneTold
  <2> QED BY <1>3, <2>2, <2>3, <2>4 DEF PullGoesOn
<1>4. ASSUME PullEnds
      PROVE TokenOnce(x)' /\ (Somewhere(x)' => Somewhere(x) \/ (job.pc = "record" /\ x = <<"done", Here>>))
  <2>1. /\ Holds(c) /\ job.pc # "off" /\ (Holds(x)' => Holds(x) /\ x # c)
        /\ x = c => Holds(x) /\ ~Carries(toMain, x) /\ ~Carries(toPanel, x)
    BY <1>2, <1>4 DEF PullEnds, Holds, TokenOnce
  <2>2. CASE \E ok \in BOOLEAN : Tell(<<PullAnswer(ok)>>)
    BY <1>1, <1>2, <2>1, <2>2, TokensAre, OneTold DEF Somewhere
  <2>3. CASE Tell(<<Event("error"), PullAnswer(FALSE)>>)
    BY <1>1, <1>2, <2>1, <2>3, TokensAre, TwoTold DEF Somewhere, Nothing
  <2>4. CASE job.pc = "record" /\ Tell(<<DoneEvent, PullAnswer(TRUE)>>)
    <3>1. Holds(x)' => x # <<"done", Here>> BY DEF Holds
    <3>2. c # <<"done", Here>> OBVIOUS
    <3> QED BY <1>1, <1>2, <2>1, <2>4, <3>1, <3>2, TokensAre, TwoTold DEF Somewhere
  <2> QED BY <1>4, <2>2, <2>3, <2>4 DEF PullEnds
<1> QED BY <1>3, <1>4 DEF PullStep

\* A handler answers what it was asked, or holds it.
LEMMA HandleTokens ==
  ASSUME QueueTypes, MainTypes, HandleStep, NEW x, x # Nothing, TokenOnce(x)
  PROVE  TokenOnce(x)' /\ (Somewhere(x)' => Somewhere(x))
<1>1. /\ toMain \in Seq(Requests) /\ toMain # <<>> /\ toMain' = Tail(toMain) /\ Asking \in Requests
  BY DEF QueueTypes, HandleStep, Asking
<1>2. /\ Carries(toMain, x) <=> Token(Asking) = x \/ Carries(toMain', x)
      /\ CarriesOnce(toMain, x) => CarriesOnce(toMain', x) /\ (Token(Asking) = x => ~Carries(toMain', x))
  BY <1>1, CarriesTail DEF Asking
<1>3. Asking.type \in {"pull", "encryption", "cancel", "state", "list", "delete", "copy"}
  BY <1>1 DEF Requests, RequestsOf
<1>4. CASE IsAnswered
  <2>1. PICK a \in Messages :
          /\ Tell(<<a>>) /\ a.type = Asking.type /\ (a.type \in {"pull", "encryption"} => a.call = Asking.call)
    BY <1>4 DEF IsAnswered
  <2>2. Token(a) = Token(Asking) BY <1>3, <2>1, TokensAre
  <2>3. /\ Carries(toPanel', x) <=> Carries(toPanel, x) \/ Token(a) = x
        /\ CarriesOnce(toPanel, x) /\ ~(Carries(toPanel, x) /\ Token(a) = x) => CarriesOnce(toPanel', x)
    BY <2>1, CarriesMore DEF QueueTypes, Tell
  <2>4. Holds(x)' <=> Holds(x) BY <1>4 DEF IsAnswered, Holds
  <2> QED BY <1>2, <2>2, <2>3, <2>4 DEF TokenOnce, Somewhere
<1>5. CASE PullBegins
  <2>1. Token(Asking) = <<"call", Asking.call>> /\ toPanel' = toPanel BY <1>5, TokensAre DEF PullBegins
  <2>2. job.pc = "off" BY <1>5 DEF PullBegins, MainTypes, Running
  <2>3. job'.call = Asking.call /\ copy' = copy BY <1>5 DEF PullBegins, NoJob
  <2>4. Holds(x)' => Holds(x) \/ x = Token(Asking) BY <2>1, <2>3 DEF Holds
  <2> QED BY <1>2, <2>1, <2>4 DEF TokenOnce, Somewhere
<1>6. CASE DeletionBegins
  <2>1. toPanel' = toPanel /\ Token(Asking) = Nothing BY <1>6, TokensAre DEF DeletionBegins
  <2>2. Holds(x)' <=> Holds(x) BY <1>6 DEF DeletionBegins, Holds
  <2> QED BY <1>2, <2>1, <2>2 DEF TokenOnce, Somewhere
<1>7. CASE CopyBegins
  <2>1. toPanel' = toPanel /\ Token(Asking) = <<"copy", 0>> BY <1>7, TokensAre DEF CopyBegins
  <2>2. Holds(x)' => Holds(x) \/ x = Token(Asking) BY <1>7, <2>1 DEF CopyBegins, Holds
  <2> QED BY <1>2, <2>1, <2>2 DEF TokenOnce, Somewhere
<1> QED BY <1>4, <1>5, <1>6, <1>7 DEF HandleStep

\* A copy answers the one request for it.
LEMMA CopyTokens ==
  ASSUME QueueTypes, MainTypes, CopyStep, NEW x, TokenOnce(x)
  PROVE  TokenOnce(x)' /\ (Somewhere(x)' => Somewhere(x))
<1>1. UNCHANGED <<job, toMain>> /\ Holds(<<"copy", 0>>) BY DEF CopyStep, Holds
<1>2. CASE copy'.pc # "off" /\ toPanel' = toPanel
  <2>1. Holds(x)' => Holds(x) BY <1>1 DEF Holds, CopyStep
  <2> QED BY <1>1, <1>2, <2>1, NoneTold DEF Somewhere
<1>3. CASE copy'.pc = "off" /\ \E v \in {"copied", "failed"} : Tell(<<CopyAnswer(v, copy.folder)>>)
  <2>1. PICK v \in {"copied", "failed"} : Tell(<<CopyAnswer(v, copy.folder)>>) BY <1>3
  <2>2. CopyAnswer(v, copy.folder) \in Messages BY AnswersAreMessages DEF CopyAnswer, CopyStep, MainTypes
  <2>3. Holds(x)' => Holds(x) /\ x # <<"copy", 0>> BY <1>1, <1>3 DEF Holds
  <2>4. x = <<"copy", 0>> => ~Carries(toMain, x) /\ ~Carries(toPanel, x) /\ Holds(x) BY <1>1 DEF TokenOnce
  <2> QED BY <1>1, <2>1, <2>2, <2>3, <2>4, TokensAre, OneTold DEF Somewhere
<1> QED BY <1>2, <1>3 DEF CopyStep

\* A deletion answers no call and no copy.
LEMMA DeleteTokens ==
  ASSUME QueueTypes, MainTypes, DeleteStep, NEW x, x # Nothing, TokenOnce(x)
  PROVE  TokenOnce(x)' /\ (Somewhere(x)' => Somewhere(x))
<1>1. toMain' = toMain /\ (Holds(x)' <=> Holds(x)) BY DEF DeleteStep, Holds
<1>2. CASE toPanel' = toPanel BY <1>1, <1>2, NoneTold DEF Somewhere
<1>3. ASSUME NEW ok \in BOOLEAN, Tell(<<[type |-> "delete", call |-> 0, ok |-> ok, value |-> del.folder]>>)
      PROVE  TokenOnce(x)' /\ (Somewhere(x)' => Somewhere(x))
  <2> DEFINE a == [type |-> "delete", call |-> 0, ok |-> ok, value |-> del.folder]
  <2>1. a \in Messages BY AnswersAreMessages DEF MainTypes, Deletions
  <2>2. a.type = "delete" OBVIOUS
  <2>3. Tell(<<a>>) BY <1>3
  <2> HIDE DEF a
  <2>4. Token(a) = Nothing BY <2>2, TokensAre
  <2> QED BY <1>1, <2>1, <2>3, <2>4, OneTold
<1> QED BY <1>2, <1>3 DEF DeleteStep

\* The queues stay queues of requests and of messages.
LEMMA MainQueues ==
  ASSUME QueueTypes, MainTypes, PullStep \/ HandleStep \/ CopyStep \/ DeleteStep PROVE QueueTypes'
<1> USE DEF QueueTypes
<1>1. toMain' \in Seq(Requests) BY HeadTailProperties DEF PullStep, HandleStep, CopyStep, DeleteStep
<1>2. ASSUME NEW a \in Messages, Tell(<<a>>) PROVE toPanel' \in Seq(Messages) BY <1>2 DEF Tell
<1>3. ASSUME NEW a \in Messages, NEW b \in Messages, Tell(<<a, b>>) PROVE toPanel' \in Seq(Messages) BY <1>3 DEF Tell
<1>4. CASE PullStep
  <2>1. job.pc # "off" /\ job.call \in Clicks /\ Here \in Pulls /\ Folder.rec \in BOOLEAN
    BY <1>4, MainTypesAre DEF MainTypes, PullFolders, PullStep, PullGoesOn, PullEnds
  <2>2. /\ Event("stats") \in Messages /\ Event("error") \in Messages /\ DoneEvent \in Messages
        /\ \A ok \in BOOLEAN : PullAnswer(ok) \in Messages
    BY <2>1, AnswersAreMessages DEF PullAnswer, DoneEvent
  <2>3. PullGoesOn => toPanel' \in Seq(Messages) BY <1>2, <2>2 DEF PullGoesOn
  <2>4. PullEnds => toPanel' \in Seq(Messages) BY <1>2, <1>3, <2>2 DEF PullEnds
  <2> QED BY <1>1, <1>4, <2>3, <2>4 DEF PullStep
<1>5. CASE HandleStep
  <2>1. IsAnswered => toPanel' \in Seq(Messages) BY <1>2 DEF IsAnswered
  <2> QED BY <1>1, <1>5, <2>1 DEF HandleStep, PullBegins, DeletionBegins, CopyBegins
<1>6. CASE CopyStep
  <2>1. \A v \in {"copied", "failed"} : CopyAnswer(v, copy.folder) \in Messages
    BY <1>6, AnswersAreMessages DEF CopyAnswer, CopyStep, MainTypes
  <2> QED BY <1>1, <1>2, <1>6, <2>1 DEF CopyStep
<1>7. CASE DeleteStep
  <2>1. \A ok \in BOOLEAN : [type |-> "delete", call |-> 0, ok |-> ok, value |-> del.folder] \in Messages
    BY AnswersAreMessages DEF MainTypes, Deletions
  <2> QED BY <1>1, <1>2, <1>7, <2>1 DEF DeleteStep
<1> QED BY <1>4, <1>5, <1>6, <1>7

-------------------------------------------------------------------------------
(* What is on the disk. *)

IsRecorded(k) == k \in Pulls /\ "completed" \in disk[k].lines
\* A pull is recorded as completed only when its backup is finished, and copies
\* are made only of those; crash logs with a record are whole.
DiskKnown ==
  /\ job.pc \in {"logs", "record"} => Folder.dir = "finished"
  /\ job.pc = "logs" => ~Folder.rec
  /\ job.pc # "off" => ~IsRecorded(Here)
  /\ \A k \in Pulls : disk[k].rec => disk[k].logs = "whole"
  /\ \A k \in Pulls : IsRecorded(k) => disk[k].dir = "finished"
  /\ copy.pc # "off" => IsRecorded(copy.folder)
\* What is recorded stays, and only a copy touches its crash logs.
SameRecord(k) == disk'[k].rec = disk[k].rec /\ disk'[k].kept = disk[k].kept
RecordsStay ==
  \A k \in Pulls : IsRecorded(k) =>
    IsRecorded(k)' /\ (SameRecord(k) \/ (copy.pc # "off" /\ k = copy.folder))

RecordsKept == \A k \in Pulls : IsRecorded(k) => IsRecorded(k)' /\ SameRecord(k)

\* What is said of a copy agrees with its record, where no copy stands that should
\* have been removed.
Agrees(copied, f) == (copied => f.rec) /\ (f.rec => copied \/ f.kept)

\* A step that writes only the folder of the pull under way.
LEMMA DiskStep ==
  ASSUME MainTypes, DiskKnown, job.pc # "off", NEW f, Writes(f), copy' = copy,
         Here' = Here \/ (Here' = None /\ job'.pc = "off"),
         f.rec => f.logs = "whole", "completed" \in f.lines => f.dir = "finished" /\ job'.pc = "off",
         job'.pc \in {"logs", "record"} => f.dir = "finished", job'.pc = "logs" => ~f.rec
  PROVE  DiskKnown' /\ RecordsKept
<1>1. Here \in Pulls /\ disk \in [Pulls -> PullFolders] BY MainTypesAre DEF MainTypes
<1>2. DOMAIN disk' = Pulls /\ disk'[Here] = f /\ \A k \in Pulls \ {Here} : disk'[k] = disk[k]
  BY <1>1 DEF Writes
<1>3. RecordsKept BY <1>2 DEF RecordsKept, SameRecord, DiskKnown, IsRecorded
<1>4. copy.pc # "off" => copy.folder # Here BY DEF DiskKnown
<1>5. job'.pc # "off" => Here' = Here BY DEF None
<1> HIDE DEF Here
<1>6. job'.pc # "off" => Folder' = f /\ ~IsRecorded(Here)' BY <1>2, <1>5 DEF Folder, IsRecorded
<1>7. \A k \in Pulls : (disk'[k].rec => disk'[k].logs = "whole") /\ (IsRecorded(k)' => disk'[k].dir = "finished")
  BY <1>2 DEF DiskKnown, IsRecorded
<1>8. copy.pc # "off" => IsRecorded(copy.folder)' BY <1>2, <1>4 DEF DiskKnown, IsRecorded
<1> QED BY <1>3, <1>6, <1>7, <1>8 DEF DiskKnown

\* A step that writes nothing.
LEMMA UnwrittenStep ==
  ASSUME MainTypes, DiskKnown, job.pc # "off", disk' = disk, copy' = copy,
         Here' = Here \/ (Here' = None /\ job'.pc = "off"),
         job'.pc \in {"logs", "record"} => Folder.dir = "finished" /\ job'.pc # "logs"
  PROVE  DiskKnown' /\ RecordsKept
<1>1. Here \in Pulls /\ disk \in [Pulls -> PullFolders] BY MainTypesAre DEF MainTypes
<1>2. Writes(Folder) BY <1>1 DEF Writes, Folder
<1>3. (Folder.rec => Folder.logs = "whole") /\ "completed" \notin Folder.lines
  BY <1>1 DEF DiskKnown, Folder, IsRecorded
<1> QED BY <1>2, <1>3, DiskStep

\* What every step of the pull leaves on the disk.
LEMMA EachPullDisk ==
  ASSUME MainTypes, DiskKnown, PullSteps \/ ToolWrites \/ ToolExits \/ PullFailures
  PROVE  DiskKnown' /\ RecordsKept
<1> DEFINE Unwritten == /\ disk' = disk /\ copy' = copy /\ job.pc # "off"
                        /\ Here' = Here \/ (Here' = None /\ job'.pc = "off")
                        /\ job'.pc \in {"logs", "record"} => Folder.dir = "finished" /\ job'.pc # "logs"
<1>0. /\ DOMAIN tracker = {"folder", "stats", "ended"} /\ DOMAIN job = {"pc", "call", "enable", "ours", "outcome"}
      /\ job.pc # "off" => Here \in Pulls /\ Folder \in PullFolders
      /\ job.pc # "off" => (Folder.rec => Folder.logs = "whole") /\ "completed" \notin Folder.lines
  BY MainTypesAre DEF DiskKnown, Folder, IsRecorded
<1>1. ASSUME NEW reported, Threw(reported), job.pc # "off", disk' = disk, copy' = copy
      PROVE  Unwritten
  BY <1>0, <1>1 DEF Threw, Here
<1>2. ASSUME NEW reported, Fails(reported), job.pc # "off" PROVE Unwritten
  BY <1>1, <1>2 DEF Fails, Elsewhere, PullOnly
<1>3. ASSUME Starts, job.pc # "off" PROVE Unwritten BY <1>0, <1>3 DEF Starts, PullOnly, Here
<1>4. ASSUME NEW pc \in JobPlaces \ {"logs", "record", "off"}, job' = [job EXCEPT !.pc = pc], Stays, job.pc # "off"
      PROVE  Unwritten
  BY <1>0, <1>4 DEF Stays, Elsewhere, PullOnly, Here
<1>5. CASE MakeFolder \/ ToolExits \/ LeftoverLine \/ LeftoverFails
  <2>1. Unwritten BY <1>4, <1>5 DEF MakeFolder, ToolExits, LeftoverLine, LeftoverFails, Goes, JobPlaces
  <2> QED BY <2>1, UnwrittenStep
<1>6. CASE Register
  <2>1. Unwritten BY <1>0, <1>6 DEF Register, PullOnly, Here
  <2> QED BY <2>1, UnwrittenStep
<1>7. CASE CheckFails \/ PrepareFails \/ TurnOnFails
  <2>1. Unwritten BY <1>1, <1>2, <1>7 DEF CheckFails, PrepareFails, TurnOnFails, PullOnly
  <2> QED BY <2>1, UnwrittenStep
<1>8. CASE Exists
  <2>1. Unwritten
    <3>1. CASE Folder.dir = "absent" BY <1>0, <1>8, <3>1 DEF Exists, Stays, Elsewhere, PullOnly, Here
    <3>2. CASE Folder.dir # "absent" BY <1>2, <1>8, <3>2 DEF Exists
    <3> QED BY <3>1, <3>2
  <2> QED BY <2>1, UnwrittenStep
<1>9. CASE Prepare \/ TurnOn
  <2>1. Unwritten BY <1>2, <1>3, <1>4, <1>9 DEF Prepare, TurnOn, Goes, JobPlaces
  <2> QED BY <2>1, UnwrittenStep
<1>10. CASE Settle
  <2>1. Unwritten
    <3>1. CASE Settled BY <1>4, <1>10, <3>1 DEF Settle, Closed, JobPlaces
    <3>2. CASE ~Settled BY <1>2, <1>10, <3>2 DEF Settle, Closed
    <3> QED BY <3>1, <3>2
  <2> QED BY <2>1, UnwrittenStep
<1>11. CASE RecordFails
  <2>1. Unwritten BY <1>0, <1>11 DEF RecordFails, Goes, Elsewhere, PullOnly, Here
  <2> QED BY <2>1, UnwrittenStep
<1>12. CASE End
  <2>1. Unwritten BY <1>0, <1>12 DEF End, NoJob, NoPull, Elsewhere, PullOnly, Here, None
  <2> QED BY <2>1, UnwrittenStep
<1>13. CASE MakeOrRegisterFails
  <2>1. job.pc # "off" /\ Writes(Unused) /\ Here' = None /\ job'.pc = "off" /\ copy' = copy
    BY <1>13 DEF MakeOrRegisterFails, NoJob, NoPull, Elsewhere, PullOnly, Here, None
  <2> QED BY <2>1, DiskStep DEF Unused
<1>14. CASE ToolWrites
  <2>1. PICK d \in {"bare", "unfinished", "finished"} : Writes([Folder EXCEPT !.dir = d]) BY <1>14 DEF ToolWrites
  <2>2. job.pc = "backup" /\ job' = job /\ Here' = Here /\ copy' = copy
    BY <1>14 DEF ToolWrites, Elsewhere, PullOnly, Here
  <2> DEFINE f == [Folder EXCEPT !.dir = d]
  <2>3. f.rec = Folder.rec /\ f.logs = Folder.logs /\ f.lines = Folder.lines BY <1>0, <2>2 DEF PullFolders
  <2> HIDE DEF f
  <2>4. Writes(f) BY <2>1 DEF f
  <2> QED BY <1>0, <2>2, <2>3, <2>4, DiskStep
<1>15. CASE Verify
  <2>1. CASE Fails(TRUE)
    <3>1. Unwritten BY <1>2, <1>15, <2>1 DEF Verify
    <3> QED BY <3>1, UnwrittenStep
  <2>2. CASE Verified(Folder) /\ NoLogs(Folder) /\ Goes("verify", "logs") /\ Writes(MakeLogs(Folder))
               /\ UNCHANGED <<tracker, cancel>> /\ Elsewhere
    <3>1. job.pc = "verify" /\ job'.pc = "logs" /\ Here' = Here /\ copy' = copy
      BY <1>0, <2>2 DEF Goes, Elsewhere, PullOnly, Here
    <3> DEFINE f == MakeLogs(Folder)
    <3>2. f.rec = FALSE /\ f.dir = "finished" /\ "completed" \notin f.lines
      BY <1>0, <2>2, <3>1 DEF MakeLogs, PullFolders, Verified, NoLogs
    <3> HIDE DEF f
    <3>3. Writes(f) BY <2>2 DEF f
    <3> QED BY <3>1, <3>2, <3>3, DiskStep
  <2>3. CASE Verified(Folder) /\ Goes("verify", "record") /\ Stays
    <3>1. Unwritten BY <1>0, <2>3 DEF Goes, Stays, Elsewhere, PullOnly, Here, Verified
    <3> QED BY <3>1, UnwrittenStep
  <2> QED BY <1>15, <2>1, <2>2, <2>3 DEF Verify
<1>16. CASE Logs
  <2>1. PICK f \in {CopyLogs(Folder), LogsLocked(Folder), LogsTorn(Folder)} : Writes(f) BY <1>16 DEF Logs
  <2>2. job.pc = "logs" /\ job'.pc = "record" /\ Here' = Here /\ copy' = copy
    BY <1>0, <1>16 DEF Logs, Goes, Elsewhere, PullOnly, Here
  <2>3. Folder.dir = "finished" /\ Folder.rec = FALSE BY <1>0, <2>2 DEF DiskKnown, PullFolders
  <2>4. f.dir = "finished" /\ f.lines = Folder.lines /\ (f.rec => f.logs = "whole")
    BY <1>0, <2>1, <2>2, <2>3 DEF CopyLogs, LogsLocked, LogsTorn, PullFolders
  <2> QED BY <1>0, <2>1, <2>2, <2>4, DiskStep
<1>17. CASE Record
  <2> DEFINE f == [Folder EXCEPT !.lines = @ \cup {"completed"}]
  <2>1. job.pc = "record" /\ job'.pc = "off" /\ Here' = None /\ copy' = copy /\ Writes(f)
    BY <1>17 DEF Record, NoJob, NoPull, Elsewhere, PullOnly, Here, None
  <2>2. f.dir = "finished" /\ f.rec = Folder.rec /\ f.logs = Folder.logs
    BY <1>0, <2>1 DEF DiskKnown, PullFolders
  <2> HIDE DEF f
  <2> QED BY <1>0, <2>1, <2>2, DiskStep
<1>18. CASE RecordFailure
  <2>1. CASE disk' = disk
    <3>1. Unwritten
      <4>1. job.pc = "failed" /\ Here' = Here /\ copy' = copy BY <1>18 DEF RecordFailure, Elsewhere, PullOnly, Here
      <4>2. job'.pc \in {"leftover", "end"} BY <1>0, <1>18 DEF RecordFailure, Goes
      <4> QED BY <2>1, <4>1, <4>2
    <3> QED BY <3>1, UnwrittenStep
  <2>2. CASE Writes([Folder EXCEPT !.lines = @ \cup {"failed"}])
    <3> DEFINE f == [Folder EXCEPT !.lines = @ \cup {"failed"}]
    <3>1. job.pc = "failed" /\ job'.pc \in {"leftover", "end"} /\ Here' = Here /\ copy' = copy
      BY <1>0, <1>18 DEF RecordFailure, Goes, Elsewhere, PullOnly, Here
    <3>2. f.rec = Folder.rec /\ f.logs = Folder.logs /\ f.dir = Folder.dir /\ "completed" \notin f.lines
      BY <1>0, <3>1, MainTypesAre DEF PullFolders
    <3> HIDE DEF f
    <3>3. Writes(f) BY <2>2 DEF f
    <3> QED BY <1>0, <3>1, <3>2, <3>3, DiskStep
  <2> QED BY <1>18, <2>1, <2>2 DEF RecordFailure
<1>19. CASE Leftover
  <2> DEFINE f == [Folder EXCEPT !.dir = "absent"]
  <2>1. job.pc = "leftover" /\ job'.pc \in {"leftover_line", "end"} /\ Here' = Here /\ copy' = copy
    BY <1>0, <1>19 DEF Leftover, Goes, Elsewhere, PullOnly, Here
  <2>2. CASE disk' = disk
    <3>1. Unwritten BY <2>1, <2>2
    <3> QED BY <3>1, UnwrittenStep
  <2>3. CASE Writes(f)
    <3>1. f.rec = Folder.rec /\ f.logs = Folder.logs /\ f.lines = Folder.lines BY <1>0, <2>1 DEF PullFolders
    <3> HIDE DEF f
    <3> QED BY <1>0, <2>1, <2>3, <3>1, DiskStep
  <2> QED BY <1>19, <2>2, <2>3 DEF Leftover
<1> QED
  BY <1>5, <1>6, <1>7, <1>8, <1>9, <1>10, <1>11, <1>12, <1>13, <1>14, <1>15, <1>16, <1>17, <1>18, <1>19
  DEF PullSteps, PullFailures

\* No handler writes over what is recorded.
LEMMA HandleDisk ==
  ASSUME MainTypes, DiskKnown, HandleStep, Asking.type = "copy" => IsRecorded(Asking.folder)
  PROVE  DiskKnown' /\ RecordsKept
<1>1. CASE IsAnswered
  <2>1. UNCHANGED <<disk, tracker, job, copy>> BY <1>1 DEF IsAnswered
  <2> QED BY <2>1 DEF DiskKnown, RecordsKept, SameRecord, IsRecorded, Folder, Here
<1>2. CASE DeletionBegins
  <2>1. UNCHANGED <<disk, tracker, job, copy>> BY <1>2 DEF DeletionBegins
  <2> QED BY <2>1 DEF DiskKnown, RecordsKept, SameRecord, IsRecorded, Folder, Here
<1>3. CASE CopyBegins
  <2>1. UNCHANGED <<disk, tracker, job>> /\ copy'.folder = Asking.folder /\ Asking.type = "copy" /\ copy.pc = "off"
    BY <1>3 DEF CopyBegins, NoCopy
  <2> QED BY <2>1 DEF DiskKnown, RecordsKept, SameRecord, IsRecorded, Folder, Here
<1>4. CASE PullBegins
  <2>1. PICK k \in Fresh : /\ tracker' = [NoPull EXCEPT !.folder = k] /\ disk' = [disk EXCEPT ![k].dest = Asking.dest]
                           /\ job' = [NoJob EXCEPT !.pc = "mkdir", !.call = Asking.call, !.enable = Asking.enable]
    BY <1>4 DEF PullBegins
  <2>2. k \in Pulls /\ disk[k] = Unused /\ copy' = copy BY <1>4 DEF Fresh, PullBegins
  <2>3. /\ DOMAIN disk' = Pulls /\ \A j \in Pulls \ {k} : disk'[j] = disk[j]
        /\ disk'[k].lines = {} /\ disk'[k].rec = FALSE
    BY <2>1, <2>2 DEF MainTypes, Unused
  <2>4. Here' = k /\ job'.pc = "mkdir" BY <2>1 DEF Here, NoPull, NoJob
  <2>5. ~IsRecorded(k) /\ ~IsRecorded(k)' BY <2>2, <2>3 DEF IsRecorded, Unused
  <2>6. RecordsKept BY <2>3, <2>5 DEF RecordsKept, SameRecord, IsRecorded
  <2>7. \A j \in Pulls : (disk'[j].rec => disk'[j].logs = "whole") /\ (IsRecorded(j)' => disk'[j].dir = "finished")
    BY <2>3, <2>5 DEF DiskKnown, IsRecorded
  <2>8. copy'.pc # "off" => IsRecorded(copy.folder)' BY <2>2, <2>3, <2>5 DEF DiskKnown, IsRecorded
  <2> QED BY <2>4, <2>5, <2>6, <2>7, <2>8 DEF DiskKnown
<1> QED BY <1>1, <1>2, <1>3, <1>4 DEF HandleStep

\* No deletion touches what is recorded: it is finished.
LEMMA DeleteDisk ==
  ASSUME MainTypes, DiskKnown, DeleteStep, FinishedIsKept PROVE DiskKnown' /\ RecordsKept
<1>1. UNCHANGED <<tracker, job, copy>> /\ SameLogs BY DEF DeleteStep
<1>2. job.pc # "off" => Here \in Pulls BY MainTypesAre
<1>3. \A k \in Pulls : IsRecorded(k)' <=> IsRecorded(k) BY <1>1 DEF SameLogs, IsRecorded
<1>4. RecordsKept BY <1>1, <1>3 DEF RecordsKept, SameRecord, SameLogs
<1>5. job.pc \in {"logs", "record"} => Folder'.dir = "finished" BY <1>1, <1>2 DEF DiskKnown, FinishedIsKept, Folder, Here
<1>6. job.pc = "logs" => ~Folder'.rec BY <1>1, <1>2 DEF DiskKnown, SameLogs, Folder, Here
<1>7. job.pc # "off" => ~IsRecorded(Here)' BY <1>1, <1>2, <1>3 DEF DiskKnown, Here
<1>8. \A k \in Pulls : (disk'[k].rec => disk'[k].logs = "whole") /\ (IsRecorded(k)' => disk'[k].dir = "finished")
  BY <1>1, <1>3 DEF DiskKnown, SameLogs, FinishedIsKept
<1>9. copy'.pc # "off" => IsRecorded(copy.folder)' BY <1>1 DEF DiskKnown, IsRecorded, SameLogs
<1> QED BY <1>1, <1>4, <1>5, <1>6, <1>7, <1>8, <1>9 DEF DiskKnown

\* What each step of a copy leaves of the crash logs.
LEMMA LogsOf ==
  ASSUME NEW f \in PullFolders
  PROVE  /\ MakeLogs(f).rec = f.rec /\ LogsLocked(f).rec = f.rec /\ LogsTorn(f) = f
         /\ CopyLogs(f).rec /\ CopyLogs(f).logs = "whole"
         /\ \A g \in Discarded(f) : g.rec => g.kept /\ f.rec /\ g.logs = f.logs
BY DEF PullFolders, LogsLocked, LogsTorn, MakeLogs, CopyLogs, Discarded

\* What a copy has made so far.
CopyKnown ==
  /\ copy.pc = "check" => Agrees(FALSE, Copied)
  /\ copy.pc = "run" => ~Copied.rec
  /\ copy.pc = "line" => Agrees(copy.copied, Copied)
\* What every step of a copy leaves on the disk.
LEMMA CopyDisk ==
  ASSUME MainTypes, DiskKnown, CopyKnown, CopySteps
  PROVE  DiskKnown' /\ RecordsStay /\ CopyKnown'
<1>1. copy.pc # "off" /\ copy.folder \in Pulls /\ copy \in Copies /\ Copied \in PullFolders
  BY DEF MainTypes, CopySteps, CopyCheck, CopyRun, CopyLine, CopyDiscard, Copied
<1>2. UNCHANGED <<job, tracker>> BY DEF CopySteps, CopyCheck, CopyRun, CopyLine, CopyDiscard, CopyStays
<1>3. \/ disk' = disk
      \/ \E f \in {LogsLocked(Copied), LogsTorn(Copied), MakeLogs(Copied), CopyLogs(Copied)}
                                   \cup Discarded(Copied) : CopyWrites(f) /\ (f.rec => f.logs = "whole")
  <2>1. Copied.rec => Copied.logs = "whole" BY <1>1 DEF DiskKnown, Copied
  <2>2. CASE CopyCheck
    <3>1. NoLogs(Copied) => ~MakeLogs(Copied).rec BY <1>1, LogsOf DEF NoLogs
    <3> QED BY <2>2, <3>1 DEF CopyCheck
  <2>3. CASE CopyRun BY <1>1, <2>1, <2>3, LogsOf DEF CopyRun, CopyKnown
  <2>4. CASE CopyLine BY <2>4 DEF CopyLine
  <2>5. CASE CopyDiscard BY <1>1, <2>1, <2>5, LogsOf DEF CopyDiscard
  <2> QED BY <2>2, <2>3, <2>4, <2>5 DEF CopySteps
<1>4. /\ \A k \in Pulls \ {copy.folder} : disk'[k] = disk[k]
      /\ \A k \in Pulls : disk'[k].lines = disk[k].lines /\ disk'[k].dir = disk[k].dir
      /\ disk'[copy.folder].rec => disk'[copy.folder].logs = "whole"
  <2>1. CASE disk' = disk BY <1>1, <2>1 DEF DiskKnown
  <2>2. ASSUME NEW f \in {LogsLocked(Copied), LogsTorn(Copied), MakeLogs(Copied), CopyLogs(Copied)} \cup Discarded(Copied),
               CopyWrites(f), f.rec => f.logs = "whole"
        PROVE  <1>4!:
    <3>1. f.lines = Copied.lines /\ f.dir = Copied.dir
      BY <1>1 DEF LogsLocked, LogsTorn, MakeLogs, CopyLogs, Discarded, PullFolders
    <3>2. disk'[copy.folder] = f /\ \A k \in Pulls \ {copy.folder} : disk'[k] = disk[k]
      BY <1>1, <2>2 DEF CopyWrites, MainTypes
    <3> QED BY <2>2, <3>1, <3>2 DEF Copied
  <2> QED BY <1>3, <2>1, <2>2
<1>5. \A k \in Pulls : IsRecorded(k)' <=> IsRecorded(k) BY <1>4 DEF IsRecorded
<1>6. RecordsStay BY <1>1, <1>4, <1>5 DEF RecordsStay, SameRecord
<1>7. job.pc # "off" => Here \in Pulls /\ Here # copy.folder BY <1>1, MainTypesAre DEF DiskKnown
<1>8. DiskKnown'
  <2>1. job.pc # "off" => Folder' = Folder /\ ~IsRecorded(Here)' BY <1>2, <1>4, <1>5, <1>7 DEF Folder, Here, DiskKnown
  <2>2. \A k \in Pulls : (disk'[k].rec => disk'[k].logs = "whole") /\ (IsRecorded(k)' => disk'[k].dir = "finished")
    BY <1>4, <1>5 DEF DiskKnown
  <2>3. copy'.pc # "off" => IsRecorded(copy.folder)'
    <3>1. CopyStep BY EachCopyStep
    <3>2. copy'.pc # "off" => copy'.folder = copy.folder BY <3>1 DEF CopyStep
    <3> QED BY <1>1, <1>4, <3>2 DEF DiskKnown, IsRecorded
  <2> QED BY <1>2, <2>1, <2>2, <2>3 DEF DiskKnown
<1>9. CopyKnown'
  <2>0. /\ DOMAIN copy = {"pc", "folder", "copied"} /\ DOMAIN disk = Pulls
        /\ Copied.rec \in BOOLEAN
    BY <1>1 DEF Copies, MainTypes, PullFolders
  <2>1. CASE CopyCheck
    <3>1. CASE CopyGoes("check", "run", FALSE) /\ CopyWrites(MakeLogs(Copied)) /\ NoLogs(Copied)
      <4>1. copy'.pc = "run" /\ copy'.folder = copy.folder BY <2>0, <3>1 DEF CopyGoes
      <4>2. ~disk'[copy.folder].rec BY <1>1, <2>0, <3>1, LogsOf DEF CopyWrites, NoLogs
      <4> QED BY <4>1, <4>2 DEF CopyKnown, Copied
    <3>2. CASE CopyGoes("check", "line", FALSE) /\ disk' = disk
      <4>1. copy'.pc = "line" /\ copy'.folder = copy.folder /\ ~copy'.copied /\ Agrees(FALSE, Copied)
        BY <2>0, <3>2 DEF CopyGoes, CopyKnown
      <4> QED BY <3>2, <4>1 DEF CopyKnown, Copied, Agrees
    <3>3. CASE copy' = NoCopy BY <3>3 DEF CopyKnown, NoCopy
    <3> QED BY <2>1, <3>1, <3>2, <3>3 DEF CopyCheck, CopyEnds
  <2>2. CASE CopyRun
    <3>1. ~Copied.rec BY <2>2 DEF CopyRun, CopyKnown
    <3>2. PICK copied \in BOOLEAN : CopyGoes("run", "line", copied) /\ (copied <=> disk'[copy.folder].rec)
      <4>1. CASE CopyGoes("run", "line", TRUE) /\ CopyWrites(CopyLogs(Copied))
        BY <1>1, <2>0, <4>1, LogsOf DEF CopyWrites
      <4>2. CASE CopyGoes("run", "line", FALSE) /\ CopyWrites(LogsLocked(Copied))
        BY <1>1, <2>0, <3>1, <4>2, LogsOf DEF CopyWrites
      <4>3. CASE CopyGoes("run", "line", FALSE) /\ CopyWrites(LogsTorn(Copied))
        BY <1>1, <2>0, <3>1, <4>3, LogsOf DEF CopyWrites
      <4> QED BY <2>2, <4>1, <4>2, <4>3 DEF CopyRun
    <3>3. copy'.pc = "line" /\ copy'.folder = copy.folder /\ copy'.copied = copied BY <2>0, <3>2 DEF CopyGoes
    <3> QED BY <3>2, <3>3 DEF CopyKnown, Copied, Agrees
  <2>3. CASE CopyLine
    <3>1. copy' = NoCopy \/ copy'.pc = "discard" BY <2>0, <2>3 DEF CopyLine, CopyEnds, CopyGoes
    <3>2. copy'.pc \in {"off", "discard"} BY <3>1 DEF NoCopy
    <3> QED BY <3>2 DEF CopyKnown
  <2>4. CASE CopyDiscard BY <2>4 DEF CopyDiscard, CopyEnds, CopyKnown, NoCopy
  <2> QED BY <2>1, <2>2, <2>3, <2>4 DEF CopySteps
<1> QED BY <1>6, <1>8, <1>9

\* A copy's answer says what has become of it.
LEMMA CopyEndsTruly ==
  ASSUME MainTypes, CopyKnown, CopySteps, copy'.pc = "off"
  PROVE  \E v \in {"copied", "failed"} :
           Tell(<<CopyAnswer(v, copy.folder)>>) /\ Agrees(v = "copied", disk'[copy.folder])
<1>1. copy.pc # "off" /\ copy.folder \in Pulls /\ copy \in Copies /\ Copied \in PullFolders
  BY DEF MainTypes, CopySteps, CopyCheck, CopyRun, CopyLine, CopyDiscard, Copied
<1>2. DOMAIN copy = {"pc", "folder", "copied"} /\ copy.copied \in BOOLEAN /\ DOMAIN disk = Pulls
  BY <1>1 DEF Copies, MainTypes
<1>3. ASSUME NEW a, NEW b, NEW copied, b # "off" PROVE ~CopyGoes(a, b, copied) BY <1>2, <1>3 DEF CopyGoes
<1>4. CASE CopyCheck
  <2>1. CopyEnds(FALSE) /\ disk' = disk BY <1>3, <1>4 DEF CopyCheck
  <2> QED BY <1>4, <2>1 DEF CopyCheck, CopyKnown, CopyEnds, Copied, Agrees
<1>5. CASE CopyRun BY <1>3, <1>5 DEF CopyRun
<1>6. CASE CopyLine
  <2>1. (CopyEnds(copy.copied) \/ (~copy.copied /\ CopyEnds(FALSE))) /\ disk' = disk BY <1>3, <1>6 DEF CopyLine
  <2> QED BY <1>6, <2>1 DEF CopyLine, CopyKnown, CopyEnds, Copied, Agrees
<1>7. CASE CopyDiscard
  <2>1. PICK f \in Discarded(Copied) : CopyWrites(f) BY <1>7 DEF CopyDiscard
  <2>2. Agrees(FALSE, disk'[copy.folder]) BY <1>1, <1>2, <2>1, LogsOf DEF CopyWrites, Agrees
  <2> QED BY <1>7, <2>2 DEF CopyDiscard, CopyEnds, Agrees
<1> QED BY <1>4, <1>5, <1>6, <1>7 DEF CopySteps

-------------------------------------------------------------------------------
(* What is said of the disk, and what the panel shows of it. *)

IsDone(m) == m.type = "event" /\ m.what = "done"
IsTrue(m) ==
  /\ m.type = "copy" => IsRecorded(m.folder) /\ Agrees(m.value = "copied", disk[m.folder])
  /\ IsDone(m) => IsRecorded(m.folder) /\ (m.logs <=> disk[m.folder].rec)
IsSound(m) == m.type = "copy" => IsRecorded(m.folder) /\ Agrees(FALSE, disk[m.folder])
\* A copy for k is asked for, made, or answered.
CopyOf(k) ==
  \/ copy.pc # "off" /\ copy.folder = k
  \/ \E m \in ToSet(toMain) \cup ToSet(toPanel) : m.type = "copy" /\ m.folder = k
ShownTruly ==
  /\ panel.done # None => IsRecorded(panel.done)
  /\ panel.logsOf # None => IsRecorded(panel.logsOf) /\ ~Carries(toPanel, <<"done", panel.logsOf>>)
  /\ panel.logsOf # None /\ ~panel.copying =>
       Agrees(panel.logs = "copied", disk[panel.logsOf]) /\ ~CopyOf(panel.logsOf)
ToldTruly ==
  /\ \A m \in ToSet(toPanel) : IsTrue(m)
  /\ \A m \in ToSet(toMain) : IsSound(m)
  /\ \A k : CopyOf(k) => ~Carries(toPanel, <<"done", k>>)

\* What is in a queue, and what each step of it does to that.
LEMMA ToSetIs ==
  ASSUME NEW S, NEW q \in Seq(S)
  PROVE  /\ \A x : Carries(q, x) <=> \E m \in ToSet(q) : Token(m) = x
         /\ q # <<>> => ToSet(q) = {Head(q)} \cup ToSet(Tail(q))
         /\ \A a \in S : ToSet(q \o <<a>>) = ToSet(q) \cup {a}
         /\ \A at \in SUBSET DOMAIN q : ToSet(Picked(q, at)) \subseteq {q[i] : i \in at}
         /\ ToSet(q) \subseteq S
<1>1. ToSet(q) = {q[i] : i \in 1 .. Len(q)} BY DEF ToSet
<1>2. ToSet(q) \subseteq S /\ \A x : Carries(q, x) <=> \E m \in ToSet(q) : Token(m) = x
  BY <1>1 DEF Carries
<1>3. ASSUME q # <<>> PROVE ToSet(q) = {Head(q)} \cup ToSet(Tail(q))
  <2> DEFINE t == Tail(q)
             h == Head(q)
  <2>1. t \in Seq(S) /\ Len(q) \in Nat \ {0} /\ Len(t) = Len(q) - 1 /\ (\A i \in 1 .. Len(t) : t[i] = q[i + 1]) /\ h = q[1]
    BY <1>3, HeadTailProperties, EmptySeq
  <2> HIDE DEF t, h
  <2>2. ToSet(t) = {t[i] : i \in 1 .. Len(t)} BY <2>1 DEF ToSet
  <2>3. \A i \in 1 .. Len(q) : i = 1 \/ (i - 1 \in 1 .. Len(t) /\ t[i - 1] = q[i]) BY <2>1
  <2>4. \A i \in 1 .. Len(t) : i + 1 \in 1 .. Len(q) BY <2>1
  <2>5. 1 \in 1 .. Len(q) BY <2>1
  <2>6. ToSet(q) \subseteq {h} \cup ToSet(t) BY <1>1, <2>1, <2>2, <2>3
  <2>7. {h} \cup ToSet(t) \subseteq ToSet(q) BY <1>1, <2>1, <2>2, <2>4, <2>5
  <2> QED BY <2>6, <2>7 DEF t, h
<1>4. ASSUME NEW a \in S PROVE ToSet(q \o <<a>>) = ToSet(q) \cup {a}
  <2> DEFINE r == q \o <<a>>
  <2>1. r \in Seq(S) /\ Len(q) \in Nat /\ Len(r) = Len(q) + 1 /\ r[Len(q) + 1] = a /\ \A i \in 1 .. Len(q) : r[i] = q[i]
    BY ConcatProperties
  <2> HIDE DEF r
  <2>2. ToSet(r) = {r[i] : i \in 1 .. Len(r)} BY <2>1 DEF ToSet
  <2>3. 1 .. Len(r) = (1 .. Len(q)) \cup {Len(q) + 1} BY <2>1
  <2>4. ToSet(r) \subseteq ToSet(q) \cup {a} BY <1>1, <2>1, <2>2, <2>3
  <2>5. ToSet(q) \cup {a} \subseteq ToSet(r) BY <1>1, <2>1, <2>2, <2>3
  <2> QED BY <2>4, <2>5 DEF r
<1>5. ASSUME NEW at \in SUBSET DOMAIN q PROVE ToSet(Picked(q, at)) \subseteq {q[i] : i \in at}
  <2> DEFINE p == Picked(q, at)
  <2>1. PICK f \in [DOMAIN p -> at] : \A n \in DOMAIN p : p[n] = q[f[n]] BY PickedIs
  <2> HIDE DEF p
  <2>2. ToSet(p) \subseteq {q[i] : i \in at} BY <2>1 DEF ToSet
  <2> QED BY <2>2 DEF p
<1> QED BY <1>2, <1>3, <1>4, <1>5

\* What was said of the disk is still so.
LEMMA StillTrue ==
  ASSUME QueueTypes, ToldTruly, RecordsStay, TokenOnce(<<"copy", 0>>)
  PROVE  (\A m \in ToSet(toPanel) : IsTrue(m)') /\ (\A m \in ToSet(toMain) : IsSound(m)')
<1>1. ASSUME NEW m \in ToSet(toPanel) \cup ToSet(toMain), m.type = "copy" PROVE copy.pc = "off"
  <2>1. Token(m) = <<"copy", 0>> BY <1>1, TokensAre
  <2>2. Carries(toPanel, <<"copy", 0>>) \/ Carries(toMain, <<"copy", 0>>) BY <2>1, ToSetIs DEF QueueTypes
  <2> QED BY <2>2 DEF TokenOnce, Holds
<1>2. ASSUME NEW m \in ToSet(toPanel), IsDone(m) PROVE ~(copy.pc # "off" /\ m.folder = copy.folder)
  <2>1. Token(m) = <<"done", m.folder>> BY <1>2 DEF Token, IsDone
  <2>2. Carries(toPanel, <<"done", m.folder>>) BY <2>1, ToSetIs DEF QueueTypes
  <2> QED BY <2>2 DEF ToldTruly, CopyOf
<1>3. ASSUME NEW m \in ToSet(toPanel) PROVE IsTrue(m)'
  <2>1. IsTrue(m) BY DEF ToldTruly
  <2>2. ASSUME m.type = "copy" PROVE IsRecorded(m.folder)' /\ SameRecord(m.folder)
    BY <1>1, <2>1, <2>2 DEF IsTrue, RecordsStay, IsRecorded
  <2>3. ASSUME IsDone(m) PROVE IsRecorded(m.folder)' /\ SameRecord(m.folder)
    BY <1>2, <2>1, <2>3 DEF IsTrue, RecordsStay, IsRecorded
  <2> QED BY <2>1, <2>2, <2>3 DEF IsTrue, SameRecord, Agrees
<1>4. ASSUME NEW m \in ToSet(toMain) PROVE IsSound(m)'
  <2>1. IsSound(m) BY DEF ToldTruly
  <2>2. ASSUME m.type = "copy" PROVE IsRecorded(m.folder)' /\ SameRecord(m.folder)
    BY <1>1, <2>1, <2>2 DEF IsSound, RecordsStay, IsRecorded
  <2> QED BY <2>1, <2>2 DEF IsSound, SameRecord, Agrees
<1> QED BY <1>3, <1>4

\* The panel hears of it later.
LEMMA StillShown ==
  ASSUME ShownTruly, RecordsStay, panel' = panel, \A k : CopyOf(k)' => CopyOf(k),
         \A k : IsRecorded(k) /\ Carries(toPanel', <<"done", k>>) => Carries(toPanel, <<"done", k>>)
  PROVE  ShownTruly'
<1>1. panel.done # None => IsRecorded(panel.done)' BY DEF ShownTruly, RecordsStay, IsRecorded
<1>2. ASSUME panel.logsOf # None PROVE IsRecorded(panel.logsOf)' /\ ~Carries(toPanel', <<"done", panel.logsOf>>)
  BY <1>2 DEF ShownTruly, RecordsStay, IsRecorded
<1>3. ASSUME panel.logsOf # None, ~panel.copying
      PROVE  Agrees(panel.logs = "copied", disk'[panel.logsOf]) /\ ~CopyOf(panel.logsOf)'
  <2>1. ~CopyOf(panel.logsOf) /\ IsRecorded(panel.logsOf) BY <1>3 DEF ShownTruly
  <2>2. SameRecord(panel.logsOf) BY <2>1 DEF RecordsStay, CopyOf, IsRecorded
  <2>3. ~CopyOf(panel.logsOf)' BY <2>1 DEF CopyOf
  <2> QED BY <1>3, <2>2, <2>3 DEF ShownTruly, SameRecord, Agrees
<1> QED BY <1>1, <1>2, <1>3 DEF ShownTruly

\* Where nothing recorded is touched, not even by a copy.
LEMMA KeptStay == RecordsKept => RecordsStay
BY DEF RecordsKept, RecordsStay

\* A copy that is not the one that steps.
LEMMA CopyWaits == ASSUME CopyKnown, DiskKnown, RecordsKept, copy' = copy PROVE CopyKnown'
<1>1. copy.pc # "off" => SameRecord(copy.folder) BY DEF DiskKnown, RecordsKept, IsRecorded
<1> QED BY <1>1 DEF CopyKnown, Copied, SameRecord, Agrees

\* What the panel is told of, and what of it concerns copies.
LEMMA TellsOf ==
  ASSUME QueueTypes
  PROVE  /\ \A a \in Messages : Tell(<<a>>) => ToSet(toPanel') = ToSet(toPanel) \cup {a}
         /\ \A a, b \in Messages : Tell(<<a, b>>) => ToSet(toPanel') = ToSet(toPanel) \cup {a, b}
<1>1. ASSUME NEW a \in Messages, Tell(<<a>>) PROVE ToSet(toPanel') = ToSet(toPanel) \cup {a}
  BY <1>1, ToSetIs DEF QueueTypes, Tell
<1>2. ASSUME NEW a \in Messages, NEW b \in Messages, Tell(<<a, b>>) PROVE ToSet(toPanel') = ToSet(toPanel) \cup {a, b}
  <2> DEFINE q == toPanel \o <<a>>
  <2>1. q \in Seq(Messages) /\ ToSet(q) = ToSet(toPanel) \cup {a} BY ToSetIs DEF QueueTypes
  <2>2. toPanel' = q \o <<b>>
    <3>1. toPanel \in Seq(Messages) /\ <<a>> \in Seq(Messages) /\ <<b>> \in Seq(Messages) BY DEF QueueTypes
    <3>2. q \o <<b>> = toPanel \o (<<a>> \o <<b>>) BY <3>1, ConcatAssociative
    <3> QED BY <1>2, <3>2, ToldTogether DEF Tell
  <2> HIDE DEF q
  <2>3. ToSet(q \o <<b>>) = ToSet(q) \cup {b} BY <2>1, ToSetIs
  <2> QED BY <2>1, <2>2, <2>3
<1> QED BY <1>1, <1>2

\* Where a step tells nothing new of copies and no pull is done.
LEMMA NoNews ==
  ASSUME QueueTypes, ToldTruly, ShownTruly, RecordsStay, panel' = panel, TokenOnce(<<"copy", 0>>), QueueTypes',
         \A m \in ToSet(toMain') : m \in ToSet(toMain),
         \A m \in ToSet(toPanel') : m \in ToSet(toPanel) \/ (~IsDone(m) /\ IsTrue(m)'),
         \A k : CopyOf(k)' => CopyOf(k)
  PROVE  ToldTruly' /\ ShownTruly'
<1>1. \A m \in ToSet(toPanel') : IsTrue(m)' BY StillTrue
<1>2. \A m \in ToSet(toMain') : IsSound(m)' BY StillTrue
<1>3. ASSUME NEW k, Carries(toPanel', <<"done", k>>) PROVE Carries(toPanel, <<"done", k>>)
  <2>1. PICK m \in ToSet(toPanel') : Token(m) = <<"done", k>> BY <1>3, ToSetIs DEF QueueTypes
  <2>2. IsDone(m) BY <2>1 DEF Token, IsDone, Nothing
  <2> QED BY <2>1, <2>2, ToSetIs DEF QueueTypes
<1>4. \A k : CopyOf(k)' => ~Carries(toPanel', <<"done", k>>) BY <1>3 DEF ToldTruly
<1>5. ShownTruly' BY <1>3, StillShown
<1> QED BY <1>1, <1>2, <1>4, <1>5 DEF ToldTruly

\* What the pull tells of the disk is so.
LEMMA PullTruth ==
  ASSUME QueueTypes, MainTypes, DiskKnown, ToldTruly, ShownTruly, TokenOnce(<<"copy", 0>>), PullStep, RecordsKept,
         panel' = panel
  PROVE  ToldTruly' /\ ShownTruly'
<1>1. QueueTypes' /\ RecordsStay BY MainQueues, KeptStay
<1>2. job.pc # "off" /\ job.call \in Clicks /\ Here \in Pulls /\ Folder.rec \in BOOLEAN /\ UNCHANGED <<copy, toMain>>
  BY MainTypesAre DEF MainTypes, PullFolders, PullStep, PullGoesOn, PullEnds
<1>3. /\ Event("stats") \in Messages /\ Event("error") \in Messages /\ DoneEvent \in Messages
      /\ \A ok \in BOOLEAN : PullAnswer(ok) \in Messages
  BY <1>2, AnswersAreMessages DEF PullAnswer, DoneEvent
<1> DEFINE Plain(m) == ~IsDone(m) /\ m.type # "copy"
<1>4. Plain(Event("stats")) /\ Plain(Event("error")) /\ \A ok \in BOOLEAN : Plain(PullAnswer(ok))
  BY DEF Event, PullAnswer, IsDone
<1>5. ASSUME \A m \in ToSet(toPanel') : m \in ToSet(toPanel) \/ Plain(m) PROVE ToldTruly' /\ ShownTruly'
  <2>1. \A m \in ToSet(toPanel') : m \in ToSet(toPanel) \/ (~IsDone(m) /\ IsTrue(m)') BY <1>5 DEF IsTrue
  <2>2. \A k : CopyOf(k)' => CopyOf(k) BY <1>2, <1>5 DEF CopyOf
  <2> QED BY <1>1, <1>2, <2>1, <2>2, NoNews
<1>6. CASE toPanel' = toPanel BY <1>5, <1>6
<1>7. CASE Tell(<<Event("stats")>>) BY <1>3, <1>4, <1>5, <1>7, TellsOf
<1>8. CASE Tell(<<Event("error")>>) BY <1>3, <1>4, <1>5, <1>8, TellsOf
<1>9. CASE Tell(<<PullAnswer(FALSE)>>)
  <2>1. ToSet(toPanel') = ToSet(toPanel) \cup {PullAnswer(FALSE)} BY <1>3, <1>9, TellsOf
  <2>2. Plain(PullAnswer(FALSE)) BY <1>4
  <2> QED BY <1>5, <2>1, <2>2
<1>10. CASE Tell(<<Event("error"), PullAnswer(FALSE)>>)
  <2>1. ToSet(toPanel') = ToSet(toPanel) \cup {Event("error"), PullAnswer(FALSE)} BY <1>3, <1>10, TellsOf
  <2>2. Plain(Event("error")) /\ Plain(PullAnswer(FALSE)) BY <1>4
  <2> QED BY <1>5, <2>1, <2>2
<1>11. CASE job.pc = "record" /\ Completes /\ Tell(<<DoneEvent, PullAnswer(TRUE)>>)
  <2>1. ToSet(toPanel') = ToSet(toPanel) \cup {DoneEvent, PullAnswer(TRUE)} BY <1>3, <1>11, TellsOf
  <2>2. ~IsRecorded(Here) BY <1>2 DEF DiskKnown
  <2> DEFINE h == Here
             d == DoneEvent
  <2>3. IsRecorded(h) = FALSE /\ "completed" \in disk'[h].lines /\ disk'[h].rec = Folder.rec
    <3>1. Folder \in PullFolders /\ DOMAIN disk = Pulls BY <1>2, MainTypesAre DEF MainTypes
    <3>2. disk'[h] = [Folder EXCEPT !.lines = @ \cup {"completed"}] BY <1>2, <1>11, <3>1 DEF Completes, Writes
    <3> QED BY <2>2, <3>1, <3>2 DEF PullFolders, IsRecorded
  <2>4. d.type = "event" /\ d.what = "done" /\ d.folder = h /\ d.logs = Folder.rec BY DEF DoneEvent
  <2>5. h \in Pulls BY <1>2
  <2>6. PICK k0 : k0 = h OBVIOUS
  <2>7. d \in Messages BY <1>3
  <2>8. PICK d0 : d0 = d OBVIOUS
  <2> HIDE DEF h, d
  <2>9. IsTrue(d0)' BY <2>3, <2>4, <2>5, <2>8 DEF IsTrue, IsRecorded, IsDone
  <2>10. \A m \in ToSet(toPanel') : IsTrue(m)'
    <3>1. ToSet(toPanel') = ToSet(toPanel) \cup {d0, PullAnswer(TRUE)} BY <2>1, <2>8 DEF d
    <3>2. \A m \in ToSet(toPanel) : IsTrue(m)' BY <1>1, StillTrue
    <3>3. ASSUME NEW m, m = PullAnswer(TRUE) PROVE IsTrue(m)' BY <1>4, <3>3 DEF IsTrue
    <3> QED BY <2>9, <3>1, <3>2, <3>3
  <2>11. \A m \in ToSet(toMain') : IsSound(m)' BY <1>1, <1>2, StillTrue
  <2>12. \A k : CopyOf(k)' => CopyOf(k)
    <3>1. DoneEvent.type = "event" BY DEF DoneEvent
    <3> QED BY <1>2, <1>4, <2>1, <3>1 DEF CopyOf
  <2>13. \A k : CopyOf(k) => IsRecorded(k) BY DEF CopyOf, DiskKnown, ToldTruly, IsSound, IsTrue
  <2>14. ASSUME NEW k, k # k0, Carries(toPanel', <<"done", k>>) PROVE Carries(toPanel, <<"done", k>>)
    <3>1. PICK m \in ToSet(toPanel') : Token(m) = <<"done", k>> BY <1>1, <2>14, ToSetIs DEF QueueTypes
    <3>2. IsDone(m) /\ m.folder = k BY <3>1 DEF Token, IsDone, Nothing
    <3>3. m \in ToSet(toPanel) BY <1>4, <2>1, <2>4, <2>6, <2>14, <3>2 DEF d
    <3> QED BY <3>1, <3>3, ToSetIs DEF QueueTypes
  <2>15. ~IsRecorded(k0) BY <2>3, <2>6
  <2>16. \A k : CopyOf(k)' => ~Carries(toPanel', <<"done", k>>) BY <2>12, <2>13, <2>14, <2>15 DEF ToldTruly
  <2>17. ShownTruly' BY <1>1, <2>12, <2>14, <2>15, StillShown
  <2> QED BY <2>10, <2>11, <2>16, <2>17 DEF ToldTruly
<1> QED BY <1>6, <1>7, <1>8, <1>9, <1>10, <1>11 DEF PullStep, PullGoesOn, PullEnds

\* What a handler answers of copies is so.
LEMMA HandleTruth ==
  ASSUME QueueTypes, MainTypes, DiskKnown, CopyKnown, ToldTruly, ShownTruly, TokenOnce(<<"copy", 0>>), HandleStep,
         RecordsKept, panel' = panel
  PROVE  ToldTruly' /\ ShownTruly' /\ CopyKnown'
<1>1. QueueTypes' /\ RecordsStay BY MainQueues, KeptStay
<1>2. toMain # <<>> /\ toMain' = Tail(toMain) BY DEF HandleStep
<1>3. ToSet(toMain) = {Asking} \cup ToSet(toMain') BY <1>2, ToSetIs DEF QueueTypes, Asking
<1>4. Asking \in Requests /\ Asking \in ToSet(toMain) BY <1>3, ToSetIs DEF QueueTypes
<1>5. IsSound(Asking) BY <1>4 DEF ToldTruly
<1>6. CASE IsAnswered
  <2>1. PICK a \in Messages :
          /\ Tell(<<a>>) /\ a.type = Asking.type
          /\ a.type = "copy" => a.folder = Asking.folder /\ a.value = "failed"
    BY <1>6 DEF IsAnswered
  <2>2. ToSet(toPanel') = ToSet(toPanel) \cup {a} BY <2>1, TellsOf
  <2>3. disk' = disk /\ copy' = copy BY <1>6 DEF IsAnswered
  <2>4. a.type # "event" BY <1>4, <2>1 DEF Requests, RequestsOf
  <2>5. IsTrue(a)'
    <3>1. a.type = "copy" => IsRecorded(a.folder) /\ Agrees(FALSE, disk[a.folder]) BY <1>5, <2>1 DEF IsSound
    <3>2. IsRecorded(a.folder)' <=> IsRecorded(a.folder) BY <2>3 DEF IsRecorded
    <3> QED BY <2>1, <2>3, <2>4, <3>1, <3>2 DEF IsTrue, IsDone, Agrees
  <2>6. ~IsDone(a) BY <2>4 DEF IsDone
  <2>7. \A k : CopyOf(k)' => CopyOf(k) BY <1>3, <1>4, <2>1, <2>2, <2>3 DEF CopyOf
  <2>8. ToldTruly' /\ ShownTruly' BY <1>1, <1>3, <2>2, <2>5, <2>6, <2>7, NoNews
  <2> QED BY <2>3, <2>8, CopyWaits
<1>7. CASE toPanel' = toPanel /\ copy' = copy
  <2>1. \A k : CopyOf(k)' => CopyOf(k) BY <1>3, <1>7 DEF CopyOf
  <2>2. ToldTruly' /\ ShownTruly' BY <1>1, <1>3, <1>7, <2>1, NoNews
  <2> QED BY <1>7, <2>2, CopyWaits
<1>8. CASE CopyBegins
  <2>1. toPanel' = toPanel /\ disk' = disk /\ copy'.folder = Asking.folder /\ Asking.type = "copy" /\ copy'.pc = "check"
    BY <1>8 DEF CopyBegins, NoCopy
  <2>2. \A k : CopyOf(k)' => CopyOf(k) BY <1>3, <1>4, <2>1 DEF CopyOf
  <2>3. ToldTruly' /\ ShownTruly' BY <1>1, <1>3, <2>1, <2>2, NoNews
  <2>4. CopyKnown' BY <1>5, <2>1 DEF CopyKnown, Copied, IsSound, Agrees
  <2> QED BY <2>3, <2>4
<1> QED BY <1>6, <1>7, <1>8 DEF HandleStep, PullBegins, DeletionBegins

\* What a copy answers is so.
LEMMA CopyTruth ==
  ASSUME QueueTypes, MainTypes, DiskKnown, CopyKnown, ToldTruly, ShownTruly, TokenOnce(<<"copy", 0>>), CopySteps,
         RecordsStay, panel' = panel
  PROVE  ToldTruly' /\ ShownTruly'
<1>0. CopyStep BY EachCopyStep
<1>1. QueueTypes' /\ toMain' = toMain /\ copy.pc # "off" BY <1>0, MainQueues DEF CopyStep
<1>2. CASE copy'.pc # "off" /\ copy'.folder = copy.folder /\ toPanel' = toPanel
  <2>1. \A k : CopyOf(k)' => CopyOf(k) BY <1>1, <1>2 DEF CopyOf
  <2> QED BY <1>1, <1>2, <2>1, NoNews
<1>3. CASE copy'.pc = "off"
  <2>1. PICK v \in {"copied", "failed"} :
              Tell(<<CopyAnswer(v, copy.folder)>>) /\ Agrees(v = "copied", disk'[copy.folder])
    BY <1>3, CopyEndsTruly
  <2>2. PICK k0 : k0 = copy.folder OBVIOUS
  <2>3. k0 \in Pulls BY <1>1, <2>2 DEF MainTypes
  <2>4. IsRecorded(k0)' BY <1>1, <2>2, <2>3 DEF DiskKnown, RecordsStay
  <2> DEFINE a == CopyAnswer(v, k0)
  <2>5. a \in Messages /\ a.type = "copy" /\ a.value = v /\ a.folder = k0
    BY <2>3, AnswersAreMessages DEF CopyAnswer
  <2>6. Tell(<<a>>) BY <2>1, <2>2
  <2> HIDE DEF a
  <2>7. ToSet(toPanel') = ToSet(toPanel) \cup {a} BY <2>5, <2>6, TellsOf
  <2>8. IsTrue(a)' /\ ~IsDone(a) BY <2>1, <2>2, <2>4, <2>5 DEF IsTrue, IsDone, Agrees
  <2>9. \A k : CopyOf(k)' => CopyOf(k) BY <1>1, <1>3, <2>2, <2>5, <2>7 DEF CopyOf
  <2> QED BY <1>1, <2>7, <2>8, <2>9, NoNews
<1> QED BY <1>0, <1>2, <1>3 DEF CopyStep

\* A deletion leaves all that was said as it is.
LEMMA DeleteTruth ==
  ASSUME QueueTypes, MainTypes, DiskKnown, CopyKnown, ToldTruly, ShownTruly, TokenOnce(<<"copy", 0>>), DeleteStep,
         RecordsKept, panel' = panel
  PROVE  ToldTruly' /\ ShownTruly' /\ CopyKnown'
<1>1. QueueTypes' /\ RecordsStay /\ toMain' = toMain /\ copy' = copy BY MainQueues, KeptStay DEF DeleteStep
<1>2. CASE toPanel' = toPanel
  <2>1. \A k : CopyOf(k)' => CopyOf(k) BY <1>1, <1>2 DEF CopyOf
  <2>2. ToldTruly' /\ ShownTruly' BY <1>1, <1>2, <2>1, NoNews
  <2> QED BY <1>1, <2>2, CopyWaits
<1>3. ASSUME NEW ok \in BOOLEAN, Tell(<<[type |-> "delete", call |-> 0, ok |-> ok, value |-> del.folder]>>)
      PROVE  ToldTruly' /\ ShownTruly'
  <2> DEFINE a == [type |-> "delete", call |-> 0, ok |-> ok, value |-> del.folder]
  <2>1. a \in Messages BY AnswersAreMessages DEF MainTypes, Deletions
  <2>2. a.type = "delete" OBVIOUS
  <2>3. Tell(<<a>>) BY <1>3
  <2> HIDE DEF a
  <2>4. PICK b : b = a OBVIOUS
  <2>5. ToSet(toPanel') = ToSet(toPanel) \cup {b} BY <2>1, <2>3, <2>4, TellsOf
  <2>6. IsTrue(b)' /\ ~IsDone(b) BY <2>2, <2>4 DEF IsTrue, IsDone
  <2>7. \A k : CopyOf(k)' => CopyOf(k) BY <1>1, <2>2, <2>4, <2>5 DEF CopyOf
  <2> QED BY <1>1, <2>5, <2>6, <2>7, NoNews
<1> QED BY <1>1, <1>2, <1>3, CopyWaits DEF DeleteStep

-------------------------------------------------------------------------------
Tokens == \A x : x # Nothing => TokenOnce(x)
MainInv == MainTypes /\ QueueTypes /\ DiskKnown /\ CopyKnown /\ Tokens /\ ToldTruly /\ ShownTruly

\* A pull that is not yet on record has not been told of as done.
LEMMA DoneIsNew ==
  ASSUME QueueTypes, ToldTruly, NEW k, Somewhere(<<"done", k>>) PROVE IsRecorded(k)
<1>1. ~Carries(toMain, <<"done", k>>)
  <2> SUFFICES ASSUME NEW m \in Requests PROVE Token(m) # <<"done", k>> BY DEF Carries, QueueTypes
  <2>1. m.type \in {"pull", "encryption", "cancel", "state", "list", "delete", "copy"} BY DEF Requests, RequestsOf
  <2> QED BY <2>1 DEF Token, Nothing
<1>2. Carries(toPanel, <<"done", k>>) BY <1>1 DEF Somewhere, Holds
<1>3. PICK m \in ToSet(toPanel) : Token(m) = <<"done", k>> BY <1>2, ToSetIs DEF QueueTypes
<1>4. IsDone(m) /\ m.folder = k BY <1>3 DEF Token, IsDone, Nothing
<1> QED BY <1>3, <1>4 DEF ToldTruly, IsTrue

\* Every step of the main process keeps all this, and makes no call, copy or
\* question of its own.
LEMMA MainGoesOn ==
  ASSUME MainInv, FinishedIsKept, PullNext, panel' = panel
  PROVE  /\ MainInv' /\ (PullStep \/ HandleStep \/ CopyStep \/ DeleteStep)
         /\ \A x : x # Nothing /\ Somewhere(x)' => Somewhere(x) \/ \E k : x = <<"done", k>>
<1> USE DEF MainInv
<1>0. TokenOnce(<<"copy", 0>>) BY DEF Tokens, Nothing
<1> DEFINE New == \A x : x # Nothing /\ Somewhere(x)' => Somewhere(x) \/ \E k : x = <<"done", k>>
<1>1. CASE PullSteps \/ ToolWrites \/ ToolExits \/ PullFailures
  <2>1. PullStep BY <1>1, EachPullStep
  <2>2. MainTypes' /\ copy' = copy BY <2>1 DEF PullStep
  <2>3. DiskKnown' /\ RecordsKept BY <1>1, EachPullDisk
  <2>4. QueueTypes' BY <2>1, MainQueues
  <2>5. ToldTruly' /\ ShownTruly' BY <1>0, <2>1, <2>3, PullTruth
  <2>6. CopyKnown' BY <2>2, <2>3, CopyWaits
  <2>7. Tokens' /\ New
    <3>1. job.pc = "record" => ~Somewhere(<<"done", Here>>) BY DoneIsNew DEF DiskKnown
    <3>2. ASSUME NEW x, x # Nothing
          PROVE  TokenOnce(x)' /\ (Somewhere(x)' => Somewhere(x) \/ (job.pc = "record" /\ x = <<"done", Here>>))
      BY <2>1, <3>1, <3>2, PullTokens DEF Tokens
    <3> QED BY <3>2 DEF Tokens
  <2> QED BY <2>1, <2>2, <2>3, <2>4, <2>5, <2>6, <2>7
<1>2. CASE Handle
  <2>1. HandleStep BY <1>2, EachHandleStep DEF QueueTypes
  <2>2. MainTypes' BY <2>1 DEF HandleStep
  <2>3. Asking.type = "copy" => IsRecorded(Asking.folder)
    <3>1. Asking \in ToSet(toMain) BY <2>1, ToSetIs DEF HandleStep, Asking, QueueTypes
    <3> QED BY <3>1 DEF ToldTruly, IsSound
  <2>4. DiskKnown' /\ RecordsKept BY <2>1, <2>3, HandleDisk
  <2>5. QueueTypes' BY <2>1, MainQueues
  <2>6. ToldTruly' /\ ShownTruly' /\ CopyKnown' BY <1>0, <2>1, <2>4, HandleTruth
  <2>7. Tokens' /\ New
    <3>1. ASSUME NEW x, x # Nothing PROVE TokenOnce(x)' /\ (Somewhere(x)' => Somewhere(x))
      BY <2>1, <3>1, HandleTokens DEF Tokens
    <3> QED BY <3>1 DEF Tokens
  <2> QED BY <2>1, <2>2, <2>4, <2>5, <2>6, <2>7
<1>3. CASE CopySteps
  <2>1. CopyStep BY <1>3, EachCopyStep
  <2>2. MainTypes' BY <2>1 DEF CopyStep
  <2>3. DiskKnown' /\ RecordsStay /\ CopyKnown' BY <1>3, CopyDisk
  <2>4. QueueTypes' BY <2>1, MainQueues
  <2>5. ToldTruly' /\ ShownTruly' BY <1>0, <1>3, <2>3, CopyTruth
  <2>6. Tokens' /\ New
    <3>1. ASSUME NEW x, x # Nothing PROVE TokenOnce(x)' /\ (Somewhere(x)' => Somewhere(x))
      BY <2>1, <3>1, CopyTokens DEF Tokens
    <3> QED BY <3>1 DEF Tokens
  <2> QED BY <2>1, <2>2, <2>3, <2>4, <2>5, <2>6
<1>4. CASE DeleteSteps
  <2>1. DeleteStep BY <1>4, EachDeleteStep
  <2>2. MainTypes' BY <2>1 DEF DeleteStep
  <2>3. DiskKnown' /\ RecordsKept BY <2>1, DeleteDisk
  <2>4. QueueTypes' BY <2>1, MainQueues
  <2>5. ToldTruly' /\ ShownTruly' /\ CopyKnown' BY <1>0, <2>1, <2>3, DeleteTruth
  <2>6. Tokens' /\ New
    <3>1. ASSUME NEW x, x # Nothing PROVE TokenOnce(x)' /\ (Somewhere(x)' => Somewhere(x))
      BY <2>1, <3>1, DeleteTokens DEF Tokens
    <3> QED BY <3>1 DEF Tokens
  <2> QED BY <2>1, <2>2, <2>3, <2>4, <2>5, <2>6
<1> QED BY <1>1, <1>2, <1>3, <1>4 DEF PullNext

-------------------------------------------------------------------------------
(* The panel's steps, by the fields they change. *)

Panels == [phase : {"unmounted", "checking", "available", "pulling", "pulled"},
  devices : BOOLEAN, sel : BOOLEAN, dest : Dests \cup {NoDest}, password : BOOLEAN, consent : BOOLEAN,
  stats : BOOLEAN, cancelling : BOOLEAN,
  done : Pulls \cup {None}, logs : {"none", "copied", "failed"}, logsOf : Pulls \cup {None},
  incomplete : SUBSET Pulls, deleting : BOOLEAN, copying : BOOLEAN, dialog : BOOLEAN]
Calls == [stage : {"free", "encryption", "pull"}, dest : Dests \cup {NoDest},
          owner : {"current", "superseded", "gone"}]
Fields == {"phase", "devices", "sel", "dest", "password", "consent", "stats", "cancelling",
           "done", "logs", "logsOf", "incomplete", "deleting", "copying", "dialog"}
\* Fields nothing below depends on.
Inert == {"dest", "stats", "incomplete", "deleting"}
Results == {"done", "logs", "logsOf"}

Changes(p, q, fs) == q \in Panels /\ \A f \in Fields \ fs : q[f] = p[f]
ChangesOnly(fs) == Changes(panel, panel', fs)
NoResults(p) == p.done = None /\ p.logs = "none" /\ p.logsOf = None
\* A request that says nothing of a call, a copy or the running pull.
AsksAside == toMain' = toMain \/ \E r \in Requests : r.type \in {"list", "cancel", "delete"} /\ Asks(<<r>>)
Quietly ==
  /\ UNCHANGED <<mainVars, toPanel>> /\ AsksAside /\ calls' \in {calls, Superseded}
  /\ \/ ChangesOnly(Inert \cup {"sel", "password", "dialog", "consent", "cancelling"})
     \/ ChangesOnly(Inert \cup Results \cup {"password", "dialog"}) /\ NoResults(panel')
  /\ panel'.password => panel.password \/ (panel.phase = "available" /\ ~panel.consent /\ panel.sel)
  /\ panel'.consent => panel.consent
  /\ panel'.cancelling => panel.cancelling \/ panel.phase = "pulling"
  /\ panel'.sel => panel.sel \/ panel.devices
  /\ panel'.dialog => panel.dialog \/ panel.sel

\* The fields of a panel.
LEMMA FieldsAre == ASSUME NEW p \in Panels PROVE DOMAIN p = Fields
BY DEF Panels, Fields

\* The panel as it mounts, and none.
LEMMA MountedIs ==
  /\ Mounted \in Panels /\ Unmounted \in Panels /\ NoResults(Mounted) /\ NoResults(Unmounted)
  /\ Mounted.phase = "checking" /\ Unmounted.phase = "unmounted"
  /\ \A p \in {Mounted, Unmounted} :
       ~p.devices /\ ~p.sel /\ ~p.password /\ ~p.consent /\ ~p.dialog /\ ~p.cancelling /\ ~p.copying
<1>1. Mounted \in Panels /\ NoResults(Mounted) /\ Mounted.phase = "checking"
      /\ ~Mounted.devices /\ ~Mounted.sel /\ ~Mounted.password /\ ~Mounted.consent /\ ~Mounted.dialog
      /\ ~Mounted.cancelling /\ ~Mounted.copying
  BY DEF Panels, Mounted, NoResults, None
<1>2. Unmounted \in Panels /\ Unmounted.phase = "unmounted" /\ \A f \in Fields \ {"phase"} : Unmounted[f] = Mounted[f]
  BY <1>1, FieldsAre DEF Panels, Unmounted, Fields
<1> QED BY <1>1, <1>2 DEF NoResults, Fields

\* What clearing the screen changes.
LEMMA ClearedIs ==
  ASSUME NEW p \in Panels
  PROVE  Changes(p, Cleared(p), {"stats"} \cup Results) /\ NoResults(Cleared(p))
BY FieldsAre DEF Panels, Cleared, None, Changes, Fields, Results, NoResults

\* What a pull that starts changes.
LEMMA StartedIs ==
  ASSUME NEW p \in Panels
  PROVE  Changes(p, Started(p), {"password"}) /\ ~Started(p).password
BY FieldsAre DEF Panels, Started, Changes, Fields

\* Changes one after the other.
LEMMA ChangesTogether ==
  ASSUME NEW p, NEW q, NEW r, NEW fs, NEW gs, Changes(p, q, fs), Changes(q, r, gs) PROVE Changes(p, r, fs \cup gs)
BY DEF Changes

\* What changes a few fields changes no others.
LEMMA MoreChanges == ASSUME NEW p, NEW q, NEW fs, NEW gs, Changes(p, q, fs), fs \subseteq gs PROVE Changes(p, q, gs)
BY DEF Changes

\* What the panel asks for is a request.
LEMMA RequestsAre ==
  /\ \A what \in {"list", "cancel", "state"} : Request(what) \in Requests /\ Request(what).type = what
  /\ \A k \in Pulls, what \in {"delete", "copy"} :
       LET r == Ask(what, 0, k, NoDest, FALSE) IN r \in Requests /\ r.type = what /\ r.folder = k
  /\ \A c \in Clicks :
       LET r == Ask("encryption", c, None, NoDest, FALSE) IN r \in Requests /\ r.type = "encryption" /\ r.call = c
  /\ \A c \in Clicks, dest \in Dests \cup {NoDest} :
       LET r == Ask("pull", c, None, dest, FALSE) IN r \in Requests /\ r.type = "pull" /\ r.call = c
  /\ \A c \in Clicks, dest \in Dests \cup {NoDest} :
       LET r == Ask("pull", c, None, dest, TRUE) IN r \in Requests /\ r.type = "pull" /\ r.call = c
BY DEF Request, Ask, Requests, RequestsOf, Clicks, None, NoDest

\* Listing the incomplete backups is asked aside.
LEMMA ListsAside == ASSUME QueueTypes, NEW p, ShowsAndLists(p) PROVE panel' = p /\ AsksAside
<1>1. toMain \o <<>> = toMain BY ConcatEmptySeq DEF QueueTypes
<1>2. Request("list") \in Requests /\ Request("list").type = "list" BY RequestsAre
<1>3. CASE p.phase = "available" /\ p.sel BY <1>2, <1>3 DEF ShowsAndLists, Shows, AsksAside
<1>4. CASE ~(p.phase = "available" /\ p.sel) BY <1>1, <1>4 DEF ShowsAndLists, Shows, AsksAside, Asks
<1> QED BY <1>3, <1>4

\* Calls that are superseded, replaced or over.
LEMMA CallsAre == ASSUME calls \in [Clicks -> Calls]
  PROVE  /\ Superseded \in [Clicks -> Calls]
         /\ \A c \in Clicks : /\ Superseded[c].stage = calls[c].stage
                              /\ Superseded[c].owner = "gone" <=> calls[c].owner = "gone"
                              /\ Superseded[c].owner # "current"
         /\ \A c \in Clicks, d \in Calls : [Superseded EXCEPT ![c] = d] \in [Clicks -> Calls]
         /\ \A c \in Clicks, d \in Calls : [calls EXCEPT ![c] = d] \in [Clicks -> Calls]
         /\ NoCall \in Calls /\ NoCall.stage = "free" /\ NoCall.owner = "gone"
BY DEF Superseded, Calls, NoCall

\* What the examiner does that starts no pull and asks for no copy.
QuietClicks ==
  SelectDevice \/ OpenDialog \/ DialogAnswers \/ TypePassword \/ ConsentRefused \/ ClickCancel \/ ClickDelete
\* What each of these clicks changes.
LEMMA EachQuietClick ==
  ASSUME QueueTypes, panel \in Panels, QuietClicks PROVE Quietly
<1> USE DEF MainWaits, Silent, Shows
<1>1. CASE SelectDevice
  <2>1. panel' = [panel EXCEPT !.sel = TRUE, !.password = FALSE] /\ AsksAside BY <1>1, ListsAside DEF SelectDevice
  <2>2. ChangesOnly(Inert \cup {"sel", "password", "dialog", "consent", "cancelling"}) /\ ~panel'.password
        /\ panel'.consent = panel.consent /\ panel'.cancelling = panel.cancelling /\ panel'.dialog = panel.dialog
    BY <2>1, FieldsAre DEF ChangesOnly, Changes, Fields, Panels
  <2> QED BY <1>1, <2>1, <2>2 DEF Quietly, SelectDevice
<1>2. CASE OpenDialog
  <2>1. panel' = [panel EXCEPT !.dialog = TRUE] BY <1>2 DEF OpenDialog
  <2>2. ChangesOnly(Inert \cup {"sel", "password", "dialog", "consent", "cancelling"})
        /\ panel'.consent = panel.consent /\ panel'.cancelling = panel.cancelling
        /\ panel'.sel = panel.sel /\ panel'.password = panel.password
    BY <2>1, FieldsAre DEF ChangesOnly, Changes, Fields, Panels
  <2> QED BY <1>2, <2>2 DEF Quietly, OpenDialog, AsksAside
<1>3. CASE DialogAnswers
  <2> DEFINE p == Cleared(panel)
  <2>1. p \in Panels /\ Changes(panel, p, {"stats"} \cup Results) /\ NoResults(p)
    BY ClearedIs DEF Changes
  <2> HIDE DEF p
  <2>2. PICK d \in Dests : ShowsAndLists([p EXCEPT !.dialog = FALSE, !.dest = d, !.password = FALSE])
    BY <1>3 DEF DialogAnswers, p
  <2>3. panel' = [p EXCEPT !.dialog = FALSE, !.dest = d, !.password = FALSE] /\ AsksAside BY <2>2, ListsAside
  <2>4. Changes(p, panel', {"dialog", "dest", "password"}) /\ ~panel'.dialog /\ ~panel'.password
    BY <2>1, <2>3, FieldsAre, ZenonT(30) DEF Changes, Fields, Panels
  <2>5. ChangesOnly(Inert \cup Results \cup {"password", "dialog"})
    BY <2>1, <2>4 DEF ChangesOnly, Changes, Inert
  <2>6. NoResults(panel') BY <2>1, <2>4 DEF NoResults, Changes, Fields
  <2>7. panel'.consent = panel.consent /\ panel'.cancelling = panel.cancelling /\ panel'.sel = panel.sel
    BY <2>5 DEF ChangesOnly, Changes, Fields, Inert, Results
  <2> QED BY <1>3, <2>3, <2>4, <2>5, <2>6, <2>7 DEF Quietly, DialogAnswers
<1>4. CASE TypePassword
  <2>1. panel' = [panel EXCEPT !.password = TRUE] BY <1>4 DEF TypePassword
  <2>2. ChangesOnly(Inert \cup {"sel", "password", "dialog", "consent", "cancelling"})
        /\ panel'.consent = panel.consent /\ panel'.cancelling = panel.cancelling
        /\ panel'.sel = panel.sel /\ panel'.dialog = panel.dialog
    BY <2>1, FieldsAre DEF ChangesOnly, Changes, Fields, Panels
  <2> QED BY <1>4, <2>2 DEF Quietly, TypePassword, AsksAside
<1>5. CASE ConsentRefused
  <2>1. panel' = [panel EXCEPT !.consent = FALSE, !.password = FALSE] BY <1>5 DEF ConsentRefused
  <2>2. ChangesOnly(Inert \cup {"sel", "password", "dialog", "consent", "cancelling"})
        /\ ~panel'.consent /\ panel'.cancelling = panel.cancelling
        /\ panel'.sel = panel.sel /\ ~panel'.password /\ panel'.dialog = panel.dialog
    BY <2>1, FieldsAre DEF ChangesOnly, Changes, Fields, Panels
  <2> QED BY <1>5, <2>2 DEF Quietly, ConsentRefused, AsksAside
<1>6. CASE ClickCancel
  <2>1. panel' = [panel EXCEPT !.cancelling = TRUE] BY <1>6 DEF ClickCancel
  <2>2. ChangesOnly(Inert \cup {"sel", "password", "dialog", "consent", "cancelling"})
        /\ panel'.consent = panel.consent
        /\ panel'.sel = panel.sel /\ panel'.password = panel.password /\ panel'.dialog = panel.dialog
    BY <2>1, FieldsAre DEF ChangesOnly, Changes, Fields, Panels
  <2>3. AsksAside BY <1>6, RequestsAre DEF ClickCancel, AsksAside
  <2> QED BY <1>6, <2>2, <2>3 DEF Quietly, ClickCancel
<1>7. CASE ClickDelete
  <2>1. PICK k \in panel.incomplete :
          panel' = [panel EXCEPT !.deleting = TRUE] /\ Asks(<<Ask("delete", 0, k, NoDest, FALSE)>>)
    BY <1>7 DEF ClickDelete
  <2>2. ChangesOnly(Inert \cup {"sel", "password", "dialog", "consent", "cancelling"})
        /\ panel'.consent = panel.consent /\ panel'.cancelling = panel.cancelling
        /\ panel'.sel = panel.sel /\ panel'.password = panel.password /\ panel'.dialog = panel.dialog
    BY <2>1, FieldsAre DEF ChangesOnly, Changes, Fields, Panels, Inert
  <2>3. k \in Pulls BY DEF Panels
  <2>4. AsksAside BY <2>1, <2>3, RequestsAre DEF AsksAside
  <2> QED BY <1>7, <2>2, <2>4 DEF Quietly, ClickDelete
<1> QED BY <1>1, <1>2, <1>3, <1>4, <1>5, <1>6, <1>7 DEF QuietClicks

-------------------------------------------------------------------------------
(* What starts a pull, or asks for a copy. *)

CallBegins(c, stage) ==
  /\ calls[c].stage = "free" /\ calls' \in [Clicks -> Calls] /\ calls'[c].stage = stage
  /\ \A b \in Clicks \ {c} : calls'[b].stage = calls[b].stage /\ (calls'[b].owner = "gone" <=> calls[b].owner = "gone")
Sends(types, c) == \E r \in Requests : r.type \in types /\ r.call = c /\ Asks(<<r>>)

PullAsked(c) ==
  /\ UNCHANGED <<mainVars, toPanel>> /\ CallBegins(c, "encryption") /\ Sends({"encryption"}, c)
  /\ panel.phase = "available" /\ panel.sel
  /\ ChangesOnly(Inert \cup Results) /\ NoResults(panel')
PullStarted(c) ==
  /\ UNCHANGED <<mainVars, toPanel>> /\ CallBegins(c, "pull") /\ Sends({"pull"}, c)
  /\ panel.consent /\ panel.password /\ panel.sel
  /\ ChangesOnly(Inert \cup Results \cup {"phase", "consent", "password"}) /\ NoResults(panel')
  /\ panel'.phase = "pulling" /\ ~panel'.password /\ ~panel'.consent
CopyAsked ==
  /\ UNCHANGED <<mainVars, toPanel, calls>> /\ ~Somewhere(<<"copy", 0>>)
  /\ panel.phase = "pulled" /\ panel.logs = "failed" /\ ~panel.copying
  /\ ChangesOnly({"copying"}) /\ panel'.copying
  /\ \E r \in Requests : r.type = "copy" /\ r.folder = panel.logsOf /\ Asks(<<r>>)

\* The two clicks that begin a call.
LEMMA EachClick ==
  ASSUME QueueTypes, panel \in Panels, calls \in [Clicks -> Calls], NEW c \in Clicks
  PROVE  (ClickPull(c) => PullAsked(c)) /\ (TurnOnClicked(c) => PullStarted(c))
<1> USE DEF MainWaits, Shows
<1> DEFINE p == Cleared(panel)
<1>0. p \in Panels /\ Changes(panel, p, {"stats"} \cup Results) /\ NoResults(p)
  BY ClearedIs DEF Changes
<1> HIDE DEF p
<1>1. ASSUME NEW d \in Calls, calls[c].stage = "free", calls' = [Superseded EXCEPT ![c] = d]
      PROVE  CallBegins(c, d.stage)
  <2>1. calls' \in [Clicks -> Calls] /\ \A b \in Clicks : calls'[b] = IF b = c THEN d ELSE Superseded[b]
    BY <1>1, CallsAre
  <2> QED BY <1>1, <2>1, CallsAre DEF CallBegins
<1>2. ASSUME ClickPull(c) PROVE PullAsked(c)
  <2>1. panel' = [p EXCEPT !.incomplete = {}] /\ calls[c].stage = "free" /\ panel.phase = "available" /\ panel.sel
    BY <1>2 DEF ClickPull, p, Bound, PullHere
  <2>2. Changes(p, panel', {"incomplete"}) BY <1>0, <2>1, FieldsAre DEF Changes, Fields, Panels
  <2>3. ChangesOnly(Inert \cup Results) BY <1>0, <2>2 DEF ChangesOnly, Changes, Inert
  <2>4. NoResults(panel') BY <1>0, <2>2 DEF NoResults, Changes, Fields
  <2> DEFINE d == [stage |-> "encryption", dest |-> panel.dest, owner |-> "current"]
  <2>5. d \in Calls /\ d.stage = "encryption" BY DEF Calls, Panels
  <2>6. calls' = [Superseded EXCEPT ![c] = d] BY <1>2 DEF ClickPull
  <2> HIDE DEF d
  <2>7. CallBegins(c, "encryption") BY <1>1, <2>1, <2>5, <2>6
  <2>8. Sends({"encryption"}, c)
    <3>1. Asks(<<Ask("encryption", c, None, NoDest, FALSE)>>) BY <1>2 DEF ClickPull
    <3> QED BY <3>1, RequestsAre DEF Sends
  <2> QED BY <1>2, <2>1, <2>3, <2>4, <2>7, <2>8 DEF PullAsked, ClickPull
<1>3. ASSUME TurnOnClicked(c) PROVE PullStarted(c)
  <2> DEFINE q == [p EXCEPT !.incomplete = {}, !.consent = FALSE, !.phase = "pulling"]
  <2>1. panel' = Started(q) /\ calls[c].stage = "free" /\ panel.consent /\ panel.sel /\ panel.password
    BY <1>3 DEF TurnOnClicked, p, Bound, PullHere
  <2>2. q \in Panels /\ Changes(p, q, {"incomplete", "consent", "phase"}) /\ ~q.consent /\ q.phase = "pulling"
    <3>0. q \in Panels BY <1>0, ZenonT(30) DEF Panels
    <3>1. ~q.consent /\ q.phase = "pulling" BY <1>0, FieldsAre DEF Fields
    <3>2. \A f \in Fields \ {"incomplete", "consent", "phase"} : q[f] = p[f] BY <1>0, FieldsAre DEF Fields
    <3> QED BY <3>0, <3>1, <3>2 DEF Changes
  <2> HIDE DEF q
  <2>3. Changes(q, panel', {"password"}) /\ ~panel'.password BY <2>1, <2>2, StartedIs
  <2>4. ChangesOnly(Inert \cup Results \cup {"phase", "consent", "password"})
    BY <1>0, <2>2, <2>3 DEF ChangesOnly, Changes, Inert
  <2>5. NoResults(panel') BY <1>0, <2>2, <2>3 DEF NoResults, Changes, Fields
  <2>6. ~panel'.consent /\ panel'.phase = "pulling" BY <2>2, <2>3 DEF Changes, Fields
  <2> DEFINE d == [stage |-> "pull", dest |-> panel.dest, owner |-> "current"]
  <2>7. d \in Calls /\ d.stage = "pull" BY DEF Calls, Panels
  <2>8. calls' = [Superseded EXCEPT ![c] = d] BY <1>3 DEF TurnOnClicked
  <2> HIDE DEF d
  <2>9. CallBegins(c, "pull") BY <1>1, <2>1, <2>7, <2>8
  <2>10. Sends({"pull"}, c)
    <3>1. Asks(<<Ask("pull", c, None, panel.dest, TRUE)>>) /\ panel.dest \in Dests \cup {NoDest}
      BY <1>3 DEF TurnOnClicked, Panels
    <3> QED BY <3>1, RequestsAre, Zenon DEF Sends
  <2> QED BY <1>3, <2>1, <2>3, <2>4, <2>5, <2>6, <2>9, <2>10 DEF PullStarted, TurnOnClicked
<1> QED BY <1>2, <1>3

\* No copy is asked for while another is under way, on its way or unanswered.
LEMMA CopyClick ==
  ASSUME QueueTypes, panel \in Panels, panel.logs # "none" => panel.logsOf # None, ClickCopyAgain PROVE CopyAsked
<1>1. panel' = [panel EXCEPT !.copying = TRUE] BY DEF ClickCopyAgain, Shows
<1>2. ChangesOnly({"copying"}) /\ panel'.copying BY <1>1, FieldsAre DEF ChangesOnly, Changes, Fields, Panels
<1>3. panel.logsOf \in Pulls BY DEF Panels, ClickCopyAgain
<1>4. \E r \in Requests : r.type = "copy" /\ r.folder = panel.logsOf /\ Asks(<<r>>)
  BY <1>3, RequestsAre DEF ClickCopyAgain
<1>5. ~Somewhere(<<"copy", 0>>)
  <2>1. ~Unanswered("copy") /\ copy.pc = "off" BY DEF ClickCopyAgain
  <2>2. ASSUME NEW m \in Requests \cup Messages, Token(m) = <<"copy", 0>> PROVE m.type = "copy"
    BY <2>2 DEF Token, Nothing
  <2>3. DOMAIN toMain = 1 .. Len(toMain) /\ DOMAIN toPanel = 1 .. Len(toPanel)
        /\ (\A i \in DOMAIN toMain : toMain[i] \in Requests) /\ \A i \in DOMAIN toPanel : toPanel[i] \in Messages
    BY DEF QueueTypes
  <2> QED BY <2>1, <2>2, <2>3 DEF Somewhere, Holds, Carries, Unanswered
<1> QED BY <1>2, <1>4, <1>5 DEF CopyAsked, ClickCopyAgain, MainWaits

-------------------------------------------------------------------------------
(* What the panel hears. *)

Incoming == Head(toPanel)
CallEnds(c) == calls' \in [Clicks -> Calls] /\ calls' = [calls EXCEPT ![c] = NoCall]
Mounts == panel.phase # "unmounted"

HeardStats(m) == m \in Figures /\ calls' = calls /\ ChangesOnly({"stats"})
HeardDone(m) ==
  /\ m \in Dones /\ calls' = calls
  /\ \/ ~Mounts /\ panel' = panel
     \/ /\ Mounts /\ ChangesOnly(Results \cup {"phase", "cancelling"})
        /\ panel'.phase = "pulled" /\ ~panel'.cancelling
        /\ panel'.done = m.folder /\ panel'.logsOf = m.folder /\ (panel'.logs = "copied" <=> m.logs)
HeardError(m) ==
  /\ m \in Errors /\ calls' = calls
  /\ \/ ~Mounts /\ panel' = panel
     \/ Mounts /\ ChangesOnly({"phase", "cancelling"}) /\ panel'.phase = "available" /\ ~panel'.cancelling
HeardState(m) ==
  /\ m.type = "state" /\ calls' = calls
  /\ ChangesOnly(Inert \cup {"phase", "devices", "sel"}) /\ panel'.devices /\ panel'.phase \in {"available", "pulling"}
  /\ panel'.phase = "pulling" => m.value.folder # None /\ ~m.value.ended
\* The device makes encrypted backups: the call goes on to the pull.
HeardYes(m) ==
  /\ m.type = "encryption" /\ m.call \in Clicks /\ m.ok /\ m.value /\ Sends({"pull"}, m.call)
  /\ calls' \in [Clicks -> Calls] /\ calls'[m.call].stage # "free"
  /\ \A c \in Clicks : calls'[c].owner = calls[c].owner /\ (c # m.call => calls'[c].stage = calls[c].stage)
  /\ \/ ~Mine(m.call) /\ panel' = panel
     \/ /\ Mine(m.call) /\ ChangesOnly({"password", "consent", "phase"})
        /\ panel'.phase = "pulling" /\ ~panel'.password /\ ~panel'.consent
HeardNo(m) ==
  /\ m.type = "encryption" /\ m.call \in Clicks /\ m.ok /\ ~m.value /\ CallEnds(m.call)
  /\ (~Mine(m.call) /\ panel' = panel) \/ (Mine(m.call) /\ ChangesOnly({"consent"}))
HeardUnknown(m) ==
  /\ m.type = "encryption" /\ m.call \in Clicks /\ ~m.ok /\ CallEnds(m.call)
  /\ (~Mine(m.call) /\ panel' = panel) \/ (Mine(m.call) /\ ChangesOnly({"password"}) /\ ~panel'.password)
HeardPull(m) ==
  /\ m.type = "pull" /\ m.call \in Clicks /\ CallEnds(m.call)
  /\ \/ ~Mine(m.call) /\ panel' = panel
     \/ /\ Mine(m.call) /\ ChangesOnly(Inert \cup {"password", "cancelling", "phase"})
        /\ ~panel'.password /\ (panel'.cancelling => panel.cancelling)
        /\ panel'.phase = panel.phase \/ panel'.phase = "available"
HeardCopy(m) ==
  /\ m \in CopyAnswers /\ calls' = calls
  /\ \/ ~panel.copying /\ panel' = panel
     \/ /\ panel.copying /\ ChangesOnly({"logs", "logsOf", "copying"})
        /\ panel'.logs = m.value /\ panel'.logsOf = m.folder /\ ~panel'.copying
HeardAside(m) ==
  /\ m.type \in {"cancel", "delete", "list"} /\ calls' \in {calls, Superseded}
  /\ ChangesOnly(Inert) \/ (ChangesOnly(Inert \cup Results) /\ NoResults(panel'))
HeardOf(m) ==
  \/ HeardStats(m) \/ HeardDone(m) \/ HeardError(m) \/ HeardState(m) \/ HeardNo(m) \/ HeardUnknown(m)
  \/ HeardPull(m) \/ HeardCopy(m) \/ HeardAside(m)
HearStep ==
  /\ toPanel # <<>> /\ toPanel' = Tail(toPanel) /\ UNCHANGED mainVars /\ Incoming \in Messages
  /\ HeardYes(Incoming) \/ (AsksAside /\ HeardOf(Incoming))

\* What the messages are made of.
LEMMA MessageKinds ==
  ASSUME NEW m \in Messages
  PROVE  /\ m.type \in {"event", "copy", "pull", "encryption", "cancel", "state", "list", "delete"}
         /\ m.type = "event" => m \in Figures \/ m \in Errors \/ m \in Dones
         /\ m \in Figures => m.what = "stats" /\ m.type = "event"
         /\ m \in Errors => m.what = "error" /\ m.type = "event"
         /\ m \in Dones => m.what = "done" /\ m.folder \in Pulls /\ m.logs \in BOOLEAN /\ m.type = "event"
         /\ m.type = "copy" => m \in CopyAnswers /\ m.value \in {"copied", "failed"} /\ m.folder \in Pulls
         /\ m.type \in {"pull", "encryption"} => m.call \in Clicks
         /\ m.type \in {"pull", "encryption", "state", "list", "delete"} => m.ok \in BOOLEAN
         /\ m.type = "pull" => m.value \in Pulls \cup {None}
         /\ m.type = "state" => m.value \in Trackers
         /\ m.type = "list" => m.value \in SUBSET Pulls
BY DEF Messages, Figures, Errors, Dones, CopyAnswers, Answers

\* A panel that stays changes no field.
LEMMA SameIsNoChange == ASSUME panel \in Panels, panel' = panel, NEW fs PROVE ChangesOnly(fs)
BY DEF ChangesOnly, Changes

\* What an event changes of the panel.
LEMMA EventHeard ==
  ASSUME QueueTypes, panel \in Panels, NEW m \in Messages, m.type = "event", HearEvent(m) PROVE AsksAside /\ HeardOf(m)
<1>1. calls' = calls BY DEF HearEvent
<1>2. CASE panel.phase = "unmounted"
  <2>1. panel' = panel /\ AsksAside BY <1>2 DEF HearEvent, Silent, AsksAside
  <2>2. m \in Figures \/ m \in Errors \/ m \in Dones BY MessageKinds
  <2> QED BY <1>1, <1>2, <2>1, <2>2, SameIsNoChange DEF HeardOf, HeardStats, HeardDone, HeardError, Mounts
<1>3. CASE panel.phase # "unmounted"
  <2>1. panel' = Heard(panel, m) /\ AsksAside
    <3>1. CASE panel.phase = "available" BY <1>3, <3>1 DEF HearEvent, Silent, AsksAside, Shows
    <3>2. CASE panel.phase # "available" BY <1>3, <3>2, ListsAside DEF HearEvent
    <3> QED BY <3>1, <3>2
  <2>2. CASE m \in Figures
    <3>1. panel' = [panel EXCEPT !.stats = TRUE] BY <2>1, <2>2, MessageKinds DEF Heard
    <3>2. ChangesOnly({"stats"}) BY <3>1, FieldsAre DEF ChangesOnly, Changes, Fields, Panels
    <3> QED BY <1>1, <2>1, <2>2, <3>2 DEF HeardOf, HeardStats
  <2>3. CASE m \in Errors
    <3>1. panel' = [panel EXCEPT !.phase = "available", !.cancelling = FALSE]
      BY <2>1, <2>3, MessageKinds DEF Heard
    <3>2. ChangesOnly({"phase", "cancelling"}) /\ panel'.phase = "available" /\ ~panel'.cancelling
      BY <3>1, FieldsAre DEF ChangesOnly, Changes, Fields, Panels
    <3> QED BY <1>1, <1>3, <2>1, <2>3, <3>2 DEF HeardOf, HeardError, Mounts
  <2>4. CASE m \in Dones
    <3>1. m.what = "done" /\ m.folder \in Pulls BY <2>4, MessageKinds
    <3>2. PICK logs \in {"copied", "failed"} : (logs = "copied" <=> m.logs) /\ logs = IF m.logs THEN "copied" ELSE "failed"
      OBVIOUS
    <3>3. panel' = [panel EXCEPT !.phase = "pulled", !.cancelling = FALSE, !.done = m.folder, !.logsOf = m.folder,
                                 !.logs = logs]
      BY <2>1, <3>1, <3>2 DEF Heard
    <3>4. panel' \in Panels BY <3>1, <3>3 DEF Panels
    <3>5. \A f \in Fields \ (Results \cup {"phase", "cancelling"}) : panel'[f] = panel[f]
      BY <3>3, FieldsAre DEF Fields, Results
    <3>6. panel'.phase = "pulled" /\ ~panel'.cancelling /\ panel'.done = m.folder /\ panel'.logsOf = m.folder /\ panel'.logs = logs
      BY <3>3, FieldsAre DEF Fields
    <3>7. ChangesOnly(Results \cup {"phase", "cancelling"}) BY <3>4, <3>5 DEF ChangesOnly, Changes
    <3> QED BY <1>1, <1>3, <2>1, <2>4, <3>2, <3>6, <3>7 DEF HeardOf, HeardDone, Mounts
  <2> QED BY <2>2, <2>3, <2>4, MessageKinds
<1> QED BY <1>2, <1>3

\* What the answer to a panel that mounts changes of it.
LEMMA StateHeard ==
  ASSUME QueueTypes, MainTypes, panel \in Panels, NEW m \in Messages, m.type = "state",
         ShowsAndLists(Restored(panel, m.value)), calls' = calls
  PROVE  AsksAside /\ HeardOf(m)
<1> DEFINE t == m.value
<1>1. panel' = Restored(panel, t) /\ AsksAside BY ListsAside
<1>2. t \in Trackers BY MessageKinds
<1> HIDE DEF t
<1>3. t.folder \in Pulls \cup {None} /\ t.stats \in BOOLEAN /\ t.ended \in BOOLEAN BY <1>2 DEF Trackers
<1> DEFINE Goal == /\ ChangesOnly(Inert \cup {"phase", "devices", "sel"}) /\ panel'.devices
                   /\ panel'.phase \in {"available", "pulling"}
                   /\ panel'.phase = "pulling" => t.folder # None /\ ~t.ended
<1>4. ASSUME t.folder = None PROVE Goal
  <2>1. panel' = [panel EXCEPT !.phase = "available", !.devices = TRUE] BY <1>1, <1>4 DEF Restored
  <2>2. ChangesOnly(Inert \cup {"phase", "devices", "sel"}) /\ panel'.devices /\ panel'.phase = "available"
    BY <2>1, FieldsAre DEF ChangesOnly, Changes, Fields, Panels
  <2> QED BY <2>2
<1>5. ASSUME t.folder # None PROVE Goal
  <2>1. PICK ph \in {"available", "pulling"} : ph = (IF t.ended THEN "available" ELSE "pulling") OBVIOUS
  <2>2. PICK d \in Dests \cup {NoDest} : d = disk[t.folder].dest BY <1>3, <1>5 DEF MainTypes, PullFolders
  <2>3. panel' = [panel EXCEPT !.devices = TRUE, !.sel = TRUE, !.dest = d, !.stats = t.stats,
                 !.phase = ph]
    BY <1>1, <1>5, <2>1, <2>2 DEF Restored
  <2>4. panel' \in Panels BY <1>3, <2>3 DEF Panels
  <2>5. panel'.devices /\ panel'.phase = ph BY <2>3, FieldsAre DEF Fields
  <2>6. \A f \in Fields \ (Inert \cup {"phase", "devices", "sel"}) : panel'[f] = panel[f]
    BY <2>3, FieldsAre DEF Fields, Inert
  <2> QED BY <1>5, <2>1, <2>4, <2>5, <2>6 DEF ChangesOnly, Changes
<1> QED BY <1>1, <1>4, <1>5 DEF HeardOf, HeardState, t

\* What the device's setting changes of the panel and its call.
LEMMA EncryptionHeard ==
  ASSUME QueueTypes, panel \in Panels, calls \in [Clicks -> Calls], NEW m \in Messages, m.type = "encryption",
         HearEncryption(m)
  PROVE  HeardYes(m) \/ (AsksAside /\ HeardOf(m))
<1> DEFINE c == m.call
<1>0. c \in Clicks /\ m.ok \in BOOLEAN BY MessageKinds
<1> HIDE DEF c
<1>1. CASE m.ok /\ m.value
  <2>1. calls' = [calls EXCEPT ![c].stage = "pull"] /\ Asks(<<Ask("pull", c, None, calls[c].dest, FALSE)>>)
    BY <1>1 DEF HearEncryption, c
  <2>2. Sends({"pull"}, c)
    <3>1. PICK d \in Dests \cup {NoDest} : d = calls[c].dest BY <1>0 DEF Calls
    <3>2. Asks(<<Ask("pull", c, None, d, FALSE)>>) BY <2>1, <3>1
    <3> DEFINE r == Ask("pull", c, None, d, FALSE)
    <3>3. r \in Requests /\ r.type = "pull" /\ r.call = c BY <1>0, RequestsAre
    <3> QED BY <3>2, <3>3 DEF Sends
  <2>3. [calls[c] EXCEPT !.stage = "pull"] \in Calls /\ [calls[c] EXCEPT !.stage = "pull"].stage = "pull"
        /\ [calls[c] EXCEPT !.stage = "pull"].owner = calls[c].owner
    BY <1>0 DEF Calls
  <2>4. /\ calls' \in [Clicks -> Calls] /\ calls'[c].stage # "free"
        /\ \A b \in Clicks : calls'[b].owner = calls[b].owner /\ (b # c => calls'[b].stage = calls[b].stage)
    BY <1>0, <2>1, <2>3
  <2>5. CASE ~Mine(c)
    <3>1. panel' = panel BY <1>1, <2>5 DEF HearEncryption, Shows, c
    <3> QED BY <1>0, <1>1, <2>2, <2>4, <2>5, <3>1 DEF HeardYes, c
  <2>6. CASE Mine(c)
    <3> DEFINE p == [panel EXCEPT !.consent = FALSE, !.phase = "pulling"]
    <3>1. panel' = Started(p) BY <1>1, <2>6 DEF HearEncryption, Shows, c
    <3>2. Changes(panel, p, {"consent", "phase"}) /\ ~p.consent /\ p.phase = "pulling" /\ p \in Panels
      BY FieldsAre, ZenonT(30) DEF Changes, Fields, Panels
    <3> HIDE DEF p
    <3>3. Changes(p, panel', {"password"}) /\ ~panel'.password BY <3>1, <3>2, StartedIs
    <3>4. ChangesOnly({"password", "consent", "phase"}) BY <3>2, <3>3 DEF ChangesOnly, Changes
    <3>5. ~panel'.consent /\ panel'.phase = "pulling" BY <3>2, <3>3 DEF Changes, Fields
    <3> QED BY <1>0, <1>1, <2>2, <2>4, <2>6, <3>3, <3>4, <3>5 DEF HeardYes, c
  <2> QED BY <2>5, <2>6
<1>2. CASE ~(m.ok /\ m.value)
  <2>1. calls' = [calls EXCEPT ![c] = NoCall] /\ AsksAside
    BY <1>2 DEF HearEncryption, Settles, Silent, AsksAside, c
  <2>2. CallEnds(c) BY <1>0, <2>1, CallsAre DEF CallEnds
  <2>3. CASE ~Mine(c)
    <3>1. panel' = panel BY <1>2, <2>3 DEF HearEncryption, Shows, c
    <3> QED BY <1>0, <1>2, <2>1, <2>2, <2>3, <3>1 DEF HeardOf, HeardNo, HeardUnknown, c
  <2>4. CASE Mine(c) /\ m.ok
    <3>1. panel' = [panel EXCEPT !.consent = TRUE] BY <1>2, <2>4 DEF HearEncryption, Shows, c
    <3>2. ChangesOnly({"consent"}) BY <3>1, FieldsAre DEF ChangesOnly, Changes, Fields, Panels
    <3> QED BY <1>0, <1>2, <2>1, <2>2, <2>4, <3>2 DEF HeardOf, HeardNo, c
  <2>5. CASE Mine(c) /\ ~m.ok
    <3>1. panel' = [panel EXCEPT !.password = FALSE] BY <1>2, <2>5 DEF HearEncryption, Shows, c
    <3>2. ChangesOnly({"password"}) /\ ~panel'.password
      BY <3>1, FieldsAre DEF ChangesOnly, Changes, Fields, Panels
    <3> QED BY <1>0, <2>1, <2>2, <2>5, <3>2 DEF HeardOf, HeardUnknown, c
  <2> QED BY <1>0, <2>3, <2>4, <2>5
<1> QED BY <1>1, <1>2

\* What a pull's answer changes of the panel and its call.
LEMMA PullHeard ==
  ASSUME QueueTypes, panel \in Panels, calls \in [Clicks -> Calls], NEW m \in Messages, m.type = "pull", HearPull(m)
  PROVE  AsksAside /\ HeardOf(m)
<1> DEFINE c == m.call
           over == [panel EXCEPT !.password = FALSE, !.cancelling = IF Owns(c) THEN FALSE ELSE @]
           next == CASE ~Mine(c) -> panel
                     [] Mine(c) /\ ~Owns(c) -> over
                     [] Owns(c) /\ m.ok -> over
                     [] OTHER -> [over EXCEPT !.phase = "available"]
<1>1. panel' = next /\ AsksAside /\ Settles(c)
  <2>1. CASE panel.phase # "available"
    <3>1. ShowsAndLists(next) /\ Settles(c) BY <2>1 DEF HearPull
    <3> QED BY <3>1, ListsAside
  <2>2. CASE panel.phase = "available"
    <3>1. Shows(next) /\ Silent /\ Settles(c) BY <2>2 DEF HearPull
    <3> QED BY <3>1 DEF Shows, Silent, AsksAside
  <2> QED BY <2>1, <2>2
<1>2. c \in Clicks /\ m.ok \in BOOLEAN /\ m.value \in Pulls \cup {None} BY MessageKinds
<1>3. CallEnds(c) BY <1>1, <1>2, CallsAre DEF CallEnds, Settles
<1>4. over \in Panels /\ Changes(panel, over, {"password", "cancelling"}) /\ ~over.password
      /\ (over.cancelling => panel.cancelling)
  <2>1. PICK b \in BOOLEAN : b = (IF Owns(c) THEN FALSE ELSE panel.cancelling) BY DEF Panels
  <2>2. over = [panel EXCEPT !.password = FALSE, !.cancelling = b] BY <2>1
  <2>3. b => panel.cancelling BY <2>1
  <2> HIDE DEF over
  <2> QED BY <2>2, <2>3, FieldsAre DEF Changes, Fields, Panels
<1>5. CASE ~Mine(c)
  <2>1. next = panel
    <3> HIDE DEF over, c
    <3> QED BY <1>5 DEF Mine, Owns
  <2>2. panel' = panel BY <1>1, <2>1
  <2> QED BY <1>1, <1>2, <1>3, <1>5, <2>2 DEF HeardOf, HeardPull
<1>6. CASE Mine(c)
  <2>1. panel' \in {over, [over EXCEPT !.phase = "available"]}
    BY <1>1, <1>6
  <2> HIDE DEF over, next
  <2>2. Changes(over, panel', {"phase"}) /\ (panel'.phase = over.phase \/ panel'.phase = "available")
    <3>1. CASE panel' = over BY <1>4, <3>1 DEF Changes
    <3>2. CASE panel' = [over EXCEPT !.phase = "available"]
      BY <1>2, <1>4, <3>2, FieldsAre DEF Changes, Fields, Panels
    <3> QED BY <2>1, <3>1, <3>2
  <2>3. ChangesOnly(Inert \cup {"password", "cancelling", "phase"}) BY <1>4, <2>2 DEF ChangesOnly, Changes, Inert
  <2>4. ~panel'.password /\ (panel'.cancelling => panel.cancelling)
        /\ (panel'.phase = panel.phase \/ panel'.phase = "available")
    BY <1>4, <2>2 DEF Changes, Fields
  <2> QED BY <1>1, <1>2, <1>3, <1>6, <2>3, <2>4 DEF HeardOf, HeardPull
<1> QED BY <1>5, <1>6

\* What a deletion's answer changes of the panel.
LEMMA DeleteHeard ==
  ASSUME QueueTypes, panel \in Panels, NEW m \in Messages, m.type = "delete", HearDelete(m) PROVE AsksAside /\ HeardOf(m)
<1>1. CASE ~panel.deleting
  <2>1. panel' = panel /\ calls' = calls /\ AsksAside BY <1>1 DEF HearDelete, panelVars, Silent, AsksAside
  <2> QED BY <2>1, SameIsNoChange DEF HeardOf, HeardAside
<1>2. CASE panel.deleting
  <2>1. /\ panel' = [(IF m.ok THEN Cleared(panel) ELSE panel) EXCEPT !.deleting = FALSE]
        /\ calls' \in {calls, Superseded} /\ Asks(<<Request("list")>>)
    BY <1>2 DEF HearDelete, Shows
  <2>2. AsksAside BY <2>1, RequestsAre DEF AsksAside
  <2>3. CASE m.ok
    <3> DEFINE p == Cleared(panel)
    <3>1. p \in Panels /\ Changes(panel, p, {"stats"} \cup Results) /\ NoResults(p)
      BY ClearedIs DEF Changes
    <3>2. panel' = [p EXCEPT !.deleting = FALSE] BY <2>1, <2>3
    <3> HIDE DEF p
    <3>3. Changes(p, panel', {"deleting"}) BY <3>1, <3>2, FieldsAre DEF Changes, Fields, Panels
    <3>4. ChangesOnly(Inert \cup Results) BY <3>1, <3>3 DEF ChangesOnly, Changes, Inert
    <3>5. NoResults(panel') BY <3>1, <3>3 DEF NoResults, Changes, Fields
    <3> QED BY <2>1, <2>2, <3>4, <3>5 DEF HeardOf, HeardAside
  <2>4. CASE ~m.ok
    <3>1. panel' = [panel EXCEPT !.deleting = FALSE] BY <2>1, <2>4
    <3>2. ChangesOnly(Inert) BY <3>1, FieldsAre DEF ChangesOnly, Changes, Fields, Panels, Inert
    <3> QED BY <2>1, <2>2, <3>2 DEF HeardOf, HeardAside
  <2> QED BY <2>3, <2>4
<1> QED BY <1>1, <1>2

\* Whatever the panel hears is one of these.
LEMMA EachHearStep ==
  ASSUME QueueTypes, MainTypes, panel \in Panels, calls \in [Clicks -> Calls], Hear PROVE HearStep
<1> DEFINE m == Incoming
<1>1. toPanel # <<>> /\ toPanel' = Tail(toPanel) /\ UNCHANGED mainVars BY DEF Hear
<1>2. m \in Messages BY <1>1, ToSetIs DEF QueueTypes, Incoming
<1>3. m = Head(toPanel) BY DEF Incoming
<1> HIDE DEF m
<1>4. HeardYes(m) \/ (AsksAside /\ HeardOf(m))
  <2>1. CASE m.type = "event" BY <1>2, <1>3, <2>1, EventHeard DEF Hear
  <2>2. CASE m.type = "state" BY <1>2, <1>3, <2>2, StateHeard DEF Hear
  <2>3. CASE m.type = "encryption" BY <1>2, <1>3, <2>3, EncryptionHeard DEF Hear
  <2>4. CASE m.type = "pull" BY <1>2, <1>3, <2>4, PullHeard DEF Hear
  <2>5. CASE m.type = "delete" BY <1>2, <1>3, <2>5, DeleteHeard DEF Hear
  <2>6. CASE m.type = "cancel"
    <3>1. panel' = panel /\ calls' = calls /\ AsksAside BY <1>3, <2>6 DEF Hear, panelVars, Silent, AsksAside
    <3> QED BY <2>6, <3>1, SameIsNoChange DEF HeardOf, HeardAside
  <2>7. CASE m.type = "list"
    <3>1. panel' = [panel EXCEPT !.incomplete = m.value] /\ calls' = calls /\ AsksAside
      BY <1>3, <2>7 DEF Hear, HearList, Shows, Silent, AsksAside
    <3>2. m.value \in SUBSET Pulls BY <1>2, <2>7, MessageKinds
    <3>3. ChangesOnly(Inert) BY <3>1, <3>2, FieldsAre DEF ChangesOnly, Changes, Fields, Panels, Inert
    <3> QED BY <2>7, <3>1, <3>3 DEF HeardOf, HeardAside
  <2>8. CASE m.type = "copy"
    <3>1. calls' = calls /\ AsksAside
          /\ panel' = IF ~panel.copying THEN panel ELSE [panel EXCEPT !.logs = m.value, !.logsOf = m.folder, !.copying = FALSE]
      BY <1>3, <2>8 DEF Hear, HearCopy, Shows, Silent, AsksAside
    <3>2. m \in CopyAnswers /\ m.value \in {"copied", "failed"} /\ m.folder \in Pulls BY <1>2, <2>8, MessageKinds
    <3>3. CASE ~panel.copying BY <3>1, <3>2, <3>3 DEF HeardOf, HeardCopy
    <3>4. CASE panel.copying
      <4>1. panel' = [panel EXCEPT !.logs = m.value, !.logsOf = m.folder, !.copying = FALSE] BY <3>1, <3>4
      <4>2. ChangesOnly({"logs", "logsOf", "copying"}) /\ panel'.logs = m.value /\ panel'.logsOf = m.folder /\ ~panel'.copying
        BY <3>2, <4>1, FieldsAre DEF ChangesOnly, Changes, Fields, Panels
      <4> QED BY <3>1, <3>2, <3>4, <4>2 DEF HeardOf, HeardCopy
    <3> QED BY <3>3, <3>4
  <2> QED BY <1>2, <2>1, <2>2, <2>3, <2>4, <2>5, <2>6, <2>7, <2>8, MessageKinds
<1> QED BY <1>1, <1>2, <1>4 DEF HearStep, m

-------------------------------------------------------------------------------
(* What is asked and answered once, as the panel asks and hears.                *)

MainStays == UNCHANGED mainVars

\* The panel's steps leave what the main process has in hand.
LEMMA HoldsStay == ASSUME MainStays, NEW x PROVE Holds(x)' <=> Holds(x)
BY DEF MainStays, mainVars, Holds

\* One request more.
LEMMA AskTokens ==
  ASSUME QueueTypes, MainStays, NEW r \in Requests, NEW x, TokenOnce(x), Asks(<<r>>), toPanel' = toPanel,
         Token(r) = x => ~Somewhere(x)
  PROVE  TokenOnce(x)' /\ (Somewhere(x)' <=> Somewhere(x) \/ Token(r) = x)
<1>1. /\ Carries(toMain', x) <=> Carries(toMain, x) \/ Token(r) = x
      /\ CarriesOnce(toMain, x) /\ ~(Carries(toMain, x) /\ Token(r) = x) => CarriesOnce(toMain', x)
  BY CarriesMore DEF QueueTypes, Asks
<1> QED BY <1>1, HoldsStay DEF TokenOnce, Somewhere

\* What is asked aside stands for nothing that is asked once.
LEMMA AsideToken == ASSUME NEW r \in Requests, r.type \in {"list", "cancel", "delete"} PROVE Token(r) = Nothing
BY DEF Token

\* What is asked aside is a request.
LEMMA AsideRequests == ASSUME QueueTypes, AsksAside PROVE toMain' \in Seq(Requests)
<1>1. ASSUME NEW r \in Requests, toMain' = toMain \o <<r>> PROVE toMain' \in Seq(Requests)
  BY <1>1 DEF QueueTypes
<1> QED BY <1>1 DEF AsksAside, Asks, QueueTypes

\* A queue that gains nothing that is asked once.
LEMMA AsideQueue ==
  ASSUME QueueTypes, AsksAside, NEW x, x # Nothing
  PROVE  /\ toMain' \in Seq(Requests)
         /\ Carries(toMain', x) <=> Carries(toMain, x)
         /\ CarriesOnce(toMain, x) => CarriesOnce(toMain', x)
<1>1. CASE toMain' = toMain BY <1>1 DEF QueueTypes
<1>2. ASSUME NEW r \in Requests, r.type \in {"list", "cancel", "delete"}, Asks(<<r>>)
      PROVE  /\ toMain' \in Seq(Requests)
             /\ Carries(toMain', x) <=> Carries(toMain, x)
             /\ CarriesOnce(toMain, x) => CarriesOnce(toMain', x)
  <2>1. Token(r) # x BY <1>2, AsideToken
  <2>2. /\ Carries(toMain', x) <=> Carries(toMain, x) \/ Token(r) = x
        /\ CarriesOnce(toMain, x) /\ ~(Carries(toMain, x) /\ Token(r) = x) => CarriesOnce(toMain', x)
    BY <1>2, CarriesMore DEF QueueTypes, Asks
  <2>3. toMain' \in Seq(Requests) BY AsideRequests
  <2> QED BY <2>1, <2>2, <2>3
<1> QED BY <1>1, <1>2 DEF AsksAside

\* Nor does asking it change where the others are.
LEMMA AsideTokens ==
  ASSUME QueueTypes, MainStays, AsksAside, toPanel' = toPanel, NEW x, x # Nothing, TokenOnce(x)
  PROVE  TokenOnce(x)' /\ (Somewhere(x)' <=> Somewhere(x))
<1>1. /\ Carries(toMain', x) <=> Carries(toMain, x)
      /\ CarriesOnce(toMain, x) => CarriesOnce(toMain', x)
  BY AsideQueue
<1> QED BY <1>1, HoldsStay DEF TokenOnce, Somewhere

\* What is heard is gone, unless the same call goes on.
LEMMA HearTokens ==
  ASSUME QueueTypes, MainStays, toPanel # <<>>, toPanel' = Tail(toPanel), NEW x, x # Nothing, TokenOnce(x)
  PROVE  /\ AsksAside => TokenOnce(x)' /\ (Somewhere(x)' <=> Somewhere(x) /\ Token(Incoming) # x)
         /\ \A r \in Requests : Asks(<<r>>) /\ Token(r) = Token(Incoming) =>
              TokenOnce(x)' /\ (Somewhere(x)' <=> Somewhere(x))
<1>1. /\ Carries(toPanel, x) <=> Token(Incoming) = x \/ Carries(toPanel', x)
      /\ CarriesOnce(toPanel, x) => CarriesOnce(toPanel', x) /\ (Token(Incoming) = x => ~Carries(toPanel', x))
  BY CarriesTail DEF QueueTypes, Incoming
<1>2. Holds(x)' <=> Holds(x) BY HoldsStay
<1>3. ASSUME AsksAside PROVE TokenOnce(x)' /\ (Somewhere(x)' <=> Somewhere(x) /\ Token(Incoming) # x)
  <2>1. /\ Carries(toMain', x) <=> Carries(toMain, x)
        /\ CarriesOnce(toMain, x) => CarriesOnce(toMain', x)
    BY <1>3, AsideQueue
  <2> QED BY <1>1, <1>2, <2>1 DEF TokenOnce, Somewhere
<1>4. ASSUME NEW r \in Requests, Asks(<<r>>), Token(r) = Token(Incoming)
      PROVE  TokenOnce(x)' /\ (Somewhere(x)' <=> Somewhere(x))
  <2>1. /\ Carries(toMain', x) <=> Carries(toMain, x) \/ Token(r) = x
        /\ CarriesOnce(toMain, x) /\ ~(Carries(toMain, x) /\ Token(r) = x) => CarriesOnce(toMain', x)
    BY <1>4, CarriesMore DEF QueueTypes, Asks
  <2> QED BY <1>1, <1>2, <1>4, <2>1 DEF TokenOnce, Somewhere
<1> QED BY <1>3, <1>4

\* Leaving the view drops what is asked and answered of the running pull.
LEMMA ForgetQueue ==
  ASSUME NEW S, NEW q \in Seq(S), NEW x
  PROVE  /\ Forget(q) \in Seq(S) /\ ToSet(Forget(q)) \subseteq ToSet(q)
         /\ Carries(Forget(q), x) => Carries(q, x)
         /\ CarriesOnce(q, x) => CarriesOnce(Forget(q), x)
         /\ x = <<"state", 0>> => ~Carries(Forget(q), x)
<1> DEFINE at == {i \in DOMAIN q : q[i].type \notin {"state", "list"}}
<1>1. at \in SUBSET DOMAIN q /\ Forget(q) = Picked(q, at) BY DEF Forget
<1>2. DOMAIN q = 1 .. Len(q) /\ \A i \in at : q[i].type \notin {"state", "list"} OBVIOUS
<1> HIDE DEF at
<1>3. Picked(q, at) \in Seq(S) BY <1>1, PickedIs
<1>4. ToSet(Picked(q, at)) \subseteq ToSet(q)
  <2>1. ToSet(Picked(q, at)) \subseteq {q[i] : i \in at} BY <1>1, ToSetIs
  <2>2. {q[i] : i \in at} \subseteq ToSet(q) BY <1>1 DEF ToSet
  <2> QED BY <2>1, <2>2
<1>5. /\ Carries(Picked(q, at), x) => \E i \in at : Token(q[i]) = x
      /\ CarriesOnce(q, x) => CarriesOnce(Picked(q, at), x)
  BY <1>1, CarriesPicked
<1>6. \A m : m.type \notin {"state", "list"} => Token(m) # <<"state", 0>> BY DEF Token, Nothing
<1> QED BY <1>1, <1>2, <1>3, <1>4, <1>5, <1>6 DEF Carries

\* What is asked and answered once, when the view is left.
LEMMA ForgetTokens ==
  ASSUME QueueTypes, MainStays, toMain' = Forget(toMain), toPanel' = Forget(toPanel), NEW x, TokenOnce(x)
  PROVE  TokenOnce(x)' /\ (Somewhere(x)' => Somewhere(x)) /\ (x = <<"state", 0>> => ~Somewhere(x)')
<1>1. /\ Carries(toMain', x) => Carries(toMain, x)
      /\ CarriesOnce(toMain, x) => CarriesOnce(toMain', x)
      /\ x = <<"state", 0>> => ~Carries(toMain', x)
  BY ForgetQueue DEF QueueTypes
<1>2. /\ Carries(toPanel', x) => Carries(toPanel, x)
      /\ CarriesOnce(toPanel, x) => CarriesOnce(toPanel', x)
      /\ x = <<"state", 0>> => ~Carries(toPanel', x)
  BY ForgetQueue DEF QueueTypes
<1>3. Holds(x)' <=> Holds(x) BY HoldsStay
<1>4. ~Holds(<<"state", 0>>) BY DEF Holds
<1> QED BY <1>1, <1>2, <1>3, <1>4 DEF TokenOnce, Somewhere

-------------------------------------------------------------------------------
(* What the panel shows of the disk stays true as it asks and hears.            *)

SameResults ==
  panel'.done = panel.done /\ panel'.logs = panel.logs /\ panel'.logsOf = panel.logsOf /\ panel'.copying = panel.copying
\* Nothing new is said, and no copy is asked for.
NothingNew ==
  /\ \A m \in ToSet(toPanel') : m \in ToSet(toPanel)
  /\ \A m \in ToSet(toMain') : m \in ToSet(toMain) \/ m.type # "copy"

\* The panel's steps leave the disk as it is.
LEMMA DiskStays ==
  ASSUME MainStays
  PROVE  /\ \A k : IsRecorded(k)' <=> IsRecorded(k)
         /\ disk' = disk /\ copy' = copy
         /\ \A m : (IsTrue(m)' <=> IsTrue(m)) /\ (IsSound(m)' <=> IsSound(m))
<1>1. disk' = disk /\ copy' = copy BY DEF MainStays, mainVars
<1>2. \A k : IsRecorded(k)' <=> IsRecorded(k) BY <1>1 DEF IsRecorded
<1>3. ASSUME NEW m PROVE (IsTrue(m)' <=> IsTrue(m)) /\ (IsSound(m)' <=> IsSound(m))
  BY <1>1, <1>2 DEF IsTrue, IsSound, IsDone
<1> QED BY <1>1, <1>2, <1>3

\* What was told of it stays true.
LEMMA ToldStays ==
  ASSUME QueueTypes, QueueTypes', ToldTruly, MainStays, NothingNew
  PROVE  /\ ToldTruly' /\ (\A k : CopyOf(k)' => CopyOf(k))
         /\ \A x : Carries(toPanel', x) => Carries(toPanel, x)
<1>1. \A k : CopyOf(k)' => CopyOf(k) BY DiskStays DEF CopyOf, NothingNew
<1>2. \A x : Carries(toPanel', x) => Carries(toPanel, x) BY ToSetIs DEF QueueTypes, NothingNew
<1>3. \A m \in ToSet(toPanel') : IsTrue(m)' BY DiskStays DEF ToldTruly, NothingNew
<1>4. \A m \in ToSet(toMain') : IsSound(m)'
  <2> SUFFICES ASSUME NEW m \in ToSet(toMain') PROVE IsSound(m)' OBVIOUS
  <2>1. CASE m \in ToSet(toMain) BY <2>1, DiskStays DEF ToldTruly
  <2>2. CASE m.type # "copy" BY <2>2 DEF IsSound
  <2> QED BY <2>1, <2>2 DEF NothingNew
<1>5. \A k : CopyOf(k)' => ~Carries(toPanel', <<"done", k>>) BY <1>1, <1>2 DEF ToldTruly
<1> QED BY <1>1, <1>2, <1>3, <1>4, <1>5 DEF ToldTruly

\* And so does what is shown of it.
LEMMA ShownStays ==
  ASSUME QueueTypes, QueueTypes', ToldTruly, ShownTruly, MainStays, NothingNew, SameResults \/ NoResults(panel')
  PROVE  ToldTruly' /\ ShownTruly'
<1>1. /\ ToldTruly' /\ (\A k : CopyOf(k)' => CopyOf(k))
      /\ \A x : Carries(toPanel', x) => Carries(toPanel, x)
  BY ToldStays
<1>2. CASE NoResults(panel') BY <1>1, <1>2 DEF ShownTruly, NoResults
<1>3. CASE SameResults
  <2>1. PICK k : k = panel.logsOf OBVIOUS
  <2>2. PICK d : d = panel.done OBVIOUS
  <2>3. d # None => IsRecorded(d)' BY <2>2, DiskStays DEF ShownTruly
  <2>4. k # None => IsRecorded(k)' /\ ~Carries(toPanel', <<"done", k>>) BY <1>1, <2>1, DiskStays DEF ShownTruly
  <2>5. k # None /\ ~panel.copying => Agrees(panel.logs = "copied", disk[k]) /\ ~CopyOf(k)'
    BY <1>1, <2>1 DEF ShownTruly
  <2>6. panel'.logsOf = k /\ panel'.done = d BY <1>3, <2>1, <2>2 DEF SameResults
  <2>7. k # None /\ ~panel'.copying => Agrees(panel'.logs = "copied", disk'[k]) /\ ~CopyOf(k)'
    BY <1>3, <2>5, DiskStays DEF SameResults
  <2> QED BY <1>1, <2>3, <2>4, <2>6, <2>7 DEF ShownTruly, Agrees
<1> QED BY <1>2, <1>3

\* A copy is asked for only where none is accounted for.
LEMMA CopyAskedTruth ==
  ASSUME QueueTypes, QueueTypes', ToldTruly, ShownTruly, CopyAsked, panel.logsOf # None
  PROVE  ToldTruly' /\ ShownTruly'
<1>1. MainStays /\ toPanel' = toPanel BY DEF CopyAsked, MainStays
<1>2. PICK r \in Requests : r.type = "copy" /\ r.folder = panel.logsOf /\ Asks(<<r>>) BY DEF CopyAsked
<1>3. ToSet(toMain') = ToSet(toMain) \cup {r} BY <1>2, ToSetIs DEF QueueTypes, Asks
<1>4. IsRecorded(panel.logsOf) /\ ~Carries(toPanel, <<"done", panel.logsOf>>) /\ Agrees(FALSE, disk[panel.logsOf])
  BY DEF ShownTruly, CopyAsked, Agrees
<1>5. IsSound(r) BY <1>2, <1>4 DEF IsSound
<1>6. \A k : CopyOf(k)' => CopyOf(k) \/ k = panel.logsOf BY <1>1, <1>2, <1>3, DiskStays DEF CopyOf
<1>7. ToldTruly'
  <2>1. \A m \in ToSet(toPanel') : IsTrue(m)' BY <1>1, DiskStays DEF ToldTruly
  <2>2. \A m \in ToSet(toMain') : IsSound(m)' BY <1>1, <1>3, <1>5, DiskStays DEF ToldTruly
  <2>3. \A k : CopyOf(k)' => ~Carries(toPanel', <<"done", k>>) BY <1>1, <1>4, <1>6 DEF ToldTruly
  <2> QED BY <2>1, <2>2, <2>3 DEF ToldTruly
<1>8. ShownTruly'
  <2>1. panel'.copying /\ panel'.done = panel.done /\ panel'.logsOf = panel.logsOf
    BY DEF CopyAsked, ChangesOnly, Changes, Fields
  <2>2. PICK d : d = panel.done OBVIOUS
  <2>3. PICK k : k = panel.logsOf OBVIOUS
  <2>4. IsRecorded(k)' /\ ~Carries(toPanel', <<"done", k>>) BY <1>1, <1>4, <2>3, DiskStays
  <2>5. d # None => IsRecorded(d)' BY <1>1, <2>2, DiskStays DEF ShownTruly
  <2>6. panel'.logsOf = k /\ panel'.done = d BY <2>1, <2>2, <2>3
  <2> QED BY <1>1, <2>1, <2>4, <2>5, <2>6 DEF ShownTruly
<1> QED BY <1>7, <1>8

\* The last thing heard of a pull or a copy is all there is of it.
LEMMA HeardTruth ==
  ASSUME QueueTypes, QueueTypes', ToldTruly, ShownTruly, Tokens, MainStays, toPanel # <<>>, toPanel' = Tail(toPanel),
         AsksAside, Incoming \in Messages,
         (Mounts /\ HeardDone(Incoming)) \/ (panel.copying /\ HeardCopy(Incoming))
  PROVE  ToldTruly' /\ ShownTruly'
<1>1. ToSet(toPanel) = {Incoming} \cup ToSet(toPanel') BY ToSetIs DEF QueueTypes, Incoming
<1>2. NothingNew
  <2>1. \A m \in ToSet(toMain') : m \in ToSet(toMain) \/ m.type # "copy"
    <3>1. CASE toMain' = toMain BY <3>1
    <3>2. ASSUME NEW r \in Requests, r.type \in {"list", "cancel", "delete"}, Asks(<<r>>)
          PROVE  \A m \in ToSet(toMain') : m \in ToSet(toMain) \/ m.type # "copy"
      <4>1. ToSet(toMain') = ToSet(toMain) \cup {r} BY <3>2, ToSetIs DEF QueueTypes, Asks
      <4> QED BY <3>2, <4>1
    <3> QED BY <3>1, <3>2 DEF AsksAside
  <2> QED BY <1>1, <2>1 DEF NothingNew
<1>3. /\ ToldTruly' /\ (\A k : CopyOf(k)' => CopyOf(k))
      /\ \A x : Carries(toPanel', x) => Carries(toPanel, x)
  BY <1>2, ToldStays
<1>4. PICK m : m = Incoming OBVIOUS
<1>5. IsTrue(m) BY <1>1, <1>4 DEF ToldTruly
<1>6. \A x : x # Nothing /\ Token(m) = x => Carries(toPanel, x) /\ ~Carries(toPanel', x) /\ ~Carries(toMain, x) /\ ~Holds(x)
  <2> SUFFICES ASSUME NEW x, x # Nothing, Token(m) = x
               PROVE  Carries(toPanel, x) /\ ~Carries(toPanel', x) /\ ~Carries(toMain, x) /\ ~Holds(x)
    OBVIOUS
  <2>1. /\ Carries(toPanel, x) <=> Token(m) = x \/ Carries(toPanel', x)
        /\ CarriesOnce(toPanel, x) => CarriesOnce(toPanel', x) /\ (Token(m) = x => ~Carries(toPanel', x))
    BY <1>4, CarriesTail DEF QueueTypes, Incoming
  <2> QED BY <2>1 DEF Tokens, TokenOnce
<1>7. CASE Mounts /\ HeardDone(m)
  <2>1. panel'.done = m.folder /\ panel'.logsOf = m.folder /\ (panel'.logs = "copied" <=> m.logs) /\ m \in Dones
    BY <1>7 DEF HeardDone
  <2>2. PICK k : k = m.folder OBVIOUS
  <2>3. IsDone(m) /\ k \in Pulls BY <2>1, <2>2, MessageKinds DEF IsDone, Dones
  <2>4. IsRecorded(k) /\ (m.logs <=> disk[k].rec) BY <1>5, <2>2, <2>3 DEF IsTrue
  <2>5. Token(m) = <<"done", k>> BY <2>2, <2>3 DEF Token, IsDone
  <2>6. Carries(toPanel, <<"done", k>>) /\ ~Carries(toPanel', <<"done", k>>) BY <1>6, <2>5 DEF Nothing
  <2>7. ~CopyOf(k)' BY <1>3, <2>6 DEF ToldTruly
  <2>8. IsRecorded(k)' /\ disk' = disk BY <2>4, DiskStays
  <2>9. panel'.done = k /\ panel'.logsOf = k /\ Agrees(panel'.logs = "copied", disk'[k])
    BY <2>1, <2>2, <2>4, <2>8 DEF Agrees
  <2> QED BY <1>3, <2>6, <2>7, <2>8, <2>9 DEF ShownTruly, Agrees
<1>8. CASE panel.copying /\ HeardCopy(m)
  <2>1. panel'.logs = m.value /\ panel'.logsOf = m.folder /\ m \in CopyAnswers /\ panel'.done = panel.done
    BY <1>8 DEF HeardCopy, ChangesOnly, Changes, Fields
  <2>2. PICK k : k = m.folder OBVIOUS
  <2>3. m.type = "copy" BY <2>1 DEF CopyAnswers
  <2>4. IsRecorded(k) /\ Agrees(m.value = "copied", disk[k]) BY <1>5, <2>2, <2>3 DEF IsTrue
  <2>5. Token(m) = <<"copy", 0>> BY <2>3 DEF Token
  <2>6. ~Carries(toPanel', <<"copy", 0>>) /\ ~Carries(toMain, <<"copy", 0>>) /\ ~Holds(<<"copy", 0>>)
    BY <1>6, <2>5 DEF Nothing
  <2>7. CopyOf(k) BY <1>1, <1>4, <2>2, <2>3 DEF CopyOf
  <2>8. ~Carries(toPanel', <<"done", k>>) BY <1>3, <2>7 DEF ToldTruly
  <2>9. copy.pc = "off" BY <2>6 DEF Holds
  <2>10. ~CopyOf(k)'
    <3>1. \A n : n.type = "copy" => Token(n) = <<"copy", 0>> BY TokensAre
    <3>2. \A n \in ToSet(toPanel') : n.type # "copy" BY <2>6, <3>1, ToSetIs, ZenonT(30) DEF QueueTypes
    <3>3. \A n \in ToSet(toMain) : n.type # "copy" BY <2>6, <3>1, ToSetIs DEF QueueTypes
    <3> QED BY <1>2, <2>9, <3>2, <3>3, DiskStays DEF CopyOf, NothingNew
  <2>13. PICK d : d = panel.done OBVIOUS
  <2>11. IsRecorded(k)' /\ disk' = disk /\ (d # None => IsRecorded(d)') /\ panel'.done = d
    BY <2>1, <2>4, <2>13, DiskStays DEF ShownTruly
  <2>12. panel'.logsOf = k /\ Agrees(panel'.logs = "copied", disk'[k]) BY <2>1, <2>2, <2>4, <2>11
  <2> QED BY <1>3, <2>1, <2>8, <2>10, <2>11, <2>12 DEF ShownTruly, Agrees
<1> QED BY <1>4, <1>7, <1>8

-------------------------------------------------------------------------------
(* What is so of the panel itself.                                              *)

\* A panel that does not yet know its devices offers nothing and holds nothing.
Bare(p) == ~p.sel /\ ~p.password /\ ~p.consent /\ ~p.dialog /\ ~p.cancelling /\ p.phase # "pulling"
AllGone == \A c \in Clicks : calls[c].owner = "gone"
FreeAreIdle == \A c \in Clicks : calls[c].stage = "free" => ~Somewhere(<<"call", c>>)
AskedFirst == Somewhere(<<"state", 0>>) => ~panel.devices /\ panel.phase # "unmounted"
PanelKnown ==
  /\ panel \in Panels /\ calls \in [Clicks -> Calls]
  /\ panel.logs # "none" => panel.logsOf # None
  /\ panel.phase = "unmounted" => ~panel.devices
  /\ ~panel.devices => Bare(panel) /\ AllGone
  /\ AskedFirst /\ FreeAreIdle
  /\ panel.phase = "pulling" => ~panel.password

\* What is asked aside asks for no copy.
LEMMA AsideNothingNew ==
  ASSUME QueueTypes, AsksAside, toPanel' = toPanel \/ (toPanel # <<>> /\ toPanel' = Tail(toPanel)) PROVE NothingNew
<1>1. \A m \in ToSet(toMain') : m \in ToSet(toMain) \/ m.type # "copy"
  <2>1. CASE toMain' = toMain BY <2>1
  <2>2. ASSUME NEW r \in Requests, r.type \in {"list", "cancel", "delete"}, Asks(<<r>>)
        PROVE  \A m \in ToSet(toMain') : m \in ToSet(toMain) \/ m.type # "copy"
    <3>1. ToSet(toMain') = ToSet(toMain) \cup {r} BY <2>2, ToSetIs DEF QueueTypes, Asks
    <3> QED BY <2>2, <3>1
  <2> QED BY <2>1, <2>2 DEF AsksAside
<1>2. \A m \in ToSet(toPanel') : m \in ToSet(toPanel)
  <2>1. toPanel # <<>> => ToSet(Tail(toPanel)) \subseteq ToSet(toPanel) BY ToSetIs DEF QueueTypes
  <2> QED BY <2>1
<1> QED BY <1>1, <1>2 DEF NothingNew

\* Nor does any other request but the one for a copy.
LEMMA AskNothingNew ==
  ASSUME QueueTypes, NEW r \in Requests, r.type # "copy", Asks(<<r>>),
         toPanel' = toPanel \/ (toPanel # <<>> /\ toPanel' = Tail(toPanel))
  PROVE  NothingNew /\ toMain' \in Seq(Requests)
<1>1. ToSet(toMain') = ToSet(toMain) \cup {r} BY ToSetIs DEF QueueTypes, Asks
<1>2. \A m \in ToSet(toPanel') : m \in ToSet(toPanel)
  <2>1. toPanel # <<>> => ToSet(Tail(toPanel)) \subseteq ToSet(toPanel) BY ToSetIs DEF QueueTypes
  <2> QED BY <2>1
<1>3. toMain' \in Seq(Requests) BY DEF QueueTypes, Asks
<1> QED BY <1>1, <1>2, <1>3 DEF NothingNew

\* What is so of the main process stays so.
LEMMA MainVarsStay ==
  ASSUME MainTypes, DiskKnown, CopyKnown, MainStays PROVE MainTypes' /\ DiskKnown' /\ CopyKnown'
<1> USE DEF MainStays, mainVars
<1>1. MainTypes' BY DEF MainTypes
<1>2. DiskKnown' BY DEF DiskKnown, Folder, Here, IsRecorded
<1>3. CopyKnown' BY DEF CopyKnown, Copied
<1> QED BY <1>1, <1>2, <1>3

\* Quiet clicks keep what is so of the main process and of what it told.
LEMMA QuietMain == ASSUME MainInv, Quietly PROVE MainInv'
<1> USE DEF MainInv
<1>1. MainStays /\ AsksAside /\ toPanel' = toPanel BY DEF Quietly, MainStays
<1>2. QueueTypes'
  <2>1. toMain' \in Seq(Requests) BY <1>1, AsideRequests
  <2> QED BY <1>1, <2>1 DEF QueueTypes
<1>3. Tokens' BY <1>1, AsideTokens DEF Tokens
<1>4. NothingNew BY <1>1, AsideNothingNew
<1>5. SameResults \/ NoResults(panel') BY DEF Quietly, SameResults, ChangesOnly, Changes, Fields, Inert, Results
<1>6. ToldTruly' /\ ShownTruly' BY <1>1, <1>2, <1>4, <1>5, ShownStays
<1> QED BY <1>1, <1>2, <1>3, <1>6, MainVarsStay

\* They keep what is so of the panel.
LEMMA QuietPanel == ASSUME MainInv, PanelKnown, Quietly PROVE PanelKnown'
<1>0. MainStays /\ AsksAside /\ toPanel' = toPanel BY DEF Quietly, MainStays
<1>1. \A x : x # Nothing => (Somewhere(x)' <=> Somewhere(x)) BY <1>0, AsideTokens DEF MainInv, Tokens
<1>2. /\ calls' \in [Clicks -> Calls]
      /\ \A c \in Clicks : calls'[c].stage = calls[c].stage /\ (calls'[c].owner = "gone" <=> calls[c].owner = "gone")
  BY CallsAre DEF Quietly, PanelKnown
<1>3. panel' \in Panels /\ panel'.phase = panel.phase /\ panel'.devices = panel.devices
  BY DEF Quietly, ChangesOnly, Changes, Fields, Inert, Results
<1>4. panel'.logs # "none" => panel'.logsOf # None
  BY DEF Quietly, ChangesOnly, Changes, Fields, Inert, Results, NoResults, PanelKnown
<1>5. AskedFirst' BY <1>1, <1>3 DEF AskedFirst, PanelKnown, Nothing
<1>6. FreeAreIdle' BY <1>1, <1>2 DEF FreeAreIdle, PanelKnown, Nothing
<1>7. ~panel'.devices => Bare(panel') /\ AllGone' BY <1>2, <1>3 DEF Bare, AllGone, PanelKnown, Quietly
<1>8. panel'.phase = "pulling" => ~panel'.password BY <1>3 DEF PanelKnown, Quietly
<1> QED BY <1>2, <1>3, <1>4, <1>5, <1>6, <1>7, <1>8 DEF PanelKnown

\* A panel that mounts asks first what is running.
LEMMA MountGoesOn == ASSUME MainInv, PanelKnown, Mount PROVE MainInv' /\ PanelKnown'
<1> USE DEF MainInv
<1>1. MainStays /\ toPanel' = toPanel /\ calls' = calls /\ panel' = Mounted /\ panel.phase = "unmounted"
  BY DEF Mount, MainStays, MainWaits, Shows
<1>2. PICK r \in Requests : r.type = "state" /\ Asks(<<r>>) BY RequestsAre DEF Mount
<1>3. Token(r) = <<"state", 0>> BY <1>2 DEF Token
<1>4. ~Somewhere(<<"state", 0>>) BY <1>1 DEF PanelKnown, AskedFirst
<1>5. \A x : x # Nothing => TokenOnce(x)' /\ (Somewhere(x)' <=> Somewhere(x) \/ Token(r) = x)
  BY <1>1, <1>2, <1>3, <1>4, AskTokens DEF Tokens
<1>6. NothingNew /\ toMain' \in Seq(Requests) BY <1>1, <1>2, AskNothingNew
<1>7. QueueTypes' BY <1>1, <1>6 DEF QueueTypes
<1>8. NoResults(panel') BY <1>1, MountedIs
<1>9. ToldTruly' /\ ShownTruly' BY <1>1, <1>6, <1>7, <1>8, ShownStays
<1>10. MainInv' BY <1>1, <1>5, <1>7, <1>9, MainVarsStay DEF Tokens
<1>11. /\ panel' \in Panels /\ panel'.phase = "checking" /\ ~panel'.devices /\ Bare(panel')
  BY <1>1, MountedIs DEF Bare
<1>12. AllGone' BY <1>1 DEF AllGone, PanelKnown
<1>13. FreeAreIdle' BY <1>1, <1>3, <1>5 DEF FreeAreIdle, PanelKnown, Nothing
<1>14. AskedFirst' BY <1>11 DEF AskedFirst
<1> QED BY <1>1, <1>8, <1>10, <1>11, <1>12, <1>13, <1>14 DEF PanelKnown, NoResults

\* A panel left shows nothing, and has no call of its own.
LEMMA UnmountGoesOn == ASSUME MainInv, PanelKnown, Unmount PROVE MainInv' /\ PanelKnown'
<1> USE DEF MainInv
<1>1. MainStays /\ panel' = Unmounted /\ toMain' = Forget(toMain) /\ toPanel' = Forget(toPanel)
      /\ calls' = [c \in Clicks |-> [calls[c] EXCEPT !.owner = "gone"]]
  BY DEF Unmount, MainStays, Shows
<1>2. \A x : x # Nothing => TokenOnce(x)' /\ (Somewhere(x)' => Somewhere(x)) /\ (x = <<"state", 0>> => ~Somewhere(x)')
  BY <1>1, ForgetTokens DEF Tokens
<1>3. QueueTypes' /\ NothingNew BY <1>1, ForgetQueue DEF QueueTypes, NothingNew
<1>4. NoResults(panel') BY <1>1, MountedIs
<1>5. ToldTruly' /\ ShownTruly' BY <1>1, <1>3, <1>4, ShownStays
<1>6. MainInv' BY <1>1, <1>2, <1>3, <1>5, MainVarsStay DEF Tokens
<1>7. /\ calls' \in [Clicks -> Calls]
      /\ \A c \in Clicks : calls'[c].stage = calls[c].stage /\ calls'[c].owner = "gone"
  BY <1>1 DEF PanelKnown, Calls
<1>8. panel' \in Panels /\ panel'.phase = "unmounted" /\ ~panel'.devices /\ Bare(panel') BY <1>1, MountedIs DEF Bare
<1>9. FreeAreIdle' BY <1>2, <1>7 DEF FreeAreIdle, PanelKnown, Nothing
<1>10. AskedFirst' BY <1>2 DEF AskedFirst, Nothing
<1>11. AllGone' BY <1>7 DEF AllGone
<1> QED BY <1>4, <1>6, <1>7, <1>8, <1>9, <1>10, <1>11 DEF PanelKnown, NoResults

\* After a crash nothing is under way and nothing on its way.
LEMMA KilledGoesOn == ASSUME MainInv, PanelKnown, Killed PROVE MainInv' /\ PanelKnown'
<1> USE DEF MainInv
<1>1. /\ tracker' = NoPull /\ job' = NoJob /\ cancel' = "null" /\ copy' = NoCopy /\ del' = NoOp
      /\ toMain' = <<>> /\ toPanel' = <<>> /\ panel' = Unmounted /\ calls' = [c \in Clicks |-> NoCall]
      /\ UNCHANGED <<disk, known, encrypts>> /\ Fault
  BY DEF Killed, Shows
<1>2. MainTypes'
  <2>1. faults' \in 0 .. MaxFaults BY <1>1, DevicePullAssumption DEF Fault, MainTypes
  <2>2. tracker' \in Trackers /\ job' \in Jobs /\ copy' \in Copies /\ del' \in Deletions
    BY <1>1 DEF NoPull, NoJob, NoCopy, NoOp, Trackers, Jobs, Copies, Deletions, None, JobPlaces, OpPlaces
  <2>3. tracker'.folder = None /\ job'.pc = "off" /\ copy'.pc = "off" BY <1>1 DEF NoPull, NoJob, NoCopy
  <2> QED BY <1>1, <2>1, <2>2, <2>3 DEF MainTypes, InTry
<1>3. job'.pc = "off" /\ copy'.pc = "off" BY <1>1 DEF NoJob, NoCopy
<1>4. DiskKnown' /\ CopyKnown' BY <1>1, <1>3 DEF DiskKnown, CopyKnown, IsRecorded
<1>5. Len(toMain') = 0 /\ Len(toPanel') = 0 /\ ToSet(toMain') = {} /\ ToSet(toPanel') = {} BY <1>1 DEF ToSet
<1>6. QueueTypes' BY <1>1 DEF QueueTypes
<1>7. \A x : ~Somewhere(x)' /\ TokenOnce(x)' BY <1>3, <1>5 DEF Somewhere, TokenOnce, Carries, CarriesOnce, Holds
<1>8. NoResults(panel') BY <1>1, MountedIs
<1>9. \A k : ~CopyOf(k)' BY <1>3, <1>5 DEF CopyOf
<1>10. ToldTruly' /\ ShownTruly' BY <1>5, <1>8, <1>9 DEF ToldTruly, ShownTruly, NoResults
<1>11. MainInv' BY <1>2, <1>4, <1>6, <1>7, <1>10 DEF Tokens
<1>12. calls' \in [Clicks -> Calls] /\ AllGone' BY <1>1 DEF AllGone, Calls, NoCall
<1>13. panel' \in Panels /\ panel'.phase = "unmounted" /\ ~panel'.devices /\ Bare(panel') BY <1>1, MountedIs DEF Bare
<1> QED BY <1>7, <1>8, <1>11, <1>12, <1>13 DEF PanelKnown, NoResults, AskedFirst, FreeAreIdle

\* A call begins.
LEMMA CallGoesOn ==
  ASSUME MainInv, PanelKnown, NEW c \in Clicks, PullAsked(c) \/ PullStarted(c) PROVE MainInv' /\ PanelKnown'
<1> USE DEF MainInv
<1>1. /\ MainStays /\ toPanel' = toPanel /\ CallBegins(c, calls'[c].stage) /\ calls'[c].stage # "free"
      /\ NoResults(panel') /\ ChangesOnly(Inert \cup Results \cup {"phase", "consent", "password"}) /\ panel.sel
  BY DEF PullAsked, PullStarted, MainStays, CallBegins, ChangesOnly, Changes
<1>2. PICK r \in Requests : r.type \in {"encryption", "pull"} /\ r.call = c /\ Asks(<<r>>)
  BY DEF PullAsked, PullStarted, Sends
<1>3. Token(r) = <<"call", c>> BY <1>2, TokensAre
<1>4. ~Somewhere(<<"call", c>>) BY <1>1 DEF PanelKnown, FreeAreIdle, CallBegins
<1>5. \A x : x # Nothing => TokenOnce(x)' /\ (Somewhere(x)' <=> Somewhere(x) \/ Token(r) = x)
  BY <1>1, <1>2, <1>3, <1>4, AskTokens DEF Tokens
<1>6. NothingNew /\ toMain' \in Seq(Requests) BY <1>1, <1>2, AskNothingNew
<1>7. QueueTypes' BY <1>1, <1>6 DEF QueueTypes
<1>8. ToldTruly' /\ ShownTruly' BY <1>1, <1>6, <1>7, ShownStays
<1>9. MainInv' BY <1>1, <1>5, <1>7, <1>8, MainVarsStay DEF Tokens
<1>10. panel.devices BY <1>1 DEF PanelKnown, Bare
<1>11. panel' \in Panels /\ panel'.devices = panel.devices
  BY <1>1 DEF ChangesOnly, Changes, Fields, Inert, Results
<1>12. panel'.phase # "unmounted" /\ (panel'.phase = "pulling" => ~panel'.password)
  BY DEF PullAsked, PullStarted, ChangesOnly, Changes, Fields, Inert, Results
<1>13. AskedFirst' BY <1>3, <1>5, <1>10, <1>11 DEF PanelKnown, AskedFirst, Nothing
<1>14. FreeAreIdle'
  <2> SUFFICES ASSUME NEW b \in Clicks, calls'[b].stage = "free" PROVE ~Somewhere(<<"call", b>>)' BY DEF FreeAreIdle
  <2>1. b # c /\ calls[b].stage = "free" BY <1>1 DEF CallBegins
  <2>2. ~Somewhere(<<"call", b>>) BY <2>1 DEF PanelKnown, FreeAreIdle
  <2> QED BY <1>3, <1>5, <2>1, <2>2 DEF Nothing
<1> QED BY <1>1, <1>9, <1>10, <1>11, <1>12, <1>13, <1>14 DEF PanelKnown, CallBegins, NoResults

\* A copy is asked for.
LEMMA CopyGoesOn == ASSUME MainInv, PanelKnown, CopyAsked PROVE MainInv' /\ PanelKnown'
<1> USE DEF MainInv
<1>1. MainStays /\ toPanel' = toPanel /\ calls' = calls BY DEF CopyAsked, MainStays
<1>2. PICK r \in Requests : r.type = "copy" /\ Asks(<<r>>) BY DEF CopyAsked
<1>3. Token(r) = <<"copy", 0>> /\ ~Somewhere(<<"copy", 0>>) BY <1>2, TokensAre DEF CopyAsked
<1>5. \A x : x # Nothing => TokenOnce(x)' /\ (Somewhere(x)' <=> Somewhere(x) \/ Token(r) = x)
  BY <1>1, <1>2, <1>3, AskTokens DEF Tokens
<1>6. QueueTypes' BY <1>1, <1>2 DEF QueueTypes, Asks
<1>7. ToldTruly' /\ ShownTruly'
  <2>1. panel.logsOf # None BY DEF PanelKnown, CopyAsked
  <2> QED BY <1>6, <2>1, CopyAskedTruth
<1>8. MainInv' BY <1>1, <1>5, <1>6, <1>7, MainVarsStay DEF Tokens
<1>9. panel' \in Panels /\ \A f \in Fields \ {"copying"} : panel'[f] = panel[f] BY DEF CopyAsked, ChangesOnly, Changes
<1>10. /\ panel'.logs = panel.logs /\ panel'.logsOf = panel.logsOf /\ panel'.phase = panel.phase
       /\ panel'.devices = panel.devices /\ panel'.password = panel.password /\ (Bare(panel') <=> Bare(panel))
  BY <1>9 DEF Fields, Bare
<1>11. AskedFirst' BY <1>3, <1>5, <1>10 DEF PanelKnown, AskedFirst, Nothing
<1>12. FreeAreIdle' BY <1>1, <1>3, <1>5 DEF PanelKnown, FreeAreIdle, Nothing
<1>13. AllGone' <=> AllGone BY <1>1 DEF AllGone
<1> QED BY <1>1, <1>8, <1>9, <1>10, <1>11, <1>12, <1>13 DEF PanelKnown

\* The panel hears the oldest message.
LEMMA HearQueues ==
  ASSUME MainInv, HearStep
  PROVE  /\ MainStays /\ QueueTypes' /\ NothingNew /\ Tokens'
         /\ \A x : x # Nothing /\ Somewhere(x)' => Somewhere(x)
         /\ AsksAside => \A x : x # Nothing /\ Somewhere(x)' => Token(Incoming) # x
<1> USE DEF MainInv
<1>1. MainStays /\ toPanel # <<>> /\ toPanel' = Tail(toPanel) BY DEF HearStep, MainStays
<1>2. toPanel' \in Seq(Messages) BY <1>1, HeadTailProperties DEF QueueTypes
<1>3. CASE AsksAside
  <2>1. \A x : x # Nothing => TokenOnce(x)' /\ (Somewhere(x)' <=> Somewhere(x) /\ Token(Incoming) # x)
    BY <1>1, <1>3, HearTokens DEF Tokens
  <2>2. toMain' \in Seq(Requests) BY <1>3, AsideRequests
  <2>3. NothingNew BY <1>1, <1>3, AsideNothingNew
  <2> QED BY <1>1, <1>2, <2>1, <2>2, <2>3 DEF QueueTypes, Tokens
<1>4. CASE HeardYes(Incoming) /\ ~AsksAside
  <2>1. PICK r \in Requests : r.type = "pull" /\ r.call = Incoming.call /\ Asks(<<r>>) BY <1>4 DEF HeardYes, Sends
  <2>2. Token(r) = Token(Incoming) BY <1>4, <2>1, TokensAre DEF HeardYes
  <2>3. \A x : x # Nothing => TokenOnce(x)' /\ (Somewhere(x)' <=> Somewhere(x))
    BY <1>1, <2>1, <2>2, HearTokens DEF Tokens
  <2>4. NothingNew /\ toMain' \in Seq(Requests) BY <1>1, <2>1, AskNothingNew
  <2> QED BY <1>1, <1>2, <1>4, <2>3, <2>4 DEF QueueTypes, Tokens
<1> QED BY <1>3, <1>4 DEF HearStep

\* What is heard keeps what is so of the main process and of what it told.
LEMMA HearMain == ASSUME MainInv, HearStep, panel \in Panels PROVE MainInv'
<1> USE DEF MainInv
<1>1. MainStays /\ QueueTypes' /\ NothingNew /\ Tokens' BY HearQueues
<1>2. ToldTruly' /\ ShownTruly'
  <2>1. CASE SameResults \/ NoResults(panel') BY <1>1, <2>1, ShownStays
  <2>2. CASE ~SameResults /\ ~NoResults(panel')
    <3>1. panel' # panel BY <2>2 DEF SameResults
    <3>2. ASSUME NEW fs, ChangesOnly(fs), fs \cap {"done", "logs", "logsOf", "copying"} = {} PROVE FALSE
      BY <2>2, <3>2 DEF ChangesOnly, Changes, Fields, SameResults
    <3>3. ~HeardYes(Incoming) BY <3>1, <3>2 DEF HeardYes
    <3>4. ~HeardStats(Incoming) /\ ~HeardError(Incoming) BY <3>1, <3>2 DEF HeardStats, HeardError
    <3>5. ~HeardState(Incoming) BY <3>1, <3>2 DEF HeardState, Inert
    <3>6. ~HeardNo(Incoming) /\ ~HeardUnknown(Incoming) BY <3>1, <3>2 DEF HeardNo, HeardUnknown
    <3>7. ~HeardPull(Incoming) /\ ~HeardAside(Incoming) BY <2>2, <3>1, <3>2 DEF HeardPull, HeardAside, Inert
    <3>8. AsksAside /\ (HeardDone(Incoming) \/ HeardCopy(Incoming))
      BY <3>3, <3>4, <3>5, <3>6, <3>7 DEF HearStep, HeardOf
    <3>9. CASE HeardDone(Incoming)
      <4>1. Mounts BY <3>1, <3>9 DEF HeardDone
      <4> QED BY <1>1, <3>8, <3>9, <4>1, HeardTruth DEF HearStep
    <3>10. CASE HeardCopy(Incoming)
      <4>1. panel.copying BY <3>1, <3>10 DEF HeardCopy
      <4> QED BY <1>1, <3>8, <3>10, <4>1, HeardTruth DEF HearStep
    <3> QED BY <3>8, <3>9, <3>10
  <2> QED BY <2>1, <2>2
<1> QED BY <1>1, <1>2, MainVarsStay

\* A call that is answered is over.
LEMMA CallEnded ==
  ASSUME MainInv, PanelKnown, HearStep, AsksAside, NEW c \in Clicks, CallEnds(c), Token(Incoming) = <<"call", c>>
  PROVE  FreeAreIdle' /\ (AllGone => AllGone')
<1>1. /\ \A x : x # Nothing /\ Somewhere(x)' => Somewhere(x)
      /\ \A x : x # Nothing /\ Somewhere(x)' => Token(Incoming) # x
  BY HearQueues
<1>2. calls \in [Clicks -> Calls] BY DEF PanelKnown
<1>3. \A b \in Clicks : calls'[b] = IF b = c THEN NoCall ELSE calls[b] BY <1>2 DEF CallEnds
<1>4. NoCall.owner = "gone" BY DEF NoCall
<1>5. AllGone => AllGone' BY <1>3, <1>4 DEF AllGone
<1>6. FreeAreIdle'
  <2> SUFFICES ASSUME NEW b \in Clicks, calls'[b].stage = "free" PROVE ~Somewhere(<<"call", b>>)' BY DEF FreeAreIdle
  <2>1. CASE b = c BY <1>1, <2>1 DEF Nothing
  <2>2. CASE b # c
    <3>1. calls[b].stage = "free" BY <1>3, <2>2
    <3> QED BY <1>1, <3>1 DEF PanelKnown, FreeAreIdle, Nothing
  <2> QED BY <2>1, <2>2
<1> QED BY <1>5, <1>6

\* Whatever is heard keeps what is so of the panel.
LEMMA HearPanel == ASSUME MainInv, PanelKnown, HearStep PROVE PanelKnown'
<1> DEFINE m == Incoming
<1>0. m \in Messages /\ panel \in Panels /\ calls \in [Clicks -> Calls] BY DEF HearStep, PanelKnown
<1>1. /\ \A x : x # Nothing /\ Somewhere(x)' => Somewhere(x)
      /\ AsksAside => \A x : x # Nothing /\ Somewhere(x)' => Token(m) # x
  BY HearQueues
<1> HIDE DEF m
<1>2. ASSUME NEW fs, ChangesOnly(fs)
      PROVE panel' \in Panels /\ \A f \in Fields \ fs : panel'[f] = panel[f]
  BY <1>2 DEF ChangesOnly, Changes
\* Calls untouched.
<1>3. ASSUME calls' = calls PROVE FreeAreIdle' /\ (AllGone => AllGone')
  BY <1>1, <1>3 DEF FreeAreIdle, PanelKnown, AllGone, Nothing
\* The panel has asked of the running pull, and waits for that alone.
<1>4. ASSUME panel'.devices = panel.devices, panel'.phase # "unmounted" \/ panel' = panel PROVE AskedFirst'
  BY <1>1, <1>4 DEF AskedFirst, PanelKnown, Nothing
<1>5. ASSUME panel' = panel, FreeAreIdle', AllGone => AllGone', calls' \in [Clicks -> Calls] PROVE PanelKnown'
  BY <1>4, <1>5 DEF PanelKnown
<1>6. CASE HeardYes(m)
  <2>1. FreeAreIdle' /\ (AllGone => AllGone') /\ calls' \in [Clicks -> Calls]
    BY <1>1, <1>6 DEF HeardYes, FreeAreIdle, PanelKnown, AllGone, Nothing
  <2>2. CASE ~Mine(m.call) BY <1>5, <1>6, <2>1, <2>2 DEF HeardYes
  <2>3. CASE Mine(m.call)
    <3>1. panel.devices BY <1>6, <2>3 DEF HeardYes, Mine, PanelKnown, AllGone
    <3>2. /\ panel' \in Panels /\ panel'.devices /\ panel'.phase = "pulling" /\ ~panel'.password
          /\ panel'.logs = panel.logs /\ panel'.logsOf = panel.logsOf
      BY <1>6, <2>3, <3>1 DEF HeardYes, ChangesOnly, Changes, Fields
    <3>3. AskedFirst' BY <1>4, <3>1, <3>2
    <3> QED BY <2>1, <3>2, <3>3 DEF PanelKnown
  <2> QED BY <2>2, <2>3
<1>7. CASE AsksAside /\ HeardStats(m)
  <2>1. /\ panel' \in Panels /\ \A f \in Fields \ {"stats"} : panel'[f] = panel[f] BY <1>7 DEF HeardStats, ChangesOnly, Changes
  <2>2. Bare(panel) => Bare(panel') BY <2>1 DEF Bare, Fields
  <2>3. calls' = calls BY <1>7 DEF HeardStats
  <2>4. /\ panel'.phase = panel.phase /\ panel'.devices = panel.devices /\ panel'.logs = panel.logs
        /\ panel'.logsOf = panel.logsOf /\ panel'.password = panel.password
    BY <2>1 DEF Fields
  <2>5. AskedFirst' BY <1>1, <2>4 DEF AskedFirst, PanelKnown, Nothing
  <2> QED BY <1>0, <1>3, <2>1, <2>2, <2>3, <2>4, <2>5 DEF PanelKnown
<1>8. CASE AsksAside /\ HeardDone(m)
  <2>1. calls' = calls BY <1>8 DEF HeardDone
  <2>2. CASE ~Mounts BY <1>0, <1>3, <1>5, <1>8, <2>1, <2>2 DEF HeardDone
  <2>3. CASE Mounts
    <3>1. /\ panel' \in Panels /\ \A f \in Fields \ (Results \cup {"phase", "cancelling"}) : panel'[f] = panel[f]
          /\ panel'.phase = "pulled" /\ ~panel'.cancelling /\ panel'.logsOf = m.folder /\ m \in Dones
      BY <1>8, <2>3 DEF HeardDone, ChangesOnly, Changes
    <3>2. Bare(panel) => Bare(panel') BY <3>1 DEF Bare, Fields, Results
    <3>3. panel'.devices = panel.devices /\ panel'.logsOf # None BY <3>1 DEF Fields, Results, Dones, Pulls, None
    <3>4. AskedFirst' BY <1>4, <3>1, <3>3
    <3> QED BY <1>0, <1>3, <2>1, <3>1, <3>2, <3>3, <3>4 DEF PanelKnown
  <2> QED BY <2>2, <2>3
<1>9. CASE AsksAside /\ HeardError(m)
  <2>1. calls' = calls BY <1>9 DEF HeardError
  <2>2. CASE ~Mounts BY <1>0, <1>3, <1>5, <1>9, <2>1, <2>2 DEF HeardError
  <2>3. CASE Mounts
    <3>1. /\ panel' \in Panels /\ \A f \in Fields \ {"phase", "cancelling"} : panel'[f] = panel[f]
          /\ panel'.phase = "available" /\ ~panel'.cancelling
      BY <1>9, <2>3 DEF HeardError, ChangesOnly, Changes
    <3>2. Bare(panel) => Bare(panel') BY <3>1 DEF Bare, Fields
    <3>3. panel'.devices = panel.devices /\ panel'.logsOf = panel.logsOf /\ panel'.logs = panel.logs BY <3>1 DEF Fields
    <3>4. AskedFirst' BY <1>4, <3>1, <3>3
    <3> QED BY <1>0, <1>3, <2>1, <3>1, <3>2, <3>3, <3>4 DEF PanelKnown
  <2> QED BY <2>2, <2>3
<1>10. CASE AsksAside /\ HeardState(m)
  <2>1. calls' = calls BY <1>10 DEF HeardState
  <2>2. /\ panel' \in Panels /\ \A f \in Fields \ (Inert \cup {"phase", "devices", "sel"}) : panel'[f] = panel[f]
        /\ panel'.devices /\ panel'.phase \in {"available", "pulling"}
    BY <1>10 DEF HeardState, ChangesOnly, Changes
  <2>3. Token(m) = <<"state", 0>> BY <1>10, TokensAre DEF HeardState
  <2>4. Carries(toPanel, <<"state", 0>>)
    <3>1. \E i \in 1 .. Len(toPanel) : m = toPanel[i]
      <4>1. toPanel # <<>> BY DEF HearStep
      <4>2. Len(toPanel) \in Nat \ {0} /\ Head(toPanel) = toPanel[1]
        BY <4>1, HeadTailProperties, EmptySeq DEF MainInv, QueueTypes
      <4> QED BY <4>2 DEF m, Incoming
    <3> QED BY <2>3, <3>1 DEF Carries
  <2>5. ~panel.devices BY <2>4 DEF PanelKnown, AskedFirst, Somewhere
  <2>6. ~panel.password BY <2>5 DEF PanelKnown, Bare
  <2>7. panel'.password = panel.password /\ panel'.logs = panel.logs /\ panel'.logsOf = panel.logsOf
    BY <2>2 DEF Fields, Inert
  <2>8. ~Somewhere(<<"state", 0>>)' BY <1>1, <1>10, <2>3 DEF Nothing
  <2>9. AskedFirst' BY <2>8 DEF AskedFirst
  <2> QED BY <1>0, <1>3, <2>1, <2>2, <2>6, <2>7, <2>9 DEF PanelKnown
<1>11. CASE AsksAside /\ (HeardNo(m) \/ HeardUnknown(m) \/ HeardPull(m))
  <2>1. m.call \in Clicks /\ CallEnds(m.call) /\ m.type \in {"encryption", "pull"}
    BY <1>11 DEF HeardNo, HeardUnknown, HeardPull
  <2>2. Token(m) = <<"call", m.call>> BY <2>1, TokensAre
  <2>3. FreeAreIdle' /\ (AllGone => AllGone') /\ calls' \in [Clicks -> Calls]
    BY <1>11, <2>1, <2>2, CallEnded DEF m, CallEnds
  <2>4. CASE ~Mine(m.call) BY <1>5, <1>11, <2>3, <2>4 DEF HeardNo, HeardUnknown, HeardPull
  <2>5. CASE Mine(m.call)
    <3>1. panel.devices BY <2>1, <2>5 DEF Mine, PanelKnown, AllGone
    <3>2. panel.phase # "unmounted" BY <3>1 DEF PanelKnown
    <3>3. /\ panel' \in Panels
          /\ \A f \in Fields \ (Inert \cup {"consent", "password", "cancelling", "phase"}) : panel'[f] = panel[f]
          /\ (panel'.phase = panel.phase \/ panel'.phase = "available")
          /\ (~panel'.password \/ panel'.password = panel.password)
      BY <1>11, <2>5 DEF HeardNo, HeardUnknown, HeardPull, ChangesOnly, Changes, Inert, Fields
    <3>4. panel'.devices /\ panel'.logs = panel.logs /\ panel'.logsOf = panel.logsOf /\ panel'.phase # "unmounted"
      BY <3>1, <3>2, <3>3 DEF Fields, Inert
    <3>5. AskedFirst' BY <1>4, <3>1, <3>4 DEF PanelKnown, Panels
    <3>6. panel'.phase = "pulling" => ~panel'.password BY <3>3 DEF PanelKnown
    <3> QED BY <2>3, <3>3, <3>4, <3>5, <3>6 DEF PanelKnown
  <2> QED BY <2>4, <2>5
<1>12. CASE AsksAside /\ HeardCopy(m)
  <2>1. calls' = calls BY <1>12 DEF HeardCopy
  <2>2. CASE ~panel.copying BY <1>0, <1>3, <1>5, <1>12, <2>1, <2>2 DEF HeardCopy
  <2>3. CASE panel.copying
    <3>1. /\ panel' \in Panels /\ \A f \in Fields \ {"logs", "logsOf", "copying"} : panel'[f] = panel[f]
          /\ panel'.logsOf = m.folder /\ m \in CopyAnswers
      BY <1>12, <2>3 DEF HeardCopy, ChangesOnly, Changes
    <3>2. Bare(panel) => Bare(panel') BY <3>1 DEF Bare, Fields
    <3>3. panel'.devices = panel.devices /\ panel'.logsOf # None /\ panel'.phase = panel.phase /\ panel'.password = panel.password
      BY <3>1 DEF Fields, CopyAnswers, Pulls, None
    <3>4. AskedFirst' BY <1>1, <3>3 DEF AskedFirst, PanelKnown, Nothing
    <3> QED BY <1>0, <1>3, <2>1, <3>1, <3>2, <3>3, <3>4 DEF PanelKnown
  <2> QED BY <2>2, <2>3
<1>13. CASE AsksAside /\ HeardAside(m)
  <2>1. /\ calls' \in [Clicks -> Calls]
        /\ \A c \in Clicks : calls'[c].stage = calls[c].stage /\ (calls'[c].owner = "gone" <=> calls[c].owner = "gone")
    BY <1>0, <1>13, CallsAre DEF HeardAside
  <2>2. FreeAreIdle' /\ (AllGone => AllGone') BY <1>1, <2>1 DEF FreeAreIdle, PanelKnown, AllGone, Nothing
  <2>3. /\ panel' \in Panels /\ \A f \in Fields \ (Inert \cup Results) : panel'[f] = panel[f]
    BY <1>13 DEF HeardAside, ChangesOnly, Changes
  <2>4. panel'.logs # "none" => panel'.logsOf # None
    BY <1>13 DEF HeardAside, ChangesOnly, Changes, NoResults, PanelKnown, Fields, Inert
  <2>5. Bare(panel) => Bare(panel') BY <2>3 DEF Bare, Fields, Inert, Results
  <2>6. panel'.devices = panel.devices /\ panel'.phase = panel.phase /\ panel'.password = panel.password
    BY <2>3 DEF Fields, Inert, Results
  <2>7. AskedFirst' BY <1>1, <2>6 DEF AskedFirst, PanelKnown, Nothing
  <2> QED BY <2>1, <2>2, <2>3, <2>4, <2>5, <2>6, <2>7 DEF PanelKnown
<1> QED BY <1>6, <1>7, <1>8, <1>9, <1>10, <1>11, <1>12, <1>13 DEF HearStep, HeardOf, m

PanelInv == MainInv /\ PanelKnown

\* What the main process does reaches the panel only as a message.
LEMMA MainLeavesPanel ==
  ASSUME PanelKnown, panel' = panel, calls' = calls,
         \A x : x # Nothing /\ Somewhere(x)' => Somewhere(x) \/ \E k : x = <<"done", k>>
  PROVE  PanelKnown'
<1>1. \A c \in Clicks : Somewhere(<<"call", c>>)' => Somewhere(<<"call", c>>) BY DEF Nothing
<1>2. Somewhere(<<"state", 0>>)' => Somewhere(<<"state", 0>>) BY DEF Nothing
<1>3. FreeAreIdle' BY <1>1 DEF PanelKnown, FreeAreIdle
<1>4. AskedFirst' BY <1>2 DEF PanelKnown, AskedFirst
<1> QED BY <1>3, <1>4 DEF PanelKnown, AllGone

\* Where nothing here is touched, be it that something else fails.
LEMMA PanelInvWaits ==
  ASSUME PanelInv, faults' \in 0 .. MaxFaults,
         UNCHANGED <<disk, known, encrypts, tracker, job, cancel, copy, del, toMain, toPanel, panelVars>>
  PROVE  PanelInv'
<1> USE DEF PanelInv, MainInv, panelVars
<1>1. MainTypes' BY DEF MainTypes
<1>2. DiskKnown' BY DEF DiskKnown, Folder, Here, IsRecorded
<1>3. CopyKnown' BY DEF CopyKnown, Copied
<1>4. QueueTypes' BY DEF QueueTypes
<1>5. \A x : (TokenOnce(x)' <=> TokenOnce(x)) /\ (Somewhere(x)' <=> Somewhere(x)) BY DEF TokenOnce, Somewhere, Holds
<1>6. \A k : (IsRecorded(k)' <=> IsRecorded(k)) /\ (CopyOf(k)' <=> CopyOf(k)) BY DEF IsRecorded, CopyOf
<1>7. \A m : (IsTrue(m)' <=> IsTrue(m)) /\ (IsSound(m)' <=> IsSound(m)) BY <1>6 DEF IsTrue, IsSound, IsDone
<1>8. ToldTruly' BY <1>6, <1>7 DEF ToldTruly
<1>9. ShownTruly' BY DEF ShownTruly, IsRecorded, CopyOf
<1>10. PanelKnown' BY <1>5, MainLeavesPanel DEF Nothing
<1> QED BY <1>1, <1>2, <1>3, <1>4, <1>5, <1>8, <1>9, <1>10 DEF Tokens

\* Every step keeps all this.
LEMMA PanelInvKept == ASSUME PanelInv, FinishedIsKept, [Next]_vars PROVE PanelInv'
<1> USE DEF PanelInv
<1>0. QueueTypes /\ MainTypes /\ panel \in Panels /\ calls \in [Clicks -> Calls] BY DEF MainInv, PanelKnown
<1>1. CASE Main
  <2>1. PullNext /\ panel' = panel /\ calls' = calls BY <1>1 DEF Main, panelVars
  <2> QED BY <2>1, MainGoesOn, MainLeavesPanel
<1>2. CASE Examiner
  <2>1. CASE Mount BY <2>1, MountGoesOn
  <2>2. CASE Unmount BY <2>2, UnmountGoesOn
  <2>3. CASE QuietClicks
    <3>1. Quietly BY <1>0, <2>3, EachQuietClick
    <3> QED BY <3>1, QuietMain, QuietPanel
  <2>4. ASSUME NEW c \in Clicks, ClickPull(c) \/ TurnOnClicked(c) PROVE PanelInv'
    <3>1. PullAsked(c) \/ PullStarted(c) BY <1>0, <2>4, EachClick
    <3> QED BY <3>1, CallGoesOn
  <2>5. CASE ClickCopyAgain
    <3>1. CopyAsked BY <1>0, <2>5, CopyClick DEF PanelKnown
    <3> QED BY <3>1, CopyGoesOn
  <2> QED BY <1>2, <2>1, <2>2, <2>3, <2>4, <2>5 DEF Examiner, QuietClicks
<1>3. CASE Hear
  <2>1. HearStep BY <1>0, <1>3, EachHearStep
  <2> QED BY <1>0, <2>1, HearMain, HearPanel
<1>4. CASE Killed BY <1>4, KilledGoesOn
<1>5. CASE UNCHANGED vars
  <2>1. UNCHANGED <<disk, known, encrypts, tracker, job, cancel, copy, del, toMain, toPanel, panelVars>>
        /\ faults' \in 0 .. MaxFaults
    BY <1>5 DEF vars, pullVars, mainVars, MainInv, MainTypes
  <2> QED BY <2>1, PanelInvWaits
<1> QED BY <1>1, <1>2, <1>3, <1>4, <1>5 DEF Next

\* The app starts with it.
LEMMA PanelInvFirst == Init => PanelInv
<1> SUFFICES ASSUME Init PROVE PanelInv OBVIOUS
<1>1. /\ disk = [k \in Pulls |-> Unused] /\ known = <<>> /\ encrypts \in BOOLEAN
      /\ tracker = NoPull /\ job = NoJob /\ cancel = "null" /\ copy = NoCopy /\ del = NoOp
      /\ toMain = <<>> /\ toPanel = <<>> /\ faults = 0
      /\ panel = Unmounted /\ calls = [c \in Clicks |-> NoCall]
  BY DEF Init, PullInit
<1>2. Unused \in PullFolders BY DEF Unused, PullFolders
<1>3. disk \in [Pulls -> PullFolders] BY <1>1, <1>2
<1>4. MainTypes
  <2>1. faults \in 0 .. MaxFaults BY <1>1, DevicePullAssumption
  <2>2. tracker \in Trackers /\ job \in Jobs /\ copy \in Copies /\ del \in Deletions
    BY <1>1 DEF NoPull, NoJob, NoCopy, NoOp, Trackers, Jobs, Copies, Deletions, None, JobPlaces, OpPlaces
  <2>3. tracker.folder = None /\ job.pc = "off" /\ copy.pc = "off" BY <1>1 DEF NoPull, NoJob, NoCopy
  <2>4. known \in Seq(Pulls) /\ Len(known) <= MaxDestinations BY <1>1, DevicePullAssumption
  <2> QED BY <1>1, <1>3, <2>1, <2>2, <2>3, <2>4 DEF MainTypes, InTry
<1>5. job.pc = "off" /\ copy.pc = "off" BY <1>1 DEF NoJob, NoCopy
<1>6. DiskKnown /\ CopyKnown BY <1>1, <1>5 DEF DiskKnown, CopyKnown, IsRecorded, Unused
<1>7. Len(toMain) = 0 /\ Len(toPanel) = 0 /\ ToSet(toMain) = {} /\ ToSet(toPanel) = {} BY <1>1 DEF ToSet
<1>8. QueueTypes BY <1>1 DEF QueueTypes
<1>9. \A x : ~Somewhere(x) /\ TokenOnce(x) BY <1>5, <1>7 DEF Somewhere, TokenOnce, Carries, CarriesOnce, Holds
<1>10. NoResults(panel) BY <1>1, MountedIs
<1>11. \A k : ~CopyOf(k) BY <1>5, <1>7 DEF CopyOf
<1>12. ToldTruly /\ ShownTruly BY <1>7, <1>10, <1>11 DEF ToldTruly, ShownTruly, NoResults
<1>13. MainInv BY <1>4, <1>6, <1>8, <1>9, <1>12 DEF MainInv, Tokens
<1>14. calls \in [Clicks -> Calls] /\ AllGone BY <1>1 DEF AllGone, Calls, NoCall
<1>15. panel \in Panels /\ panel.phase = "unmounted" /\ ~panel.devices /\ Bare(panel) BY <1>1, MountedIs DEF Bare
<1> QED BY <1>9, <1>10, <1>13, <1>14, <1>15 DEF PanelInv, PanelKnown, NoResults, AskedFirst, FreeAreIdle

\* What the panel shows as pulled, as copied and as typed.
LEMMA PanelShows == PanelInv => TypeOK /\ DoneIsTrue /\ LogsShownAreThere /\ PasswordGone
<1> SUFFICES ASSUME PanelInv PROVE TypeOK /\ DoneIsTrue /\ LogsShownAreThere /\ PasswordGone OBVIOUS
<1> USE DEF PanelInv, MainInv, PanelKnown
<1>1. PasswordGone BY DEF PasswordGone
<1>2. DoneIsTrue BY DEF DoneIsTrue, ShownTruly, IsRecorded, DiskKnown
<1>3. LogsShownAreThere
  <2>1. panel.logsOf # None /\ ~panel.copying =>
          Agrees(panel.logs = "copied", disk[panel.logsOf]) /\ panel.logsOf \in Pulls
    BY DEF ShownTruly, IsRecorded
  <2>2. \A k \in Pulls : disk[k].rec \in BOOLEAN /\ (disk[k].rec => disk[k].logs = "whole")
    BY DEF DiskKnown, MainTypes, PullFolders
  <2> QED BY <2>1, <2>2 DEF LogsShownAreThere, Agrees
<1>4. TypeOK
  <2>1. ToSet(known) \subseteq Pulls BY ToSetIs DEF MainTypes
  <2>2. PullTypeOK BY <2>1 DEF PullTypeOK, MainTypes, PullFolders, Trackers, Jobs, Copies, Deletions
  <2>3. PanelTypeOK BY DEF PanelTypeOK, Panels, Calls
  <2> QED BY <2>2, <2>3 DEF TypeOK
<1> QED BY <1>1, <1>2, <1>3, <1>4

-------------------------------------------------------------------------------
(* The order of what is asked and told.                                         *)

Later(q, i, S) == \E j \in i + 1 .. Len(q) : q[j] \in S
Earlier(q, i, S) == \E j \in 1 .. i - 1 : q[j] \in S
\* r is q and then messages, all of those in news.
Grows(q, r, news) ==
  /\ Len(q) <= Len(r) /\ \A i \in 1 .. Len(q) : r[i] = q[i]
  /\ \A i \in 1 .. Len(r) : i \in 1 .. Len(q) \/ r[i] \in news
  /\ \A S : \A i \in 0 .. Len(q) : Later(r, i, S) <=> Later(q, i, S) \/ news \cap S # {}
  /\ \A S : \A i \in 1 .. Len(q) : Earlier(r, i, S) <=> Earlier(q, i, S)

\* A queue without a message more.
LEMMA GrowsNone == ASSUME NEW T, NEW q \in Seq(T) PROVE Grows(q, q, {})
<1>1. Len(q) \in Nat OBVIOUS
<1> QED BY <1>1 DEF Grows

\* A queue with one message more.
LEMMA GrowsOne ==
  ASSUME NEW T, NEW q \in Seq(T), NEW a \in T
  PROVE  /\ Grows(q, q \o <<a>>, {a}) /\ q \o <<a>> \in Seq(T)
         /\ Len(q \o <<a>>) = Len(q) + 1 /\ (q \o <<a>>)[Len(q) + 1] = a
         /\ \A S : ~Later(q \o <<a>>, Len(q) + 1, S) /\ (Earlier(q \o <<a>>, Len(q) + 1, S) <=> Later(q, 0, S))
<1> DEFINE r == q \o <<a>>
<1>1. r \in Seq(T) /\ Len(q) \in Nat /\ Len(r) = Len(q) + 1 /\ r[Len(q) + 1] = a /\ \A i \in 1 .. Len(q) : r[i] = q[i]
  BY ConcatProperties
<1> HIDE DEF r
<1>2. \A i \in 1 .. Len(r) : i \in 1 .. Len(q) \/ i = Len(q) + 1 BY <1>1
<1>3. ASSUME NEW S, NEW i \in 0 .. Len(q) PROVE Later(r, i, S) <=> Later(q, i, S) \/ a \in S
  <2>1. ASSUME NEW j \in i + 1 .. Len(r), r[j] \in S PROVE Later(q, i, S) \/ a \in S
    <3>1. j \in i + 1 .. Len(q) \/ j = Len(q) + 1 BY <1>1
    <3>2. j \in i + 1 .. Len(q) => r[j] = q[j] BY <1>1
    <3> QED BY <1>1, <2>1, <3>1, <3>2 DEF Later
  <2>2. ASSUME NEW j \in i + 1 .. Len(q), q[j] \in S PROVE Later(r, i, S)
    <3>1. j \in i + 1 .. Len(r) /\ r[j] = q[j] BY <1>1
    <3> QED BY <2>2, <3>1 DEF Later
  <2>3. ASSUME a \in S PROVE Later(r, i, S)
    <3>1. Len(q) + 1 \in i + 1 .. Len(r) BY <1>1
    <3> QED BY <1>1, <2>3, <3>1 DEF Later
  <2> QED BY <2>1, <2>2, <2>3 DEF Later
<1>4. ASSUME NEW S, NEW i \in 1 .. Len(q) PROVE Earlier(r, i, S) <=> Earlier(q, i, S)
  <2>1. \A j \in 1 .. i - 1 : r[j] = q[j] BY <1>1
  <2> QED BY <2>1 DEF Earlier
<1>5. ASSUME NEW S PROVE ~Later(r, Len(q) + 1, S) /\ (Earlier(r, Len(q) + 1, S) <=> Later(q, 0, S))
  <2>1. Len(q) + 1 + 1 .. Len(r) = {} BY <1>1
  <2>2. 1 .. Len(q) + 1 - 1 = 1 .. Len(q) /\ 0 + 1 .. Len(q) = 1 .. Len(q) BY <1>1
  <2> QED BY <1>1, <2>1, <2>2 DEF Later, Earlier
<1>6. Grows(q, r, {a}) BY <1>1, <1>2, <1>3, <1>4 DEF Grows
<1> QED BY <1>1, <1>5, <1>6 DEF r

\* Messages more, and then more of them.
LEMMA GrowsMore ==
  ASSUME NEW q, NEW r, NEW s, NEW A, NEW B, Grows(q, r, A), Grows(r, s, B),
         Len(q) \in Nat, Len(r) \in Nat, Len(s) \in Nat
  PROVE  Grows(q, s, A \cup B)
<1>1. 1 .. Len(q) \subseteq 1 .. Len(r) /\ 0 .. Len(q) \subseteq 0 .. Len(r) BY DEF Grows
<1>2. Len(q) <= Len(s) /\ \A i \in 1 .. Len(q) : s[i] = q[i] BY <1>1 DEF Grows
<1>3. \A i \in 1 .. Len(s) : i \in 1 .. Len(q) \/ s[i] \in A \cup B BY <1>1 DEF Grows
<1>4. ASSUME NEW S, NEW i \in 0 .. Len(q) PROVE Later(s, i, S) <=> Later(q, i, S) \/ (A \cup B) \cap S # {}
  <2>1. Later(s, i, S) <=> Later(r, i, S) \/ B \cap S # {} BY <1>1 DEF Grows
  <2>2. Later(r, i, S) <=> Later(q, i, S) \/ A \cap S # {} BY DEF Grows
  <2> QED BY <2>1, <2>2
<1>5. ASSUME NEW S, NEW i \in 1 .. Len(q) PROVE Earlier(s, i, S) <=> Earlier(q, i, S)
  <2>1. Earlier(s, i, S) <=> Earlier(r, i, S) BY <1>1 DEF Grows
  <2>2. Earlier(r, i, S) <=> Earlier(q, i, S) BY DEF Grows
  <2> QED BY <2>1, <2>2
<1> QED BY <1>2, <1>3, <1>4, <1>5 DEF Grows

\* The oldest is gone.
LEMMA OrderOfTail ==
  ASSUME NEW T, NEW q \in Seq(T), q # <<>>
  PROVE  /\ Tail(q) \in Seq(T) /\ Len(q) \in Nat \ {0} /\ Len(Tail(q)) = Len(q) - 1 /\ Head(q) = q[1]
         /\ \A i \in 1 .. Len(Tail(q)) : i + 1 \in 1 .. Len(q) /\ Tail(q)[i] = q[i + 1]
         /\ \A S : \A i \in Nat : Later(Tail(q), i, S) <=> Later(q, i + 1, S)
         /\ \A S : Later(q, 0, S) <=> Head(q) \in S \/ Later(Tail(q), 0, S)
         /\ \A S : \A i \in 1 .. Len(Tail(q)) : Earlier(q, i + 1, S) <=> Head(q) \in S \/ Earlier(Tail(q), i, S)
<1> DEFINE t == Tail(q)
           h == Head(q)
<1>1. /\ t \in Seq(T) /\ Len(q) \in Nat \ {0} /\ Len(t) = Len(q) - 1 /\ h = q[1]
      /\ \A i \in 1 .. Len(t) : t[i] = q[i + 1]
  BY HeadTailProperties, EmptySeq
<1> HIDE DEF t, h
<1>2. \A i \in 1 .. Len(t) : i + 1 \in 1 .. Len(q) BY <1>1
<1>3. ASSUME NEW S, NEW i \in Nat PROVE Later(t, i, S) <=> Later(q, i + 1, S)
  <2>1. ASSUME NEW j \in i + 1 .. Len(t), t[j] \in S PROVE Later(q, i + 1, S)
    <3>1. j + 1 \in i + 1 + 1 .. Len(q) /\ t[j] = q[j + 1] BY <1>1
    <3> QED BY <2>1, <3>1 DEF Later
  <2>2. ASSUME NEW j \in i + 1 + 1 .. Len(q), q[j] \in S PROVE Later(t, i, S)
    <3>1. j - 1 \in i + 1 .. Len(t) /\ j - 1 + 1 = j BY <1>1
    <3>2. t[j - 1] = q[j] BY <1>1, <3>1
    <3> QED BY <2>2, <3>1, <3>2 DEF Later
  <2> QED BY <2>1, <2>2 DEF Later
<1>4. ASSUME NEW S PROVE Later(q, 0, S) <=> h \in S \/ Later(t, 0, S)
  <2>1. Later(t, 0, S) <=> Later(q, 1, S) BY <1>3
  <2>2. 0 + 1 .. Len(q) = {1} \cup (1 + 1 .. Len(q)) BY <1>1
  <2> QED BY <1>1, <2>1, <2>2 DEF Later
<1>5. ASSUME NEW S, NEW i \in 1 .. Len(t) PROVE Earlier(q, i + 1, S) <=> h \in S \/ Earlier(t, i, S)
  <2>1. ASSUME NEW j \in 1 .. i + 1 - 1, q[j] \in S PROVE h \in S \/ Earlier(t, i, S)
    <3>1. CASE j = 1 BY <1>1, <2>1, <3>1
    <3>2. CASE j # 1
      <4>1. j - 1 \in 1 .. i - 1 /\ j - 1 \in 1 .. Len(t) /\ j - 1 + 1 = j BY <1>1, <3>2
      <4>2. t[j - 1] = q[j] BY <1>1, <4>1
      <4> QED BY <2>1, <4>1, <4>2 DEF Earlier
    <3> QED BY <3>1, <3>2
  <2>2. ASSUME h \in S PROVE Earlier(q, i + 1, S)
    <3>1. 1 \in 1 .. i + 1 - 1 BY <1>1
    <3> QED BY <1>1, <2>2, <3>1 DEF Earlier
  <2>3. ASSUME NEW j \in 1 .. i - 1, t[j] \in S PROVE Earlier(q, i + 1, S)
    <3>1. j + 1 \in 1 .. i + 1 - 1 /\ t[j] = q[j + 1] BY <1>1
    <3> QED BY <2>3, <3>1 DEF Earlier
  <2> QED BY <2>1, <2>2, <2>3 DEF Earlier
<1> QED BY <1>1, <1>2, <1>3, <1>4, <1>5 DEF t, h

-------------------------------------------------------------------------------
(* That a pull shown as running is told of its end.                             *)

Endings == Errors \cup Dones
\* What makes a panel ready for another pull.
FreesIt == Errors \cup {m \in Messages : m.type = "pull"}
PullRequests == {r \in Requests : r.type = "pull"}

\* An end is still to come: of the pull under way, of one told to the panel, or of
\* one asked for; the exception is a pull without a folder.
Unended == Running /\ ~tracker.ended
DueRest == Unended \/ job.outcome = "no_folder" \/ (~Running /\ Later(toMain, 0, PullRequests))
DueAfter(i) == DueRest \/ Later(toPanel, i, Endings)
\* No pull under way or asked for, on a device that does not encrypt; and nothing on
\* its way that lets the examiner type the password again.
Still == ~Running /\ ~Later(toMain, 0, PullRequests) /\ ~encrypts
CalmAfter(i) == Still /\ ~Later(toPanel, i, FreesIt)
Shut == ~panel.password /\ panel.phase # "available"

Says(m, v) == m.type = "encryption" /\ m.ok /\ m.value = v
ToldDue(m, i) ==
  /\ m.type = "state" /\ m.value.folder # None /\ ~m.value.ended => DueAfter(i)
  /\ m.type = "encryption" /\ m.ok => m.value \in BOOLEAN
  /\ Says(m, TRUE) => encrypts /\ (Mine(m.call) /\ Running /\ tracker.ended => Later(toPanel, i, Endings))
  /\ Says(m, FALSE) /\ Mine(m.call) => CalmAfter(i) \/ (Shut /\ ~Earlier(toPanel, i, FreesIt))
AskedDue(m, k) ==
  m.type = "encryption" /\ Mine(m.call) =>
    \/ encrypts
    \/ ~Later(toMain, k, PullRequests)
    \/ ~Running /\ ~Earlier(toMain, k, PullRequests) /\ Shut /\ ~Later(toPanel, 0, FreesIt)
AllToldDue == \A m : \A i \in 1 .. Len(toPanel) : m = toPanel[i] => ToldDue(m, i)
AllAskedDue == \A m : \A k \in 1 .. Len(toMain) : m = toMain[k] => AskedDue(m, k)
ShownDue == panel.phase = "pulling" \/ panel.cancelling => DueAfter(0)
ConsentDue == panel.consent /\ panel.password => CalmAfter(0)
EndIsDue == ShownDue /\ AllToldDue /\ AllAskedDue /\ ConsentDue

\* With nothing under way and nothing on its way, no end is still to come.
LEMMA LetsGo == ASSUME PanelInv, EndIsDue PROVE PanelLetsGo
<1> SUFFICES ASSUME ~Running, Delivered, job.outcome # "no_folder" PROVE ~panel.cancelling /\ panel.phase # "pulling"
  BY DEF PanelLetsGo
<1>1. 0 + 1 .. Len(toMain) = {} /\ 0 + 1 .. Len(toPanel) = {} BY DEF Delivered
<1>2. ~DueAfter(0) BY <1>1 DEF DueAfter, DueRest, Unended, Later
<1> QED BY <1>2 DEF EndIsDue, ShownDue

\* What is told comes last.
LEMMA TellGrows ==
  ASSUME QueueTypes
  PROVE  /\ toPanel' = toPanel => Grows(toPanel, toPanel', {})
         /\ \A a \in Messages : Tell(<<a>>) => Grows(toPanel, toPanel', {a})
         /\ \A a, b \in Messages : Tell(<<a, b>>) => Grows(toPanel, toPanel', {a, b})
<1>1. toPanel' = toPanel => Grows(toPanel, toPanel', {}) BY GrowsNone DEF QueueTypes
<1>2. ASSUME NEW a \in Messages, Tell(<<a>>) PROVE Grows(toPanel, toPanel', {a})
  BY <1>2, GrowsOne DEF QueueTypes, Tell
<1>3. ASSUME NEW a \in Messages, NEW b \in Messages, Tell(<<a, b>>) PROVE Grows(toPanel, toPanel', {a, b})
  <2> DEFINE q == toPanel \o <<a>>
  <2>1. q \in Seq(Messages) /\ Grows(toPanel, q, {a}) BY GrowsOne DEF QueueTypes
  <2>2. toPanel' = q \o <<b>>
    <3>1. toPanel \in Seq(Messages) /\ <<a>> \in Seq(Messages) /\ <<b>> \in Seq(Messages) BY DEF QueueTypes
    <3>2. q \o <<b>> = toPanel \o (<<a>> \o <<b>>) BY <3>1, ConcatAssociative
    <3> QED BY <1>3, <3>2, ToldTogether DEF Tell
  <2> HIDE DEF q
  <2>3. toPanel' \in Seq(Messages) /\ Grows(q, toPanel', {b}) BY <2>1, <2>2, GrowsOne
  <2>4. Len(toPanel) \in Nat /\ Len(q) \in Nat /\ Len(toPanel') \in Nat BY <2>1, <2>3 DEF QueueTypes
  <2>5. Grows(toPanel, toPanel', {a} \cup {b}) BY <2>1, <2>3, <2>4, GrowsMore
  <2> QED BY <2>5
<1> QED BY <1>1, <1>2, <1>3

\* The pull under way goes on, or ends and says so.
LEMMA RunningDue ==
  ASSUME QueueTypes, EndIsDue, NEW news, Grows(toPanel, toPanel', news), toMain' = toMain, panel' = panel, calls' = calls,
         encrypts => encrypts', Running, job.outcome # "no_folder",
         \A m \in news : m.type \notin {"state", "encryption"},
         ~tracker.ended => Unended' \/ job'.outcome = "no_folder" \/ news \cap Endings # {},
         Running' /\ tracker'.ended => tracker.ended \/ news \cap Endings # {}
  PROVE  EndIsDue'
<1>0. Len(toPanel) \in Nat BY DEF QueueTypes
<1>1. ASSUME NEW i \in 0 .. Len(toPanel), DueAfter(i) PROVE DueAfter(i)'
  <2>1. ~tracker.ended \/ Later(toPanel, i, Endings) BY <1>1 DEF DueAfter, DueRest, Unended
  <2>2. Later(toPanel', i, Endings) <=> Later(toPanel, i, Endings) \/ news \cap Endings # {} BY DEF Grows
  <2> QED BY <2>1, <2>2 DEF DueAfter, DueRest
<1>2. ShownDue' BY <1>0, <1>1 DEF EndIsDue, ShownDue
<1>3. AllAskedDue'
  <2> SUFFICES ASSUME NEW m, NEW k \in 1 .. Len(toMain'), m = toMain'[k] PROVE AskedDue(m, k)' BY DEF AllAskedDue
  <2>1. AskedDue(m, k) BY DEF EndIsDue, AllAskedDue
  <2> QED BY <2>1 DEF AskedDue, Mine
<1>4. ~(panel.consent /\ panel.password) BY DEF EndIsDue, ConsentDue, CalmAfter, Still
<1>5. ConsentDue' BY <1>4 DEF ConsentDue
<1>6. AllToldDue'
  <2> SUFFICES ASSUME NEW m, NEW i \in 1 .. Len(toPanel'), m = toPanel'[i] PROVE ToldDue(m, i)' BY DEF AllToldDue
  <2>2. CASE i \in 1 .. Len(toPanel)
    <3>1. m = toPanel[i] BY <2>2 DEF Grows
    <3>2. ToldDue(m, i) BY <2>2, <3>1 DEF EndIsDue, AllToldDue
    <3>3. i \in 0 .. Len(toPanel) BY <1>0, <2>2
    <3>4. Later(toPanel', i, Endings) <=> Later(toPanel, i, Endings) \/ news \cap Endings # {} BY <3>3 DEF Grows
    <3>5. Earlier(toPanel', i, FreesIt) <=> Earlier(toPanel, i, FreesIt) BY <2>2 DEF Grows
    <3>6. Says(m, TRUE) => encrypts' /\ (Mine(m.call)' /\ Running' /\ tracker'.ended => Later(toPanel', i, Endings))
      BY <3>2, <3>4 DEF ToldDue, Mine
    <3>7. Says(m, FALSE) /\ Mine(m.call)' => Shut' /\ ~Earlier(toPanel', i, FreesIt)
      BY <3>2, <3>5 DEF ToldDue, CalmAfter, Still, Mine, Shut
    <3>8. m.type = "state" /\ m.value.folder # None /\ ~m.value.ended => DueAfter(i)'
      BY <1>1, <3>2, <3>3 DEF ToldDue
    <3>9. m.type = "encryption" /\ m.ok => m.value \in BOOLEAN BY <3>2 DEF ToldDue
    <3> QED BY <3>6, <3>7, <3>8, <3>9 DEF ToldDue, Says
  <2>3. CASE i \notin 1 .. Len(toPanel)
    <3>1. m.type \notin {"state", "encryption"} BY <2>3 DEF Grows
    <3> QED BY <3>1 DEF ToldDue, Says
  <2> QED BY <2>2, <2>3
<1> QED BY <1>2, <1>3, <1>5, <1>6 DEF EndIsDue

\* Every step of the pull keeps its end due until it is told.
LEMMA PullDue ==
  ASSUME QueueTypes, MainTypes, EndIsDue, PullStep, panel' = panel, calls' = calls PROVE EndIsDue'
<1>1. /\ job.pc # "off" /\ job.call \in Clicks /\ Here \in Pulls /\ Folder.rec \in BOOLEAN /\ toMain' = toMain
      /\ (encrypts => encrypts') /\ job.outcome # "no_folder" /\ Running
  BY MainTypesAre DEF MainTypes, PullFolders, PullStep, PullGoesOn, PullEnds, Running
<1>2. /\ Event("stats") \in Messages /\ Event("error") \in Messages /\ DoneEvent \in Messages
      /\ \A ok \in BOOLEAN : PullAnswer(ok) \in Messages
  BY <1>1, AnswersAreMessages DEF PullAnswer, DoneEvent
<1>3. /\ Event("stats").type = "event" /\ Event("error").type = "event" /\ DoneEvent.type = "event"
      /\ \A ok \in BOOLEAN : PullAnswer(ok).type = "pull"
  BY DEF Event, DoneEvent, PullAnswer
<1>4. Event("error") \in Endings /\ DoneEvent \in Endings
  <2>1. Event("error") \in Errors BY DEF Event, Errors
  <2>2. DoneEvent \in Dones BY <1>1 DEF DoneEvent, Dones
  <2> QED BY <2>1, <2>2 DEF Endings
<1>5. CASE PullGoesOn
  <2>1. Running' /\ MainTypes' BY <1>1, <1>5 DEF PullGoesOn, Running, PullStep, Here
  <2>2. CASE tracker'.ended = tracker.ended /\ toPanel' = toPanel
    <3>1. Grows(toPanel, toPanel', {}) BY <2>2, TellGrows
    <3> QED BY <1>1, <2>1, <2>2, <3>1, RunningDue DEF Unended
  <2>3. CASE tracker'.ended = tracker.ended /\ Tell(<<Event("stats")>>)
    <3>1. PICK a \in Messages : a = Event("stats") BY <1>2
    <3>2. Grows(toPanel, toPanel', {a}) BY <2>3, <3>1, TellGrows
    <3> QED BY <1>1, <1>3, <2>1, <2>3, <3>1, <3>2, RunningDue DEF Unended
  <2>4. CASE tracker'.ended /\ Tell(<<Event("error")>>)
    <3>1. PICK a \in Messages : a = Event("error") BY <1>2
    <3>2. Grows(toPanel, toPanel', {a}) BY <2>4, <3>1, TellGrows
    <3>3. {a} \cap Endings # {} BY <1>4, <3>1
    <3> QED BY <1>1, <1>3, <2>1, <2>4, <3>1, <3>2, <3>3, RunningDue
  <2> QED BY <1>5, <2>2, <2>3, <2>4 DEF PullGoesOn
<1>6. CASE PullEnds
  <2>1. ~Running' BY <1>6 DEF PullEnds, Running, Here
  <2>2. PICK no, yes \in Messages : no = PullAnswer(FALSE) /\ yes = PullAnswer(TRUE) BY <1>2
  <2>3. no.type = "pull" /\ yes.type = "pull" BY <1>3, <2>2
  <2>4. CASE job'.outcome = "no_folder" /\ Tell(<<PullAnswer(FALSE)>>)
    <3>1. Grows(toPanel, toPanel', {no}) BY <2>2, <2>4, TellGrows
    <3> QED BY <1>1, <2>1, <2>3, <2>4, <3>1, RunningDue
  <2>5. CASE Tell(<<DoneEvent, PullAnswer(TRUE)>>)
    <3>1. PICK a \in Messages : a = DoneEvent BY <1>2
    <3>2. Grows(toPanel, toPanel', {a, yes}) BY <2>2, <2>5, <3>1, TellGrows
    <3>3. {a, yes} \cap Endings # {} BY <1>4, <3>1
    <3> QED BY <1>1, <1>3, <2>1, <2>3, <3>1, <3>2, <3>3, RunningDue
  <2>6. CASE Tell(<<Event("error"), PullAnswer(FALSE)>>)
    <3>1. PICK a \in Messages : a = Event("error") BY <1>2
    <3>2. Grows(toPanel, toPanel', {a, no}) BY <2>2, <2>6, <3>1, TellGrows
    <3>3. {a, no} \cap Endings # {} BY <1>4, <3>1
    <3> QED BY <1>1, <1>3, <2>1, <2>3, <3>1, <3>2, <3>3, RunningDue
  <2>7. CASE tracker.ended /\ Tell(<<PullAnswer(FALSE)>>)
    <3>1. Grows(toPanel, toPanel', {no}) BY <2>2, <2>7, TellGrows
    <3> QED BY <1>1, <2>1, <2>3, <2>7, <3>1, RunningDue
  <2> QED BY <1>6, <2>4, <2>5, <2>6, <2>7 DEF PullEnds
<1> QED BY <1>5, <1>6 DEF PullStep

\* A request is answered, or put aside.
LEMMA AnsweredDue ==
  ASSUME QueueTypes, EndIsDue, NEW news, Grows(toPanel, toPanel', news), panel' = panel, calls' = calls,
         UNCHANGED <<tracker, job, encrypts>>,
         toMain' = toMain \/ (toMain # <<>> /\ toMain' = Tail(toMain) /\ (Asking \in PullRequests => Running)),
         news \cap FreesIt # {} => Running,
         \A m : \A i \in 1 .. Len(toPanel') : m = toPanel'[i] => i \in 1 .. Len(toPanel) \/ ToldDue(m, i)'
  PROVE  EndIsDue'
<1>0. Len(toPanel) \in Nat BY DEF QueueTypes
<1>1. ~Running => (Later(toMain', 0, PullRequests) <=> Later(toMain, 0, PullRequests))
  <2>1. CASE toMain' = toMain BY <2>1
  <2>2. CASE toMain' # toMain
    <3>1. toMain # <<>> /\ toMain' = Tail(toMain) /\ (Asking \in PullRequests => Running) BY <2>2
    <3>2. \A S : Later(toMain, 0, S) <=> Asking \in S \/ Later(toMain', 0, S)
      BY <3>1, OrderOfTail DEF QueueTypes, Asking
    <3> QED BY <3>1, <3>2
  <2> QED BY <2>1, <2>2
<1>2. Running' <=> Running BY DEF Running
<1>3. DueRest' <=> DueRest BY <1>1, <1>2 DEF DueRest, Unended
<1>4. Still' <=> Still BY <1>1, <1>2 DEF Still
<1>5. ASSUME NEW i \in 0 .. Len(toPanel) PROVE (DueAfter(i) => DueAfter(i)') /\ (CalmAfter(i) => CalmAfter(i)')
  <2>1. Later(toPanel', i, Endings) <=> Later(toPanel, i, Endings) \/ news \cap Endings # {} BY DEF Grows
  <2>2. Later(toPanel', i, FreesIt) <=> Later(toPanel, i, FreesIt) \/ news \cap FreesIt # {} BY DEF Grows
  <2> QED BY <1>3, <1>4, <2>1, <2>2 DEF DueAfter, CalmAfter, Still
<1>6. ShownDue' BY <1>0, <1>5 DEF EndIsDue, ShownDue
<1>7. ConsentDue' BY <1>0, <1>5 DEF EndIsDue, ConsentDue
<1>8. ASSUME NEW k \in Nat, NEW m, AskedDue(m, k), NEW n \in Nat,
             Later(toMain', n, PullRequests) => Later(toMain, k, PullRequests),
             ~Running /\ Earlier(toMain', n, PullRequests) => Earlier(toMain, k, PullRequests)
      PROVE  AskedDue(m, n)'
  <2>1. 0 \in 0 .. Len(toPanel) BY <1>0
  <2>2. Later(toPanel', 0, FreesIt) <=> Later(toPanel, 0, FreesIt) \/ news \cap FreesIt # {} BY <2>1 DEF Grows
  <2> QED BY <1>2, <1>8, <2>2 DEF AskedDue, Mine, Shut
<1>9. AllAskedDue'
  <2> SUFFICES ASSUME NEW m, NEW k \in 1 .. Len(toMain'), m = toMain'[k] PROVE AskedDue(m, k)' BY DEF AllAskedDue
  <2>1. CASE toMain' = toMain
    <3>1. AskedDue(m, k) /\ k \in Nat BY <2>1 DEF EndIsDue, AllAskedDue
    <3> QED BY <1>8, <2>1, <3>1
  <2>2. CASE toMain' # toMain
    <3>1. toMain # <<>> /\ toMain' = Tail(toMain) /\ (Asking \in PullRequests => Running) BY <2>2
    <3>2. k + 1 \in 1 .. Len(toMain) /\ m = toMain[k + 1] BY <3>1, OrderOfTail DEF QueueTypes
    <3>3. /\ \A S : \A i \in Nat : Later(toMain', i, S) <=> Later(toMain, i + 1, S)
          /\ \A S : Earlier(toMain, k + 1, S) <=> Asking \in S \/ Earlier(toMain', k, S)
      BY <3>1, OrderOfTail DEF QueueTypes, Asking
    <3>4. AskedDue(m, k + 1) /\ k \in Nat /\ k + 1 \in Nat BY <3>2 DEF EndIsDue, AllAskedDue
    <3> QED BY <1>8, <3>3, <3>4
  <2> QED BY <2>1, <2>2
<1>10. AllToldDue'
  <2> SUFFICES ASSUME NEW m, NEW i \in 1 .. Len(toPanel'), m = toPanel'[i], i \in 1 .. Len(toPanel)
               PROVE  ToldDue(m, i)'
    BY DEF AllToldDue
  <2>2. toPanel[i] = m /\ i \in 0 .. Len(toPanel) BY <1>0 DEF Grows
  <2>3. ToldDue(m, i) BY <2>2 DEF EndIsDue, AllToldDue
  <2>4. Later(toPanel', i, Endings) <=> Later(toPanel, i, Endings) \/ news \cap Endings # {} BY <2>2 DEF Grows
  <2>5. Earlier(toPanel', i, FreesIt) <=> Earlier(toPanel, i, FreesIt) BY DEF Grows
  <2> QED BY <1>2, <1>5, <2>2, <2>3, <2>4, <2>5 DEF ToldDue, Says, Mine, Shut
<1> QED BY <1>6, <1>7, <1>9, <1>10 DEF EndIsDue

\* The oldest request.
LEMMA AskingIs ==
  ASSUME QueueTypes, toMain # <<>>
  PROVE  /\ Asking \in Requests /\ 1 \in 1 .. Len(toMain) /\ Asking = toMain[1]
         /\ Asking.type \in {"pull", "encryption", "cancel", "state", "list", "delete", "copy"}
<1>1. Len(toMain) \in Nat \ {0} /\ Asking = toMain[1] BY HeadTailProperties, EmptySeq DEF QueueTypes, Asking
<1>2. 1 \in 1 .. Len(toMain) BY <1>1
<1>3. Asking \in Requests BY <1>1, <1>2 DEF QueueTypes
<1>4. Asking.type \in {"pull", "encryption", "cancel", "state", "list", "delete", "copy"}
  BY <1>3 DEF Requests, RequestsOf
<1> QED BY <1>1, <1>2, <1>3, <1>4

\* What is answered at once is answered of the moment.
LEMMA AnswerDue ==
  ASSUME QueueTypes, MainTypes, EndIsDue, toMain # <<>>, toMain' = Tail(toMain), IsAnswered,
         panel' = panel, calls' = calls
  PROVE  EndIsDue'
<1>0. UNCHANGED <<tracker, job, encrypts>> /\ (Running' <=> Running) BY DEF IsAnswered, Running
<1>1. PICK a \in Messages :
        /\ Tell(<<a>>) /\ a.type = Asking.type
        /\ a.type \in {"pull", "encryption"} => a.call = Asking.call /\ (Running => ~a.ok)
        /\ a.type = "pull" => Running
        /\ a.type = "encryption" => (a.ok => a.value = encrypts)
        /\ a.type = "state" => a.value = tracker
  BY DEF IsAnswered
<1>2. Grows(toPanel, toPanel', {a}) BY <1>1, TellGrows
<1>3. /\ Len(toPanel) \in Nat /\ Len(toPanel') = Len(toPanel) + 1 /\ toPanel'[Len(toPanel) + 1] = a
      /\ \A S : /\ ~Later(toPanel', Len(toPanel) + 1, S)
                /\ Earlier(toPanel', Len(toPanel) + 1, S) <=> Later(toPanel, 0, S)
  <2>1. toPanel \in Seq(Messages) /\ toPanel' = toPanel \o <<a>> /\ Len(toPanel) \in Nat BY <1>1 DEF QueueTypes, Tell
  <2>2. toPanel' \in Seq(Messages) BY <2>1
  <2>3. \A S : /\ ~Later(toPanel', Len(toPanel) + 1, S)
               /\ Earlier(toPanel', Len(toPanel) + 1, S) <=> Later(toPanel, 0, S)
    BY <2>1, GrowsOne
  <2>4. Len(toPanel') = Len(toPanel) + 1 /\ toPanel'[Len(toPanel) + 1] = a BY <2>1, GrowsOne
  <2> QED BY <2>1, <2>3, <2>4
<1>4. Asking.type # "event" /\ Asking = toMain[1] /\ 1 \in 1 .. Len(toMain) BY AskingIs
<1>5. Asking \in PullRequests => Running BY <1>1 DEF PullRequests
<1>6. {a} \cap FreesIt # {} => Running BY <1>1, <1>4 DEF FreesIt, Errors
<1>7. PICK n \in Nat : n = Len(toPanel) + 1 BY <1>3
<1>8. encrypts \in BOOLEAN BY DEF MainTypes
<1>9. ToldDue(a, n)'
  <2>1. a.type = "state" /\ a.value.folder # None /\ ~a.value.ended => DueAfter(n)'
    BY <1>0, <1>1 DEF DueAfter, DueRest, Unended, Running
  <2>2. a.type = "encryption" /\ a.ok => a.value \in BOOLEAN BY <1>1, <1>8
  <2>3. Says(a, TRUE) => encrypts' /\ (Mine(a.call)' /\ Running' /\ tracker'.ended => Later(toPanel', n, Endings))
    BY <1>0, <1>1 DEF Says
  <2>4. ASSUME Says(a, FALSE), Mine(a.call)' PROVE CalmAfter(n)' \/ (Shut' /\ ~Earlier(toPanel', n, FreesIt))
    <3>1. ~Running' /\ ~encrypts' /\ Asking.type = "encryption" /\ Mine(Asking.call)
      BY <1>0, <1>1, <2>4 DEF Says, Mine
    <3>2. AskedDue(Asking, 1) BY <1>4 DEF EndIsDue, AllAskedDue
    <3>3. ~Later(toMain, 1, PullRequests) \/ (Shut /\ ~Later(toPanel, 0, FreesIt)) BY <1>0, <3>1, <3>2 DEF AskedDue
    <3>4. CASE ~Later(toMain, 1, PullRequests)
      <4>1. Later(toMain', 0, PullRequests) <=> Later(toMain, 0 + 1, PullRequests) BY OrderOfTail DEF QueueTypes
      <4> QED BY <1>3, <1>7, <3>1, <3>4, <4>1 DEF CalmAfter, Still
    <3>5. CASE Shut /\ ~Later(toPanel, 0, FreesIt) BY <1>3, <1>7, <3>5 DEF Shut
    <3> QED BY <3>3, <3>4, <3>5
  <2> QED BY <2>1, <2>2, <2>3, <2>4 DEF ToldDue, Says
<1>10. \A m : \A i \in 1 .. Len(toPanel') : m = toPanel'[i] => i \in 1 .. Len(toPanel) \/ ToldDue(m, i)'
  <2> SUFFICES ASSUME NEW m, NEW i \in 1 .. Len(toPanel'), m = toPanel'[i], i \notin 1 .. Len(toPanel)
               PROVE  ToldDue(m, i)'
    OBVIOUS
  <2>1. i = n /\ m = a BY <1>3, <1>7
  <2> QED BY <1>9, <2>1
<1> QED BY <1>0, <1>2, <1>5, <1>6, <1>10, AnsweredDue

\* Once a pull has begun, its end is still to come.
LEMMA BegunDue ==
  ASSUME QueueTypes, EndIsDue, toMain # <<>>, toMain' = Tail(toMain), PullBegins, panel' = panel, calls' = calls
  PROVE  EndIsDue'
<1>1. PICK k \in Fresh : tracker' = [NoPull EXCEPT !.folder = k] BY DEF PullBegins
<1>2. tracker'.folder = k /\ ~tracker'.ended /\ k # None BY <1>1 DEF NoPull, Fresh, Pulls, None
<1>3. Running' /\ ~Running /\ \A i : DueAfter(i)' BY <1>2 DEF PullBegins, Running, DueAfter, DueRest, Unended
<1>4. toPanel' = toPanel /\ encrypts' = encrypts BY DEF PullBegins
<1>5. Asking \in PullRequests /\ Asking = toMain[1] BY AskingIs DEF PullBegins, PullRequests
<1>6. /\ \A S : Later(toMain, 0, S) <=> Asking \in S \/ Later(toMain', 0, S)
      /\ \A S : \A i \in Nat : Later(toMain', i, S) <=> Later(toMain, i + 1, S)
      /\ \A S : \A i \in 1 .. Len(toMain') : Earlier(toMain, i + 1, S) <=> Asking \in S \/ Earlier(toMain', i, S)
      /\ \A i \in 1 .. Len(toMain') : i + 1 \in 1 .. Len(toMain) /\ toMain'[i] = toMain[i + 1]
  BY OrderOfTail DEF QueueTypes, Asking
<1>7. \A i : ~CalmAfter(i) BY <1>5, <1>6 DEF CalmAfter, Still
<1>8. ShownDue' BY <1>3 DEF ShownDue
<1>9. ConsentDue' BY <1>7 DEF EndIsDue, ConsentDue
<1>10. AllAskedDue'
  <2> SUFFICES ASSUME NEW m, NEW k2 \in 1 .. Len(toMain'), m = toMain'[k2] PROVE AskedDue(m, k2)' BY DEF AllAskedDue
  <2>1. AskedDue(m, k2 + 1) BY <1>6 DEF EndIsDue, AllAskedDue
  <2>2. Earlier(toMain, k2 + 1, PullRequests) BY <1>5, <1>6
  <2>3. Later(toMain', k2, PullRequests) <=> Later(toMain, k2 + 1, PullRequests) BY <1>6
  <2> QED BY <1>4, <2>1, <2>2, <2>3 DEF AskedDue, Mine
<1>11. AllToldDue'
  <2> SUFFICES ASSUME NEW m, NEW i \in 1 .. Len(toPanel'), m = toPanel'[i] PROVE ToldDue(m, i)' BY DEF AllToldDue
  <2>1. ToldDue(m, i) BY <1>4 DEF EndIsDue, AllToldDue
  <2> QED BY <1>2, <1>3, <1>4, <1>7, <2>1 DEF ToldDue, Says, Mine, Shut
<1> QED BY <1>8, <1>9, <1>10, <1>11 DEF EndIsDue

\* So does every handler.
LEMMA HandleDue ==
  ASSUME QueueTypes, MainTypes, EndIsDue, HandleStep, panel' = panel, calls' = calls PROVE EndIsDue'
<1>1. toMain # <<>> /\ toMain' = Tail(toMain) BY DEF HandleStep
<1>2. CASE IsAnswered BY <1>1, <1>2, AnswerDue
<1>3. CASE PullBegins BY <1>1, <1>3, BegunDue
<1>4. CASE DeletionBegins \/ CopyBegins
  <2>1. UNCHANGED <<tracker, job, encrypts>> /\ toPanel' = toPanel /\ Asking \notin PullRequests
    BY <1>4 DEF DeletionBegins, CopyBegins, PullRequests
  <2>2. Grows(toPanel, toPanel', {}) BY <2>1, TellGrows
  <2>3. \A m : \A i \in 1 .. Len(toPanel') : m = toPanel'[i] => i \in 1 .. Len(toPanel) \/ ToldDue(m, i)' BY <2>1
  <2> QED BY <1>1, <2>1, <2>2, <2>3, AnsweredDue
<1> QED BY <1>2, <1>3, <1>4 DEF HandleStep

\* Copies and deletions say nothing of a pull.
LEMMA OtherTold ==
  ASSUME QueueTypes, EndIsDue, UNCHANGED <<tracker, job, encrypts, toMain>>, panel' = panel, calls' = calls,
         NEW a \in Messages, a.type \in {"copy", "delete"}, Tell(<<a>>)
  PROVE  EndIsDue'
<1>1. Grows(toPanel, toPanel', {a}) BY TellGrows
<1>2. {a} \cap FreesIt = {} BY DEF FreesIt, Errors
<1>3. \A m : \A i \in 1 .. Len(toPanel') : m = toPanel'[i] => i \in 1 .. Len(toPanel) \/ ToldDue(m, i)'
  <2> SUFFICES ASSUME NEW m, NEW i \in 1 .. Len(toPanel'), m = toPanel'[i], i \notin 1 .. Len(toPanel)
               PROVE  ToldDue(m, i)'
    OBVIOUS
  <2>1. m = a BY <1>1 DEF Grows
  <2> QED BY <2>1 DEF ToldDue, Says
<1> QED BY <1>1, <1>2, <1>3, AnsweredDue

\* Where nothing here is touched.
LEMMA NoneToldDue ==
  ASSUME QueueTypes, EndIsDue, UNCHANGED <<tracker, job, encrypts, toMain, toPanel>>, panel' = panel, calls' = calls
  PROVE  EndIsDue'
<1>1. Grows(toPanel, toPanel', {}) BY TellGrows
<1>2. \A m : \A i \in 1 .. Len(toPanel') : m = toPanel'[i] => i \in 1 .. Len(toPanel) \/ ToldDue(m, i)' OBVIOUS
<1> QED BY <1>1, <1>2, AnsweredDue

\* So does every step of a copy or a deletion.
LEMMA OthersDue ==
  ASSUME QueueTypes, MainTypes, EndIsDue, CopyStep \/ DeleteStep, panel' = panel, calls' = calls PROVE EndIsDue'
<1>1. UNCHANGED <<tracker, job, encrypts, toMain>> BY DEF CopyStep, DeleteStep
<1>2. CASE toPanel' = toPanel BY <1>1, <1>2, NoneToldDue
<1>3. CASE CopyStep /\ toPanel' # toPanel
  <2>1. PICK v \in {"copied", "failed"} : Tell(<<CopyAnswer(v, copy.folder)>>) BY <1>3 DEF CopyStep
  <2>2. copy.folder \in Pulls BY <1>3 DEF CopyStep, MainTypes
  <2>3. PICK a \in Messages : a = CopyAnswer(v, copy.folder) BY <2>2, AnswersAreMessages DEF CopyAnswer
  <2>4. a.type = "copy" BY <2>3 DEF CopyAnswer
  <2> QED BY <1>1, <2>1, <2>3, <2>4, OtherTold
<1>4. CASE DeleteStep /\ toPanel' # toPanel
  <2>1. PICK ok \in BOOLEAN : Tell(<<[type |-> "delete", call |-> 0, ok |-> ok, value |-> del.folder]>>)
    BY <1>4 DEF DeleteStep
  <2>2. del.folder \in Pulls \cup {None} BY DEF MainTypes, Deletions
  <2>3. PICK a \in Messages : a = [type |-> "delete", call |-> 0, ok |-> ok, value |-> del.folder]
    BY <2>2, AnswersAreMessages
  <2>4. a.type = "delete" BY <2>3
  <2> QED BY <1>1, <2>1, <2>3, <2>4, OtherTold
<1> QED BY <1>2, <1>3, <1>4

\* So does every step of the main process.
LEMMA MainDue ==
  ASSUME QueueTypes, MainTypes, EndIsDue, PullStep \/ HandleStep \/ CopyStep \/ DeleteStep, panel' = panel, calls' = calls
  PROVE  EndIsDue'
BY PullDue, HandleDue, OthersDue

\* A call that was of a panel left is not taken over by another.
OwnersStay ==
  \A m \in ToSet(toMain) \cup ToSet(toPanel) : m.type = "encryption" /\ Mine(m.call)' => Mine(m.call)

\* Calls keep their owner or lose it.
LEMMA OwnersAre ==
  ASSUME QueueTypes, \A c \in Clicks : calls'[c].owner # "gone" => calls[c].owner # "gone" PROVE OwnersStay
<1> SUFFICES ASSUME NEW m \in ToSet(toMain) \cup ToSet(toPanel), m.type = "encryption", Mine(m.call)' PROVE Mine(m.call)
  BY DEF OwnersStay
<1>1. m \in Requests \/ m \in Messages BY ToSetIs DEF QueueTypes
<1>2. m.call \in Clicks BY <1>1, RequestKinds, MessageKinds
<1> QED BY <1>2 DEF Mine

\* What comes earlier than another message is in the queue.
LEMMA EarlierIsLater ==
  ASSUME NEW T, NEW q \in Seq(T), NEW i \in 1 .. Len(q), NEW S, Earlier(q, i, S) PROVE Later(q, 0, S)
<1>1. PICK j \in 1 .. i - 1 : q[j] \in S BY DEF Earlier
<1>2. j \in 0 + 1 .. Len(q) BY <1>1
<1> QED BY <1>1, <1>2 DEF Later

\* The panel asks for something that is no pull, or for nothing.
LEMMA AskedMoreDue ==
  ASSUME QueueTypes, EndIsDue, MainStays, toPanel' = toPanel, OwnersStay,
         NEW news, Grows(toMain, toMain', news), news \cap PullRequests = {},
         \A m : \A k \in 1 .. Len(toMain') : m = toMain'[k] => k \in 1 .. Len(toMain) \/ AskedDue(m, k)',
         panel'.phase = "pulling" => panel.phase = "pulling",
         panel'.cancelling => panel.cancelling \/ panel.phase = "pulling",
         Shut => Shut', panel'.consent /\ panel'.password => panel.consent /\ panel.password
  PROVE  EndIsDue'
<1>0. UNCHANGED <<tracker, job, encrypts>> /\ (Running' <=> Running) BY DEF MainStays, mainVars, Running
<1>1. Len(toMain) \in Nat BY DEF QueueTypes
<1>2. \A i \in 0 .. Len(toMain) : Later(toMain', i, PullRequests) <=> Later(toMain, i, PullRequests) BY DEF Grows
<1>3. \A i \in 1 .. Len(toMain) : Earlier(toMain', i, PullRequests) <=> Earlier(toMain, i, PullRequests) BY DEF Grows
<1>4. 0 \in 0 .. Len(toMain) BY <1>1
<1>5. (DueRest' <=> DueRest) /\ (Still' <=> Still) BY <1>0, <1>2, <1>4 DEF DueRest, Unended, Still
<1>6. \A i : (DueAfter(i)' <=> DueAfter(i)) /\ (CalmAfter(i)' <=> CalmAfter(i)) BY <1>5 DEF DueAfter, CalmAfter
<1>7. ShownDue' BY <1>6 DEF EndIsDue, ShownDue
<1>8. ConsentDue' BY <1>6 DEF EndIsDue, ConsentDue
<1>9. AllToldDue'
  <2> SUFFICES ASSUME NEW m, NEW i \in 1 .. Len(toPanel'), m = toPanel'[i] PROVE ToldDue(m, i)' BY DEF AllToldDue
  <2>1. ToldDue(m, i) BY DEF EndIsDue, AllToldDue
  <2>2. m \in ToSet(toPanel) BY DEF QueueTypes, ToSet
  <2>3. m.type = "encryption" /\ Mine(m.call)' => Mine(m.call) BY <2>2 DEF OwnersStay
  <2> QED BY <1>0, <1>6, <2>1, <2>3 DEF ToldDue, Says
<1>10. AllAskedDue'
  <2> SUFFICES ASSUME NEW m, NEW k \in 1 .. Len(toMain'), m = toMain'[k], k \in 1 .. Len(toMain) PROVE AskedDue(m, k)'
    BY DEF AllAskedDue
  <2>1. toMain[k] = m /\ k \in 0 .. Len(toMain) BY <1>1 DEF Grows
  <2>2. AskedDue(m, k) BY <2>1 DEF EndIsDue, AllAskedDue
  <2>3. m \in ToSet(toMain) BY <2>1 DEF QueueTypes, ToSet
  <2>4. m.type = "encryption" /\ Mine(m.call)' => Mine(m.call) BY <2>3 DEF OwnersStay
  <2> QED BY <1>0, <1>2, <1>3, <2>1, <2>2, <2>4 DEF AskedDue
<1> QED BY <1>7, <1>8, <1>9, <1>10 DEF EndIsDue

\* What it asks for aside leaves the order of the rest.
LEMMA OneAsked ==
  ASSUME QueueTypes, NEW r \in Requests, Asks(<<r>>)
  PROVE  /\ Grows(toMain, toMain', {r}) /\ Len(toMain) \in Nat /\ toMain'[Len(toMain) + 1] = r
         /\ \A k \in 1 .. Len(toMain') : k \in 1 .. Len(toMain) \/ k = Len(toMain) + 1
         /\ \A S : ~Later(toMain', Len(toMain) + 1, S)
<1>1. toMain \in Seq(Requests) /\ toMain' = toMain \o <<r>> /\ Len(toMain) \in Nat BY DEF QueueTypes, Asks
<1>2. \A S : ~Later(toMain', Len(toMain) + 1, S) BY <1>1, GrowsOne
<1>3. Len(toMain') = Len(toMain) + 1 /\ toMain'[Len(toMain) + 1] = r /\ Grows(toMain, toMain', {r}) BY <1>1, GrowsOne
<1> QED BY <1>1, <1>2, <1>3

\* Requests that are no part of a call leave the order of those that are.
LEMMA AsideGrows ==
  ASSUME QueueTypes, toMain' = toMain \/ \E r \in Requests : r.type \notin {"pull", "encryption"} /\ Asks(<<r>>)
  PROVE  \E news : /\ Grows(toMain, toMain', news) /\ news \cap PullRequests = {}
                   /\ \A m : \A k \in 1 .. Len(toMain') :
                        m = toMain'[k] => k \in 1 .. Len(toMain) \/ AskedDue(m, k)'
<1>1. CASE toMain' = toMain
  <2>1. Grows(toMain, toMain', {}) BY <1>1, GrowsNone DEF QueueTypes
  <2> QED BY <1>1, <2>1
<1>2. ASSUME NEW r \in Requests, r.type \notin {"pull", "encryption"}, Asks(<<r>>)
      PROVE  /\ Grows(toMain, toMain', {r}) /\ {r} \cap PullRequests = {}
             /\ \A m : \A k \in 1 .. Len(toMain') :
                  m = toMain'[k] => k \in 1 .. Len(toMain) \/ AskedDue(m, k)'
  <2>1. Grows(toMain, toMain', {r}) /\ {r} \cap PullRequests = {} BY <1>2, OneAsked DEF PullRequests
  <2>2. ASSUME NEW m, NEW k \in 1 .. Len(toMain'), m = toMain'[k], k \notin 1 .. Len(toMain) PROVE AskedDue(m, k)'
    <3>1. m = r BY <1>2, <2>2, OneAsked
    <3> QED BY <1>2, <3>1 DEF AskedDue
  <2> QED BY <2>1, <2>2
<1> QED BY <1>1, <1>2

\* Quiet clicks keep the end due.
LEMMA QuietDue == ASSUME QueueTypes, PanelKnown, EndIsDue, Quietly PROVE EndIsDue'
<1>1. MainStays /\ toPanel' = toPanel BY DEF Quietly, MainStays
<1>2. \A c \in Clicks : calls'[c].owner # "gone" => calls[c].owner # "gone" BY CallsAre DEF Quietly, PanelKnown
<1>3. OwnersStay BY <1>2, OwnersAre
<1>4. panel'.phase = panel.phase BY DEF Quietly, ChangesOnly, Changes, Fields, Inert, Results
<1>5. PICK news : /\ Grows(toMain, toMain', news) /\ news \cap PullRequests = {}
                  /\ \A m : \A k \in 1 .. Len(toMain') :
                       m = toMain'[k] => k \in 1 .. Len(toMain) \/ AskedDue(m, k)'
  BY AsideGrows DEF Quietly, AsksAside
<1>6. /\ panel'.cancelling => panel.cancelling \/ panel.phase = "pulling"
      /\ Shut => Shut'
      /\ panel'.consent /\ panel'.password => panel.consent /\ panel.password
  BY <1>4 DEF Quietly, Shut
<1> QED BY <1>1, <1>3, <1>4, <1>5, <1>6, AskedMoreDue

\* So does mounting.
LEMMA MountDue == ASSUME QueueTypes, EndIsDue, Mount PROVE EndIsDue'
<1>1. MainStays /\ toPanel' = toPanel /\ calls' = calls /\ panel' = Mounted
  BY DEF Mount, MainStays, MainWaits, Shows
<1>2. OwnersStay BY <1>1 DEF OwnersStay, Mine
<1>3. \E r \in Requests : r.type \notin {"pull", "encryption"} /\ Asks(<<r>>) BY RequestsAre DEF Mount
<1>4. PICK news : /\ Grows(toMain, toMain', news) /\ news \cap PullRequests = {}
                  /\ \A m : \A k \in 1 .. Len(toMain') :
                       m = toMain'[k] => k \in 1 .. Len(toMain) \/ AskedDue(m, k)'
  BY <1>3, AsideGrows
<1>5. panel'.phase = "checking" /\ ~panel'.cancelling /\ ~panel'.password /\ ~panel'.consent BY <1>1, MountedIs
<1>6. Shut' BY <1>5 DEF Shut
<1> QED BY <1>1, <1>2, <1>4, <1>5, <1>6, AskedMoreDue

\* So does asking for a copy.
LEMMA CopyAskedDue == ASSUME QueueTypes, EndIsDue, CopyAsked PROVE EndIsDue'
<1>1. MainStays /\ toPanel' = toPanel /\ calls' = calls BY DEF CopyAsked, MainStays
<1>2. OwnersStay BY <1>1 DEF OwnersStay, Mine
<1>3. \E r \in Requests : r.type \notin {"pull", "encryption"} /\ Asks(<<r>>) BY DEF CopyAsked
<1>4. PICK news : /\ Grows(toMain, toMain', news) /\ news \cap PullRequests = {}
                  /\ \A m : \A k \in 1 .. Len(toMain') :
                       m = toMain'[k] => k \in 1 .. Len(toMain) \/ AskedDue(m, k)'
  BY <1>3, AsideGrows
<1>5. panel'.phase = panel.phase /\ panel'.cancelling = panel.cancelling /\ panel'.password = panel.password
      /\ panel'.consent = panel.consent
  BY DEF CopyAsked, ChangesOnly, Changes, Fields
<1>6. Shut => Shut' BY <1>5 DEF Shut
<1> QED BY <1>1, <1>2, <1>4, <1>5, <1>6, AskedMoreDue

\* The device's setting is asked for: the last thing asked.
LEMMA PullAskedDue ==
  ASSUME QueueTypes, PanelKnown, EndIsDue, NEW c \in Clicks, PullAsked(c) PROVE EndIsDue'
<1>1. MainStays /\ toPanel' = toPanel /\ CallBegins(c, "encryption") BY DEF PullAsked, MainStays
<1>2. PICK r \in Requests : r.type = "encryption" /\ r.call = c /\ Asks(<<r>>) BY DEF PullAsked, Sends
<1>3. Grows(toMain, toMain', {r}) /\ {r} \cap PullRequests = {} BY <1>2, OneAsked DEF PullRequests
<1>4. ASSUME NEW m, NEW k \in 1 .. Len(toMain'), m = toMain'[k], k \notin 1 .. Len(toMain) PROVE AskedDue(m, k)'
  <2>1. k = Len(toMain) + 1 /\ ~Later(toMain', Len(toMain) + 1, PullRequests) BY <1>2, <1>4, OneAsked
  <2>2. ~Later(toMain', k, PullRequests) BY <2>1
  <2> QED BY <2>2 DEF AskedDue
<1>5. OwnersStay
  <2> SUFFICES ASSUME NEW m \in ToSet(toMain) \cup ToSet(toPanel), m.type = "encryption", Mine(m.call)'
               PROVE  Mine(m.call)
    BY DEF OwnersStay
  <2>1. m \in Requests \/ m \in Messages BY ToSetIs DEF QueueTypes
  <2>2. m.call \in Clicks BY <2>1, RequestKinds, MessageKinds
  <2>3. Token(m) = <<"call", m.call>> BY TokensAre
  <2>4. Carries(toMain, <<"call", m.call>>) \/ Carries(toPanel, <<"call", m.call>>)
    BY <2>3, ToSetIs DEF QueueTypes
  <2>5. calls[m.call].stage # "free" BY <2>2, <2>4 DEF PanelKnown, FreeAreIdle, Somewhere
  <2>6. m.call # c BY <1>1, <2>5 DEF CallBegins
  <2> QED BY <1>1, <2>2, <2>6 DEF CallBegins, Mine
<1>6. /\ panel'.phase = panel.phase /\ panel'.cancelling = panel.cancelling /\ panel'.password = panel.password
      /\ panel'.consent = panel.consent
  BY DEF PullAsked, ChangesOnly, Changes, Fields, Inert, Results
<1>7. Shut => Shut' BY <1>6 DEF Shut
<1>8. \A m : \A k \in 1 .. Len(toMain') : m = toMain'[k] => k \in 1 .. Len(toMain) \/ AskedDue(m, k)' BY <1>4
<1> QED BY <1>1, <1>3, <1>5, <1>6, <1>7, <1>8, AskedMoreDue

\* The examiner has consented: nothing under way, and the pull is on its way.
LEMMA PullStartedDue ==
  ASSUME QueueTypes, PanelKnown, EndIsDue, NEW c \in Clicks, PullStarted(c) PROVE EndIsDue'
<1>1. UNCHANGED <<tracker, job, encrypts>> /\ toPanel' = toPanel /\ (Running' <=> Running)
  BY DEF PullStarted, mainVars, Running
<1>2. PICK r \in Requests : r.type = "pull" /\ r.call = c /\ Asks(<<r>>) BY DEF PullStarted, Sends
<1>3. r \in PullRequests BY <1>2 DEF PullRequests
<1>4. ~Running /\ ~encrypts /\ ~Later(toMain, 0, PullRequests) /\ ~Later(toPanel, 0, FreesIt)
  BY DEF PullStarted, EndIsDue, ConsentDue, CalmAfter, Still
<1>5. /\ Grows(toMain, toMain', {r}) /\ Len(toMain) \in Nat /\ toMain'[Len(toMain) + 1] = r
      /\ \A k \in 1 .. Len(toMain') : k \in 1 .. Len(toMain) \/ k = Len(toMain) + 1
  BY <1>2, OneAsked
<1>6. Later(toMain', 0, PullRequests)
  <2>1. 0 \in 0 .. Len(toMain) /\ {r} \cap PullRequests # {} BY <1>3, <1>5
  <2> QED BY <1>5, <2>1 DEF Grows
<1>7. \A i : DueAfter(i)' BY <1>1, <1>4, <1>6 DEF DueAfter, DueRest
<1>8. Shut' /\ ~panel'.consent BY DEF PullStarted, Shut
<1>9. AllToldDue'
  <2> SUFFICES ASSUME NEW m, NEW i \in 1 .. Len(toPanel'), m = toPanel'[i] PROVE ToldDue(m, i)' BY DEF AllToldDue
  <2>1. ToldDue(m, i) BY <1>1 DEF EndIsDue, AllToldDue
  <2>2. ~Earlier(toPanel, i, FreesIt) BY <1>1, <1>4, EarlierIsLater DEF QueueTypes
  <2> QED BY <1>1, <1>4, <1>7, <1>8, <2>1, <2>2 DEF ToldDue, Says
<1>10. AllAskedDue'
  <2> SUFFICES ASSUME NEW m, NEW k \in 1 .. Len(toMain'), m = toMain'[k] PROVE AskedDue(m, k)' BY DEF AllAskedDue
  <2>1. CASE k \in 1 .. Len(toMain)
    <3>1. ~Earlier(toMain, k, PullRequests) BY <1>4, <2>1, EarlierIsLater DEF QueueTypes
    <3>2. ~Earlier(toMain', k, PullRequests) BY <1>5, <2>1, <3>1 DEF Grows
    <3> QED BY <1>1, <1>4, <1>8, <3>2 DEF AskedDue
  <2>2. CASE k = Len(toMain) + 1 BY <1>2, <1>5, <2>2 DEF AskedDue
  <2> QED BY <1>5, <2>1, <2>2
<1> QED BY <1>7, <1>8, <1>9, <1>10 DEF EndIsDue, ShownDue, ConsentDue

\* A panel left has no call of its own.
LEMMA UnmountDue == ASSUME QueueTypes, EndIsDue, Unmount PROVE EndIsDue'
<1>1. /\ panel' = Unmounted /\ toPanel' = Forget(toPanel) /\ encrypts' = encrypts
      /\ calls' = [c \in Clicks |-> [calls[c] EXCEPT !.owner = "gone"]] /\ toMain' = Forget(toMain)
  BY DEF Unmount, mainVars, Shows
<1>2. panel'.phase = "unmounted" /\ ~panel'.cancelling /\ ~panel'.consent BY <1>1, MountedIs
<1>3. /\ toPanel' \in Seq(Messages) /\ ToSet(toPanel') \subseteq ToSet(toPanel)
      /\ toMain' \in Seq(Requests) /\ ~Carries(toPanel', <<"state", 0>>)
  <2>1. toPanel \in Seq(Messages) /\ toMain \in Seq(Requests) BY DEF QueueTypes
  <2> QED BY <1>1, <2>1, ForgetQueue
<1>4. ASSUME NEW m, m \in Requests \/ m \in Messages, m.type = "encryption" PROVE ~Mine(m.call)'
  <2>1. m.call \in Clicks BY <1>4, RequestKinds, MessageKinds
  <2> QED BY <1>1, <2>1 DEF Mine
<1>5. AllToldDue'
  <2> SUFFICES ASSUME NEW m, NEW i \in 1 .. Len(toPanel'), m = toPanel'[i] PROVE ToldDue(m, i)' BY DEF AllToldDue
  <2>1. m \in ToSet(toPanel') /\ m \in Messages BY <1>3 DEF ToSet
  <2>2. m \in ToSet(toPanel) BY <1>3, <2>1
  <2>3. PICK j \in 1 .. Len(toPanel) : m = toPanel[j] BY <2>2 DEF ToSet, QueueTypes
  <2>4. ToldDue(m, j) BY <2>3 DEF EndIsDue, AllToldDue
  <2>5. m.type # "state" BY <1>3, TokensAre DEF Carries
  <2> QED BY <1>1, <1>4, <2>1, <2>4, <2>5 DEF ToldDue, Says
<1>6. AllAskedDue'
  <2> SUFFICES ASSUME NEW m, NEW k \in 1 .. Len(toMain'), m = toMain'[k] PROVE AskedDue(m, k)' BY DEF AllAskedDue
  <2>1. m \in Requests BY <1>3
  <2> QED BY <1>4, <2>1 DEF AskedDue
<1> QED BY <1>2, <1>5, <1>6 DEF EndIsDue, ShownDue, ConsentDue

\* Nothing is due after a crash.
LEMMA KilledDue == ASSUME Killed PROVE EndIsDue'
<1>1. toMain' = <<>> /\ toPanel' = <<>> /\ panel' = Unmounted BY DEF Killed, Shows
<1>2. panel'.phase = "unmounted" /\ ~panel'.cancelling /\ ~panel'.consent BY <1>1, MountedIs
<1>3. 1 .. Len(toMain') = {} /\ 1 .. Len(toPanel') = {} BY <1>1
<1> QED BY <1>2, <1>3 DEF EndIsDue, ShownDue, ConsentDue, AllToldDue, AllAskedDue

\* Nothing is due when the app starts.
LEMMA DueFirst == ASSUME Init PROVE EndIsDue
<1>1. toMain = <<>> /\ toPanel = <<>> /\ panel = Unmounted BY DEF Init, PullInit
<1>2. panel.phase = "unmounted" /\ ~panel.cancelling /\ ~panel.consent BY <1>1, MountedIs
<1>3. 1 .. Len(toMain) = {} /\ 1 .. Len(toPanel) = {} BY <1>1
<1> QED BY <1>2, <1>3 DEF EndIsDue, ShownDue, ConsentDue, AllToldDue, AllAskedDue

\* What the oldest message is, and how the order of the rest goes on.
LEMMA IncomingIs ==
  ASSUME QueueTypes, toPanel # <<>>, toPanel' = Tail(toPanel)
  PROVE  /\ 1 \in 1 .. Len(toPanel) /\ Incoming = toPanel[1] /\ Incoming \in ToSet(toPanel)
         /\ \A i \in 1 .. Len(toPanel') : i \in Nat /\ i + 1 \in 1 .. Len(toPanel) /\ toPanel'[i] = toPanel[i + 1]
         /\ \A S : \A i \in Nat : Later(toPanel', i, S) <=> Later(toPanel, i + 1, S)
         /\ \A S : Later(toPanel', 0, S) <=> Later(toPanel, 1, S)
         /\ \A S : Later(toPanel, 0, S) <=> Incoming \in S \/ Later(toPanel', 0, S)
         /\ \A S : \A i \in 1 .. Len(toPanel') : Earlier(toPanel, i + 1, S) <=> Incoming \in S \/ Earlier(toPanel', i, S)
<1>1. toPanel \in Seq(Messages) BY DEF QueueTypes
<1>2. Len(toPanel) \in Nat \ {0} /\ Incoming = toPanel[1] BY <1>1, OrderOfTail DEF Incoming
<1>3. \A i \in 1 .. Len(toPanel') : i \in Nat /\ i + 1 \in 1 .. Len(toPanel) /\ toPanel'[i] = toPanel[i + 1]
  BY <1>1, OrderOfTail
<1>4. \A S : \A i \in Nat : Later(toPanel', i, S) <=> Later(toPanel, i + 1, S) BY <1>1, OrderOfTail
<1>5. \A S : Later(toPanel, 0, S) <=> Incoming \in S \/ Later(toPanel', 0, S) BY <1>1, OrderOfTail DEF Incoming
<1>6. \A S : \A i \in 1 .. Len(toPanel') : Earlier(toPanel, i + 1, S) <=> Incoming \in S \/ Earlier(toPanel', i, S)
  BY <1>1, OrderOfTail DEF Incoming
<1>7. 1 \in 1 .. Len(toPanel) BY <1>2
<1>8. Incoming \in ToSet(toPanel) BY <1>1, <1>2, <1>7 DEF ToSet
<1>9. \A S : Later(toPanel', 0, S) <=> Later(toPanel, 1, S)
  <2>1. 0 \in Nat /\ 0 + 1 = 1 OBVIOUS
  <2> QED BY <1>4, <2>1
<1> QED BY <1>2, <1>3, <1>4, <1>5, <1>6, <1>7, <1>8, <1>9

\* The panel hears the oldest message, and asks for no pull.
LEMMA HeardDue ==
  ASSUME QueueTypes, EndIsDue, MainStays, AsksAside, toPanel # <<>>, toPanel' = Tail(toPanel), OwnersStay,
         panel'.phase = "pulling" \/ panel'.cancelling => DueAfter(1),
         (\A c \in Clicks : ~Mine(c)') \/ (Shut /\ Incoming \notin FreesIt => Shut'),
         panel'.consent /\ panel'.password => CalmAfter(1)
  PROVE  EndIsDue'
<1>0. UNCHANGED <<tracker, job, encrypts>> /\ (Running' <=> Running) BY DEF MainStays, mainVars, Running
<1>1. /\ \A i \in 1 .. Len(toPanel') : i \in Nat /\ i + 1 \in 1 .. Len(toPanel) /\ toPanel'[i] = toPanel[i + 1]
      /\ \A S : \A i \in Nat : Later(toPanel', i, S) <=> Later(toPanel, i + 1, S)
      /\ \A S : Later(toPanel', 0, S) <=> Later(toPanel, 1, S)
      /\ \A S : Later(toPanel, 0, S) <=> Incoming \in S \/ Later(toPanel', 0, S)
      /\ \A S : \A i \in 1 .. Len(toPanel') : Earlier(toPanel, i + 1, S) <=> Incoming \in S \/ Earlier(toPanel', i, S)
  BY IncomingIs
<1>2. PICK news : /\ Grows(toMain, toMain', news) /\ news \cap PullRequests = {}
                  /\ \A m : \A k \in 1 .. Len(toMain') :
                       m = toMain'[k] => k \in 1 .. Len(toMain) \/ AskedDue(m, k)'
  BY AsideGrows DEF AsksAside
<1>3. Len(toMain) \in Nat /\ 0 \in 0 .. Len(toMain) BY DEF QueueTypes
<1>4. \A i \in 0 .. Len(toMain) : Later(toMain', i, PullRequests) <=> Later(toMain, i, PullRequests) BY <1>2 DEF Grows
<1>5. \A i \in 1 .. Len(toMain) : Earlier(toMain', i, PullRequests) <=> Earlier(toMain, i, PullRequests)
  BY <1>2 DEF Grows
<1>6. (DueRest' <=> DueRest) /\ (Still' <=> Still) BY <1>0, <1>3, <1>4 DEF DueRest, Unended, Still
<1>7. \A i \in Nat : (DueAfter(i)' <=> DueAfter(i + 1)) /\ (CalmAfter(i)' <=> CalmAfter(i + 1))
  BY <1>1, <1>6 DEF DueAfter, CalmAfter
<1>8. (DueAfter(0)' <=> DueAfter(1)) /\ (CalmAfter(0)' <=> CalmAfter(1)) BY <1>1, <1>6 DEF DueAfter, CalmAfter
<1>9. ShownDue' BY <1>8 DEF ShownDue
<1>10. ConsentDue' BY <1>8 DEF ConsentDue
<1>11. \A m : m.type = "encryption" /\ m.call \in Clicks /\ Mine(m.call)' => (Shut /\ Incoming \notin FreesIt => Shut')
  <2>1. \A c \in Clicks : Mine(c)' => (Shut /\ Incoming \notin FreesIt => Shut') OBVIOUS
  <2> QED BY <2>1 DEF Mine
<1>12. AllToldDue'
  <2> SUFFICES ASSUME NEW m, NEW i \in 1 .. Len(toPanel'), m = toPanel'[i] PROVE ToldDue(m, i)' BY DEF AllToldDue
  <2>1. i \in Nat /\ i + 1 \in 1 .. Len(toPanel) /\ m = toPanel[i + 1] BY <1>1
  <2>2. ToldDue(m, i + 1) BY <2>1 DEF EndIsDue, AllToldDue
  <2>3. m \in ToSet(toPanel) /\ m \in Messages BY <2>1 DEF ToSet, QueueTypes
  <2>4. m.type = "encryption" /\ Mine(m.call)' => Mine(m.call) BY <2>3 DEF OwnersStay
  <2>5. m.type = "encryption" => m.call \in Clicks BY <2>3, MessageKinds
  <2>6. Earlier(toPanel, i + 1, FreesIt) <=> Incoming \in FreesIt \/ Earlier(toPanel', i, FreesIt) BY <1>1
  <2>7. Later(toPanel', i, Endings) <=> Later(toPanel, i + 1, Endings) BY <1>1, <2>1
  <2>8. (DueAfter(i)' <=> DueAfter(i + 1)) /\ (CalmAfter(i)' <=> CalmAfter(i + 1)) BY <1>7, <2>1
  <2>9. m.type = "encryption" /\ Mine(m.call)' => (Shut /\ Incoming \notin FreesIt => Shut') BY <1>11, <2>5
  <2> QED BY <1>0, <2>2, <2>4, <2>6, <2>7, <2>8, <2>9 DEF ToldDue, Says
<1>13. AllAskedDue'
  <2> SUFFICES ASSUME NEW m, NEW k \in 1 .. Len(toMain'), m = toMain'[k], k \in 1 .. Len(toMain) PROVE AskedDue(m, k)'
    BY <1>2 DEF AllAskedDue
  <2>1. toMain[k] = m /\ k \in 0 .. Len(toMain) BY <1>2, <1>3 DEF Grows
  <2>2. AskedDue(m, k) BY <2>1 DEF EndIsDue, AllAskedDue
  <2>3. m \in ToSet(toMain) /\ m \in Requests BY <2>1 DEF ToSet, QueueTypes
  <2>4. m.type = "encryption" /\ Mine(m.call)' => Mine(m.call) BY <2>3 DEF OwnersStay
  <2>5. m.type = "encryption" => m.call \in Clicks BY <2>3, RequestKinds
  <2>6. m.type = "encryption" /\ Mine(m.call)' => (Shut /\ Incoming \notin FreesIt => Shut') BY <1>11, <2>5
  <2>7. Later(toPanel, 0, FreesIt) <=> Incoming \in FreesIt \/ Later(toPanel', 0, FreesIt) BY <1>1
  <2> QED BY <1>0, <1>4, <1>5, <2>1, <2>2, <2>4, <2>6, <2>7 DEF AskedDue
<1> QED BY <1>9, <1>10, <1>12, <1>13 DEF EndIsDue

\* The device makes encrypted backups, and the pull is asked for.
LEMMA YesDue ==
  ASSUME QueueTypes, PanelKnown, EndIsDue, MainStays, toPanel # <<>>, toPanel' = Tail(toPanel), Incoming \in Messages,
         HeardYes(Incoming)
  PROVE  EndIsDue'
<1>0. UNCHANGED <<tracker, job, encrypts>> /\ (Running' <=> Running) BY DEF MainStays, mainVars, Running
<1>1. /\ \A i \in 1 .. Len(toPanel') : i \in Nat /\ i + 1 \in 1 .. Len(toPanel) /\ toPanel'[i] = toPanel[i + 1]
      /\ \A S : \A i \in Nat : Later(toPanel', i, S) <=> Later(toPanel, i + 1, S)
      /\ \A S : Later(toPanel', 0, S) <=> Later(toPanel, 1, S)
      /\ \A S : Later(toPanel, 0, S) <=> Incoming \in S \/ Later(toPanel', 0, S)
      /\ \A S : \A i \in 1 .. Len(toPanel') : Earlier(toPanel, i + 1, S) <=> Incoming \in S \/ Earlier(toPanel', i, S)
      /\ 1 \in 1 .. Len(toPanel) /\ Incoming = toPanel[1]
  BY IncomingIs
<1>2. PICK r \in Requests : r.type = "pull" /\ Asks(<<r>>) BY DEF HeardYes, Sends
<1>3. /\ Grows(toMain, toMain', {r}) /\ Len(toMain) \in Nat
  BY <1>2, OneAsked
<1>4. Later(toMain', 0, PullRequests)
  <2>1. 0 \in 0 .. Len(toMain) /\ {r} \cap PullRequests # {} BY <1>2, <1>3 DEF PullRequests
  <2> QED BY <1>3, <2>1 DEF Grows
<1>5. PICK m \in Messages : m = Incoming OBVIOUS
<1>6. ToldDue(m, 1) BY <1>1, <1>5 DEF EndIsDue, AllToldDue
<1>7. m.type = "encryption" /\ m.ok /\ m.call \in Clicks /\ m.value = TRUE
  <2>1. m.type = "encryption" /\ m.ok /\ m.call \in Clicks /\ m.value BY <1>5 DEF HeardYes
  <2>2. m.value \in BOOLEAN BY <1>6, <2>1 DEF ToldDue
  <2> QED BY <2>1, <2>2
<1>8. encrypts /\ (Mine(m.call) /\ Running /\ tracker.ended => Later(toPanel, 1, Endings))
  BY <1>6, <1>7 DEF ToldDue, Says
<1>9. m \notin Endings /\ m \notin FreesIt BY <1>7 DEF Endings, FreesIt, Errors, Dones
<1>10. \A i : ~CalmAfter(i) BY <1>8 DEF CalmAfter, Still
<1>11. ASSUME NEW i, NEW j, DueAfter(i), Later(toPanel, i, Endings) => Later(toPanel', j, Endings) PROVE DueAfter(j)'
  BY <1>0, <1>4, <1>11 DEF DueAfter, DueRest, Unended
<1>12. \A c \in Clicks : Mine(c)' <=> Mine(c) BY <1>5 DEF HeardYes, Mine
<1>13. /\ panel' = panel \/ (Mine(m.call) /\ panel'.phase = "pulling" /\ ~panel'.password /\ ~panel'.consent
                             /\ panel'.cancelling = panel.cancelling)
  BY <1>5 DEF HeardYes, ChangesOnly, Changes, Fields
<1>14. Shut => Shut' BY <1>13 DEF Shut
<1>15. ConsentDue'
  <2>1. ~(panel.consent /\ panel.password) BY <1>10 DEF EndIsDue, ConsentDue
  <2> QED BY <1>13, <2>1 DEF ConsentDue
<1>16. ShownDue'
  <2> SUFFICES ASSUME panel'.phase = "pulling" \/ panel'.cancelling PROVE DueAfter(0)' BY DEF ShownDue
  <2>1. CASE panel.phase = "pulling" \/ panel.cancelling
    <3>1. DueAfter(0) BY <2>1 DEF EndIsDue, ShownDue
    <3> QED BY <1>1, <1>5, <1>9, <1>11, <3>1
  <2>2. CASE ~(panel.phase = "pulling" \/ panel.cancelling)
    <3>1. Mine(m.call) BY <1>13, <2>2
    <3>2. Unended \/ ~Running \/ Later(toPanel', 0, Endings) BY <1>1, <1>8, <3>1 DEF Unended
    <3> QED BY <1>0, <1>4, <3>2 DEF DueAfter, DueRest, Unended
  <2> QED BY <2>1, <2>2
<1>17. AllToldDue'
  <2> SUFFICES ASSUME NEW n, NEW i \in 1 .. Len(toPanel'), n = toPanel'[i] PROVE ToldDue(n, i)' BY DEF AllToldDue
  <2>1. i \in Nat /\ i + 1 \in 1 .. Len(toPanel) /\ n = toPanel[i + 1] BY <1>1
  <2>2. ToldDue(n, i + 1) BY <2>1 DEF EndIsDue, AllToldDue
  <2>3. n \in Messages BY <2>1 DEF QueueTypes
  <2>4. n.type = "encryption" => (Mine(n.call)' <=> Mine(n.call)) BY <1>12, <2>3, MessageKinds
  <2>5. Earlier(toPanel', i, FreesIt) => Earlier(toPanel, i + 1, FreesIt) BY <1>1
  <2>6. Later(toPanel', i, Endings) <=> Later(toPanel, i + 1, Endings) BY <1>1, <2>1
  <2>7. DueAfter(i + 1) => DueAfter(i)' BY <1>11, <2>6
  <2>8. Says(n, FALSE) /\ Mine(n.call)' => Shut' /\ ~Earlier(toPanel', i, FreesIt)
    BY <1>10, <1>14, <2>2, <2>4, <2>5 DEF ToldDue, Says
  <2> QED BY <1>0, <2>2, <2>4, <2>6, <2>7, <2>8 DEF ToldDue, Says
<1>18. AllAskedDue' BY <1>0, <1>8 DEF AllAskedDue, AskedDue
<1> QED BY <1>15, <1>16, <1>17, <1>18 DEF EndIsDue

\* Whatever the panel hears, the end it still waits for is due.
LEMMA HearDue == ASSUME MainInv, PanelKnown, EndIsDue, HearStep PROVE EndIsDue'
<1>0. /\ QueueTypes /\ MainStays /\ toPanel # <<>> /\ toPanel' = Tail(toPanel) /\ Incoming \in Messages
      /\ panel \in Panels /\ calls \in [Clicks -> Calls]
  BY DEF MainInv, HearStep, MainStays, PanelKnown
<1>1. CASE HeardYes(Incoming) BY <1>0, <1>1, YesDue
<1>2. PICK m \in Messages : m = Incoming BY <1>0
<1>3. /\ 1 \in 1 .. Len(toPanel) /\ m = toPanel[1] /\ m \in ToSet(toPanel)
      /\ \A S : Later(toPanel', 0, S) <=> Later(toPanel, 1, S)
      /\ \A S : Later(toPanel, 0, S) <=> m \in S \/ Later(toPanel', 0, S)
  BY <1>0, <1>2, IncomingIs
<1>4. ToldDue(m, 1) BY <1>3 DEF EndIsDue, AllToldDue
<1>5. m \notin Endings /\ DueAfter(0) => DueAfter(1) BY <1>3 DEF DueAfter
<1>6. CalmAfter(0) => CalmAfter(1) /\ m \notin FreesIt BY <1>3 DEF CalmAfter
<1>7. m.type # "event" => m \notin Endings BY DEF Endings, Errors, Dones
\* Where the panel keeps what the rest depends on.
<1>8. ASSUME AsksAside, \A c \in Clicks : calls'[c].owner # "gone" => calls[c].owner # "gone",
             panel'.phase = panel.phase, panel'.cancelling => panel.cancelling, m \notin Endings,
             panel'.password => panel.password, panel'.consent /\ panel'.password => CalmAfter(1)
      PROVE  EndIsDue'
  <2>1. OwnersStay BY <1>0, <1>8, OwnersAre
  <2>2. panel'.phase = "pulling" \/ panel'.cancelling => DueAfter(1) BY <1>5, <1>8 DEF EndIsDue, ShownDue
  <2>3. Shut => Shut' BY <1>8 DEF Shut
  <2> QED BY <1>0, <1>8, <2>1, <2>2, <2>3, HeardDue
\* Where the panel does not change.
<1>9. ASSUME AsksAside, \A c \in Clicks : calls'[c].owner # "gone" => calls[c].owner # "gone", panel' = panel,
             m \notin Endings
      PROVE  EndIsDue'
  <2>1. panel'.consent /\ panel'.password => CalmAfter(1) BY <1>6, <1>9 DEF EndIsDue, ConsentDue
  <2> QED BY <1>8, <1>9, <2>1
<1>10. ASSUME NEW c \in Clicks, CallEnds(c) PROVE \A b \in Clicks : calls'[b].owner # "gone" => calls[b].owner # "gone"
  <2>1. \A b \in Clicks : calls'[b] = IF b = c THEN NoCall ELSE calls[b] BY <1>0, <1>10 DEF CallEnds
  <2> QED BY <2>1 DEF NoCall
<1>11. calls' = calls => OwnersStay BY DEF OwnersStay, Mine
<1>12. CASE AsksAside /\ (HeardStats(m) \/ HeardCopy(m))
  <2>1. /\ calls' = calls /\ m \notin Endings
    BY <1>7, <1>12 DEF HeardStats, HeardCopy, Figures, CopyAnswers, Endings, Errors, Dones
  <2>2. CASE panel' = panel BY <1>9, <1>12, <2>1, <2>2
  <2>3. CASE panel' # panel
    <3>1. /\ panel'.phase = panel.phase /\ panel'.cancelling = panel.cancelling
          /\ panel'.password = panel.password /\ panel'.consent = panel.consent
      BY <1>12, <2>3 DEF HeardStats, HeardCopy, ChangesOnly, Changes, Fields
    <3>2. panel'.consent /\ panel'.password => CalmAfter(1) BY <1>6, <3>1 DEF EndIsDue, ConsentDue
    <3> QED BY <1>8, <1>12, <2>1, <3>1, <3>2
  <2> QED BY <2>2, <2>3
<1>13. CASE AsksAside /\ HeardAside(m)
  <2>1. \A c \in Clicks : calls'[c].owner # "gone" => calls[c].owner # "gone" BY <1>0, <1>13, CallsAre DEF HeardAside
  <2>2. m \notin Endings BY <1>7, <1>13 DEF HeardAside
  <2>3. /\ panel'.phase = panel.phase /\ panel'.cancelling = panel.cancelling
        /\ panel'.password = panel.password /\ panel'.consent = panel.consent
    BY <1>13 DEF HeardAside, ChangesOnly, Changes, Fields, Inert, Results
  <2>4. panel'.consent /\ panel'.password => CalmAfter(1) BY <1>6, <2>3 DEF EndIsDue, ConsentDue
  <2> QED BY <1>8, <1>13, <2>1, <2>2, <2>3, <2>4
<1>14. CASE AsksAside /\ (HeardDone(m) \/ HeardError(m))
  <2>1. calls' = calls BY <1>14 DEF HeardDone, HeardError
  <2>2. /\ panel'.phase \notin {"pulling"} /\ ~panel'.cancelling /\ panel'.password = panel.password
        /\ panel'.consent = panel.consent
    <3>1. CASE ~Mounts
      <4>1. panel' = panel /\ panel.phase = "unmounted" BY <1>14, <3>1 DEF HeardDone, HeardError, Mounts
      <4>2. Bare(panel) BY <4>1 DEF PanelKnown
      <4> QED BY <4>1, <4>2 DEF Bare
    <3>2. CASE Mounts
      <4>1. ChangesOnly(Results \cup {"phase", "cancelling"}) /\ panel'.phase # "pulling" /\ ~panel'.cancelling
        BY <1>14, <3>2 DEF HeardDone, HeardError, ChangesOnly, Changes
      <4> QED BY <4>1 DEF ChangesOnly, Changes, Fields, Results
    <3> QED BY <3>1, <3>2
  <2>3. panel'.consent /\ panel'.password => CalmAfter(1) BY <1>6, <2>2 DEF EndIsDue, ConsentDue
  <2>4. Shut /\ m \notin FreesIt => Shut'
    <3>1. CASE HeardError(m) BY <3>1 DEF HeardError, FreesIt
    <3>2. CASE HeardDone(m)
      <4>1. panel' = panel \/ panel'.phase = "pulled" BY <3>2 DEF HeardDone
      <4> QED BY <2>2, <4>1 DEF Shut
    <3> QED BY <1>14, <3>1, <3>2
  <2>5. panel'.phase = "pulling" \/ panel'.cancelling => DueAfter(1) BY <2>2
  <2> QED BY <1>0, <1>2, <1>11, <1>14, <2>1, <2>3, <2>4, <2>5, HeardDue
<1>15. CASE AsksAside /\ HeardState(m)
  <2>1. calls' = calls BY <1>15 DEF HeardState
  <2>2. Token(m) = <<"state", 0>> BY <1>15, TokensAre DEF HeardState
  <2>3. Somewhere(<<"state", 0>>) BY <1>3, <2>2 DEF Somewhere, Carries
  <2>4. ~panel.devices BY <2>3 DEF PanelKnown, AskedFirst
  <2>5. Bare(panel) /\ AllGone BY <2>4 DEF PanelKnown
  <2>6. /\ panel'.cancelling = panel.cancelling /\ panel'.password = panel.password
        /\ panel'.phase = "pulling" => m.value.folder # None /\ ~m.value.ended
    BY <1>15 DEF HeardState, ChangesOnly, Changes, Fields, Inert
  <2>7. panel'.phase = "pulling" \/ panel'.cancelling => DueAfter(1)
    BY <1>4, <1>15, <2>5, <2>6 DEF ToldDue, HeardState, Bare
  <2>8. panel'.consent /\ panel'.password => CalmAfter(1) BY <2>5, <2>6 DEF Bare
  <2>9. \A c \in Clicks : ~Mine(c)' BY <2>1, <2>5 DEF Mine, AllGone
  <2> QED BY <1>0, <1>11, <1>15, <2>1, <2>7, <2>8, <2>9, HeardDue
<1>16. CASE AsksAside /\ HeardNo(m)
  <2>1. /\ \A b \in Clicks : calls'[b].owner # "gone" => calls[b].owner # "gone"
        /\ m.call \in Clicks /\ m.type = "encryption" /\ m.ok /\ ~m.value
    BY <1>10, <1>16 DEF HeardNo
  <2>2. m \notin Endings BY <1>7, <2>1
  <2>3. CASE panel' = panel BY <1>9, <1>16, <2>1, <2>2, <2>3
  <2>4. CASE panel' # panel
    <3>1. /\ Mine(m.call) /\ panel'.phase = panel.phase /\ panel'.cancelling = panel.cancelling
          /\ panel'.password = panel.password
      BY <1>16, <2>4 DEF HeardNo, ChangesOnly, Changes, Fields
    <3>2. m.value = FALSE BY <1>4, <2>1 DEF ToldDue
    <3>3. CalmAfter(1) \/ Shut BY <1>4, <2>1, <3>1, <3>2 DEF ToldDue, Says
    <3>4. panel'.consent /\ panel'.password => CalmAfter(1) BY <3>1, <3>3 DEF Shut
    <3> QED BY <1>8, <1>16, <2>1, <2>2, <3>1, <3>4
  <2> QED BY <2>3, <2>4
<1>17. CASE AsksAside /\ HeardUnknown(m)
  <2>1. /\ \A b \in Clicks : calls'[b].owner # "gone" => calls[b].owner # "gone"
        /\ m \notin Endings
    BY <1>7, <1>10, <1>17 DEF HeardUnknown
  <2>3. CASE panel' = panel BY <1>9, <1>17, <2>1, <2>3
  <2>4. CASE panel' # panel
    <3>1. /\ panel'.phase = panel.phase /\ panel'.cancelling = panel.cancelling /\ ~panel'.password
      BY <1>17, <2>4 DEF HeardUnknown, ChangesOnly, Changes, Fields
    <3> QED BY <1>8, <1>17, <2>1, <3>1
  <2> QED BY <2>3, <2>4
<1>18. CASE AsksAside /\ HeardPull(m)
  <2>1. /\ \A b \in Clicks : calls'[b].owner # "gone" => calls[b].owner # "gone"
        /\ m \notin Endings /\ m \in FreesIt
    BY <1>7, <1>10, <1>18 DEF HeardPull, FreesIt
  <2>3. CASE panel' = panel BY <1>9, <1>18, <2>1, <2>3
  <2>4. CASE panel' # panel
    <3>1. /\ panel'.phase = "pulling" => panel.phase = "pulling" /\ ~panel'.password
          /\ panel'.cancelling => panel.cancelling /\ ~panel'.password
      BY <1>18, <2>4 DEF HeardPull
    <3>2. ~panel'.password BY <1>18, <2>4 DEF HeardPull
    <3>3. OwnersStay BY <1>0, <2>1, OwnersAre
    <3>4. panel'.phase = "pulling" \/ panel'.cancelling => DueAfter(1) BY <1>5, <2>1, <3>1 DEF EndIsDue, ShownDue
    <3> QED BY <1>0, <1>2, <1>18, <2>1, <3>2, <3>3, <3>4, HeardDue
  <2> QED BY <2>3, <2>4
<1> QED BY <1>1, <1>2, <1>12, <1>13, <1>14, <1>15, <1>16, <1>17, <1>18 DEF HearStep, HeardOf

-------------------------------------------------------------------------------
PanelStays == PanelInv /\ EndIsDue

\* The property follows.
LEMMA PanelStaysIsRight == PanelStays => PanelIsTrue
BY PanelShows, LetsGo DEF PanelStays, PanelIsTrue

\* The app starts with it.
LEMMA PanelStaysFirst == Init => PanelStays
BY PanelInvFirst, DueFirst DEF PanelStays

\* Where nothing here is touched, be it that something else fails.
LEMMA PanelStaysWaits ==
  ASSUME PanelStays, faults' \in 0 .. MaxFaults,
         UNCHANGED <<disk, known, encrypts, tracker, job, cancel, copy, del, toMain, toPanel, panelVars>>
  PROVE  PanelStays'
<1>1. PanelInv' BY PanelInvWaits DEF PanelStays
<1>2. EndIsDue' BY NoneToldDue DEF PanelStays, PanelInv, MainInv, panelVars
<1> QED BY <1>1, <1>2 DEF PanelStays

\* Every step of the app and the panel keeps it.
LEMMA PanelStaysKept == ASSUME PanelStays, FinishedIsKept, [Next]_vars PROVE PanelStays'
<1> USE DEF PanelStays, PanelInv
<1>0. /\ QueueTypes /\ MainTypes /\ panel \in Panels /\ calls \in [Clicks -> Calls] /\ MainInv /\ PanelKnown
      /\ panel.logs # "none" => panel.logsOf # None
  BY DEF MainInv, PanelKnown
<1>1. PanelInv' BY PanelInvKept
<1>2. CASE Main
  <2>1. PullNext /\ panel' = panel /\ calls' = calls BY <1>2 DEF Main, panelVars
  <2>2. PullStep \/ HandleStep \/ CopyStep \/ DeleteStep BY <1>0, <2>1, MainGoesOn
  <2> QED BY <1>0, <1>1, <2>1, <2>2, MainDue
<1>3. CASE Examiner
  <2>1. CASE Mount BY <1>0, <1>1, <2>1, MountDue
  <2>2. CASE Unmount BY <1>0, <1>1, <2>2, UnmountDue
  <2>3. CASE QuietClicks BY <1>0, <1>1, <2>3, EachQuietClick, QuietDue
  <2>4. ASSUME NEW c \in Clicks, ClickPull(c) \/ TurnOnClicked(c) PROVE EndIsDue'
    BY <1>0, <2>4, EachClick, PullAskedDue, PullStartedDue
  <2>5. CASE ClickCopyAgain BY <1>0, <1>1, <2>5, CopyClick, CopyAskedDue
  <2> QED BY <1>1, <1>3, <2>1, <2>2, <2>3, <2>4, <2>5 DEF Examiner, QuietClicks
<1>4. CASE Hear BY <1>0, <1>1, <1>4, EachHearStep, HearDue
<1>5. CASE Killed BY <1>1, <1>5, KilledDue
<1>6. CASE UNCHANGED vars
  <2>1. UNCHANGED <<disk, known, encrypts, tracker, job, cancel, copy, del, toMain, toPanel, panelVars>>
        /\ faults' \in 0 .. MaxFaults
    BY <1>0, <1>6 DEF vars, pullVars, mainVars, MainTypes
  <2> QED BY <2>1, PanelStaysWaits
<1> QED BY <1>2, <1>3, <1>4, <1>5, <1>6 DEF Next

\* The panel tells the truth of the backup it shows as pulled, of its crash logs, of
\* the password it holds, and of whether a pull is under way.
THEOREM PanelTellsTheTruth == Spec => []PanelIsTrue
<1>1. IInv /\ PanelStays /\ [Next]_vars => IInv' /\ PanelStays' BY NextIInv, PanelStaysKept DEF Kept
<1> QED BY InitIInv, PanelStaysFirst, PanelStaysIsRight, <1>1, PTL DEF Spec

\* The setup of the tools and the view touch no panel.
LEMMA ImportKeepsPanel == ASSUME IInv, PanelStays, [ImportNext]_importVars PROVE PanelStays'
<1>0. MainTypes BY DEF PanelStays, PanelInv, MainInv
<1>1. CASE [Next]_vars BY <1>1, NextIInv, PanelStaysKept DEF Kept
<1>2. CASE PullsWait /\ faults' \in 0 .. MaxFaults BY <1>2, PanelStaysWaits DEF PullsWait
<1>3. CASE \/ Open \/ Leave \/ ChecksTool \/ ReadsStatus \/ ClickInstall \/ ClickBuild \/ CheckAgain
           \/ ToolsChange
  BY <1>1, <1>3 DEF Open, Leave, ChecksTool, ReadsStatus, ClickInstall, ClickBuild, CheckAgain, Asked,
                    ToolsChange, PullsStay
<1>4. CASE SetupRuns \/ SetupFails
  <2>1. faults' \in 0 .. MaxFaults
    BY <1>0, <1>4, DevicePullAssumption DEF SetupRuns, SetupFails, Sure, Fault, MainTypes
  <2> QED BY <1>2, <1>4, <2>1 DEF SetupRuns, SetupFails
<1>5. CASE PanelMounts \/ PanelLeaves \/ PanelGoesOn \/ AppEnds
  BY <1>1, <1>5 DEF PanelMounts, PanelLeaves, PanelGoesOn, AppEnds, Next, Examiner
<1>6. CASE UNCHANGED importVars BY <1>1, <1>6 DEF importVars
<1> QED BY <1>3, <1>4, <1>5, <1>6 DEF ImportNext

\* The same with the view and the setup of the tools around the panel.
THEOREM PanelTellsTheTruthInTheApp == ImportSpec => []PanelIsTrue
<1>1. IInv /\ PanelStays /\ [ImportNext]_importVars => IInv' /\ PanelStays' BY ImportKeeps, ImportKeepsPanel
<1>2. ImportInit => IInv /\ PanelStays BY InitIInv, PanelStaysFirst DEF ImportInit
<1> QED BY PanelStaysIsRight, <1>1, <1>2, PTL DEF ImportSpec
================================================================================
