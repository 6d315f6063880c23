------------------------------- MODULE Processor -------------------------------
(***************************************************************************)
(* The processor preparing one backup in one workspace, pass after pass:     *)
(* hash it, decrypt and repair it, run iLEAPP over the decrypt, copy the     *)
(* crash logs acquired with it.  Everything under a derivative's directory   *)
(* is vouched for by a completion marker in it, which registration and later *)
(* passes trust; a pass may be killed between any two steps.                 *)
(*                                                                         *)
(* One pass runs at a time.  The backup and the acquired crash logs may      *)
(* change at any moment; a changed backup never returns to old content.      *)
(***************************************************************************)
EXTENDS Integers

CONSTANTS
  MaxVersion,   \* bound: contents the backup takes, 1 .. MaxVersion, by content root
  Tools,        \* iLEAPP commits
  Reports,      \* contents of acquired crash logs, by reports root
  MaxFaults,    \* bound: faults, wrong passwords and kills over all passes
  TornRemoval,  \* TRUE: a removal cut short may leave the directory's marker
  NoAcquisition, Unmatched \* no acquisition record; a record the folder differs from

ASSUME ProcessorAssumption ==
  /\ MaxVersion \in Nat \ {0} /\ MaxFaults \in Nat
  /\ TornRemoval \in BOOLEAN
  /\ NoAcquisition \notin Reports /\ Unmatched \notin Reports /\ NoAcquisition # Unmatched
  /\ "none" \notin Tools \cup Reports

MaxPasswordAttempts == 3
Roots == 1 .. MaxVersion
NoRoot == 0
NoMark == <<NoRoot, "none">>

VARIABLES
  src,       \* the backup's content
  acq,       \* the crash logs acquired beside it, or NoAcquisition, Unmatched
  manifests, \* content roots with a manifest file
  sidecar,   \* content root the evidence sidecar names
  dec,       \* decrypted/<label>: [kind, of], of = the content decrypted
  decMark,   \* content root in its marker
  ile,       \* ileapp/<label>: "absent", "partial" or "whole"
  ileOfDec,  \* whether it was made from the decrypt now in dec
  ileMark,   \* <<content root, tool>> in its marker
  crash,     \* crash_reports/<label>: "absent", "partial" or a member of Reports
  crashMark, \* <<content root, reports root>> in its marker
  pc,        \* where the pass is; "off" between passes
  flags,     \* --force-decrypt, --force, and iLEAPP's commit in this pass
  root,      \* contentRoot, as hashed at the pass's start
  attempt,   \* of MaxPasswordAttempts
  password,  \* the one tried: "right", "wrong", "none" yet, or reading it "raised"
  cached,    \* the --same-pass password at hand: "none", "right" or "wrong"
  ran,       \* decryptRan
  want,      \* the reports root found before copying
  failed,    \* this backup is in failedBackups
  reported,  \* how the last pass to end reported it: "none", "ok" or "bad"
  faults     \* faults so far

disk == <<manifests, sidecar, dec, decMark, ile, ileOfDec, ileMark, crash, crashMark>>
local == <<flags, root, attempt, password, cached, ran, want>>
vars == <<src, acq, disk, pc, local, failed, reported, faults>>

Places == {"off", "hash", "manifest", "sidecar", "look", "clear_dec", "clear_ile",
  "clear_crash", "withdraw_dec", "withdraw_ile", "remove_dec", "password", "decrypt",
  "decrypting", "recheck", "repair", "mark_dec", "ileapp", "withdraw_ileapp",
  "remove_ile", "ileapp_run", "mark_ile", "crash", "withdraw_crash", "remove_crash",
  "copy", "mark_crash", "summary"}

TypeOK ==
  /\ src \in Roots /\ acq \in Reports \cup {NoAcquisition, Unmatched}
  /\ manifests \in SUBSET Roots /\ sidecar \in Roots \cup {NoRoot}
  /\ dec \in [kind : {"absent", "empty", "partial", "raw", "repaired"}, of : Roots \cup {NoRoot}]
  /\ decMark \in Roots \cup {NoRoot}
  /\ ile \in {"absent", "partial", "whole"} /\ ileOfDec \in BOOLEAN
  /\ ileMark \in (Roots \X Tools) \cup {NoMark}
  /\ crash \in Reports \cup {"absent", "partial"}
  /\ crashMark \in (Roots \X Reports) \cup {NoMark}
  /\ pc \in Places
  /\ flags \in [decrypt : BOOLEAN, force : BOOLEAN, tool : Tools]
  /\ root \in Roots \cup {NoRoot} /\ attempt \in 1 .. MaxPasswordAttempts + 1
  /\ password \in {"none", "right", "wrong", "raised"} /\ cached \in {"none", "right", "wrong"}
  /\ ran \in BOOLEAN /\ want \in Reports \cup {NoAcquisition} /\ failed \in BOOLEAN
  /\ reported \in {"none", "ok", "bad"} /\ faults \in 0 .. MaxFaults

Dir(kind, of) == [kind |-> kind, of |-> of]
NoDir == Dir("absent", NoRoot)

Init ==
  /\ src = 1 /\ acq \in Reports \cup {NoAcquisition}
  /\ manifests = {} /\ sidecar = NoRoot
  /\ dec = NoDir /\ decMark = NoRoot
  /\ ile = "absent" /\ ileOfDec = FALSE /\ ileMark = NoMark
  /\ crash = "absent" /\ crashMark = NoMark
  /\ pc = "off" /\ flags \in [decrypt : {FALSE}, force : {FALSE}, tool : Tools]
  /\ root = NoRoot /\ attempt = 1 /\ password = "none" /\ cached = "none"
  /\ ran = FALSE /\ want = NoAcquisition /\ failed = FALSE
  /\ reported = "none" /\ faults = 0

-------------------------------------------------------------------------------
(* The world outside. *)

\* The device is backed up again into the same folder; a decrypt under way
\* reads some of the old content and some of the new.
Mixed(d) == IF pc = "decrypting" THEN Dir(d.kind, NoRoot) ELSE d
BackupChanges ==
  /\ src < MaxVersion
  /\ src' = src + 1
  /\ dec' = Mixed(dec)
  /\ UNCHANGED <<acq, manifests, sidecar, decMark, ile, ileOfDec, ileMark, crash, crashMark,
                 pc, local, failed, reported, faults>>
AcquisitionChanges ==
  /\ acq' \in (Reports \cup {NoAcquisition, Unmatched}) \ {acq}
  /\ faults < MaxFaults /\ faults' = faults + 1
  /\ UNCHANGED <<src, disk, pc, local, failed, reported>>

-------------------------------------------------------------------------------
(* A pass.  Goes(a, b): the step at a goes on to b. *)

Goes(a, b) == pc = a /\ pc' = b
NoFault == UNCHANGED <<failed, faults>>
Fault == faults < MaxFaults /\ faults' = faults + 1
\* A fault the pass records in failedBackups.
Records == Fault /\ failed' = TRUE
Outside == UNCHANGED <<src, acq, reported>>

\* A cached password may be left from an earlier backup of the same pass.
StartPass ==
  /\ Goes("off", "hash")
  /\ flags' \in [decrypt : BOOLEAN, force : BOOLEAN, tool : Tools]
  /\ cached' \in {"none", "right", "wrong"}
  /\ IF cached' = "wrong" THEN Fault ELSE UNCHANGED faults
  /\ attempt' = 1 /\ password' = "none" /\ ran' = FALSE /\ failed' = FALSE /\ root' = NoRoot
  /\ reported' = "none" /\ want' = NoAcquisition
  /\ UNCHANGED <<src, acq, disk>>

\* hashBackup: the tree, the content-addressed manifest, then the sidecar.
Hash ==
  /\ Goes("hash", "manifest")
  /\ root' = src
  /\ UNCHANGED <<disk, flags, attempt, password, cached, ran, want>> /\ NoFault /\ Outside
WriteManifest ==
  /\ Goes("manifest", "sidecar")
  /\ manifests' = manifests \cup {root}
  /\ UNCHANGED <<sidecar, dec, decMark, ile, ileOfDec, ileMark, crash, crashMark, local>>
  /\ NoFault /\ Outside
WriteSidecar ==
  /\ Goes("sidecar", "look")
  /\ sidecar' = root
  /\ UNCHANGED <<manifests, dec, decMark, ile, ileOfDec, ileMark, crash, crashMark, local>>
  /\ NoFault /\ Outside
HashFails ==
  /\ pc \in {"hash", "manifest", "sidecar"} /\ pc' = "summary"
  /\ Records /\ UNCHANGED <<disk, local>> /\ Outside

\* Whether the decrypt on disk is reused, and whether there is a stale one.
CurrentAny == decMark # NoRoot \* slip: the marker's content root is not compared
DecryptIsCurrent == decMark = root
Look ==
  /\ pc = "look"
  /\ pc' = CASE DecryptIsCurrent /\ ~flags.decrypt -> "ileapp"
             [] ~DecryptIsCurrent /\ dec.kind # "absent" -> "clear_dec"
             [] OTHER -> "withdraw_dec"
  /\ UNCHANGED <<disk, local>> /\ NoFault /\ Outside

\* Clearing what was built on another version of the backup.
RemoveDec(a, b) ==
  /\ Goes(a, b)
  /\ dec' = NoDir /\ decMark' = NoRoot /\ ileOfDec' = FALSE
  /\ UNCHANGED <<manifests, sidecar, ile, ileMark, crash, crashMark, local>> /\ NoFault /\ Outside
RemoveIle(a, b) ==
  /\ Goes(a, b)
  /\ ile' = "absent" /\ ileMark' = NoMark
  /\ UNCHANGED <<manifests, sidecar, dec, decMark, ileOfDec, crash, crashMark, local>> /\ NoFault /\ Outside
RemoveCrash(a, b) ==
  /\ Goes(a, b)
  /\ crash' = "absent" /\ crashMark' = NoMark
  /\ UNCHANGED <<manifests, sidecar, dec, decMark, ile, ileOfDec, ileMark, local>> /\ NoFault /\ Outside
ClearStale ==
  \/ RemoveDec("clear_dec", "clear_ile")
  \/ RemoveIle("clear_ile", "clear_crash")
  \/ RemoveCrash("clear_crash", "withdraw_dec")

\* The markers that vouch for the decrypt go before it does.
Withdrawn == NoRoot
WithdrawDec ==
  /\ Goes("withdraw_dec", "withdraw_ile")
  /\ decMark' = Withdrawn
  /\ UNCHANGED <<manifests, sidecar, dec, ile, ileOfDec, ileMark, crash, crashMark, local>>
  /\ NoFault /\ Outside
IleMarkKept(a) == IF a = "withdraw_ile" THEN ileMark ELSE NoMark \* slip: only iLEAPP's own step withdraws it
IleMarkWithdrawn(a) == NoMark
WithdrawIle(a, b) ==
  /\ Goes(a, b)
  /\ ileMark' = IleMarkWithdrawn(a)
  /\ UNCHANGED <<manifests, sidecar, dec, decMark, ile, ileOfDec, crash, crashMark, local>>
  /\ NoFault /\ Outside

-------------------------------------------------------------------------------
(* The password loop and the decrypt. *)

\* The for loop's condition: another attempt, or give this backup up.
Again(n) == IF n <= MaxPasswordAttempts THEN "password" ELSE "summary"

UsesCached == cached # "none" /\ attempt = 1
TakePassword ==
  /\ Goes("password", "decrypt")
  /\ \/ UsesCached /\ password' = cached /\ NoFault
     \/ ~UsesCached /\ password' = "right" /\ NoFault
     \/ ~UsesCached /\ password' = "wrong" /\ Fault /\ UNCHANGED failed
  /\ UNCHANGED <<disk, flags, root, attempt, cached, ran, want>> /\ Outside
\* The prompt raises: the loop is left, and failedBackups is not told.
PromptError ==
  /\ ~UsesCached
  /\ Goes("password", "summary")
  /\ Fault /\ password' = "raised"
  /\ UNCHANGED <<disk, flags, root, attempt, cached, ran, want, failed>> /\ Outside

\* decrypt_backup.py: it refuses a folder that is not empty, then unlocks the
\* keys, and only then writes.
Refused == dec.kind \notin {"absent", "empty"}
StartDecrypt ==
  /\ Goes("decrypt", "decrypting")
  /\ ~Refused /\ password = "right"
  /\ dec' = Dir("partial", src)
  /\ UNCHANGED <<manifests, sidecar, decMark, ile, ileOfDec, ileMark, crash, crashMark, local>>
  /\ NoFault /\ Outside
EndDecrypt ==
  /\ Goes("decrypting", "recheck")
  /\ dec' = Dir("raw", dec.of)
  /\ UNCHANGED <<manifests, sidecar, decMark, ile, ileOfDec, ileMark, crash, crashMark, local>>
  /\ NoFault /\ Outside

\* A failed attempt: a wrong password before the last goes back to the prompt;
\* anything else is recorded, and the loop goes on all the same.
AttemptFailed(wrong) ==
  /\ attempt' = attempt + 1
  /\ cached' = "none"
  /\ failed' = (failed \/ ~wrong \/ attempt = MaxPasswordAttempts)
  /\ pc' = Again(attempt + 1)
  /\ UNCHANGED <<manifests, sidecar, decMark, ile, ileOfDec, ileMark, crash, crashMark,
                 flags, root, password, ran, want>>
  /\ Outside
WrongPassword ==
  /\ pc = "decrypt"
  /\ ~Refused /\ password = "wrong"
  /\ dec' = Dir("empty", NoRoot)
  /\ UNCHANGED faults
  /\ AttemptFailed(TRUE)
DecryptRefused ==
  /\ pc = "decrypt"
  /\ Refused
  /\ UNCHANGED <<dec, faults>>
  /\ AttemptFailed(FALSE)
\* It fails before it has written anything, or part-way.
DecryptFails ==
  /\ pc \in {"decrypt", "decrypting"} /\ ~(pc = "decrypt" /\ Refused)
  /\ Fault
  /\ dec' = IF pc = "decrypt" THEN Dir("empty", NoRoot) ELSE dec
  /\ AttemptFailed(FALSE)

\* The backup is hashed again: a decrypt of changing content gets no marker.
BackupUnchanged == src = root
Recheck ==
  /\ pc = "recheck"
  /\ IF BackupUnchanged
     THEN pc' = "repair" /\ failed' = failed /\ ran' = TRUE
     ELSE pc' = "summary" /\ failed' = TRUE /\ ran' = ran
  /\ UNCHANGED <<disk, flags, root, attempt, password, cached, want, faults>> /\ Outside

\* The repair pass, in place; a database it cannot recover is reported, and the
\* decrypt is marked all the same.
Repair ==
  /\ Goes("repair", "mark_dec")
  /\ dec' = Dir("repaired", dec.of)
  /\ \/ NoFault
     \/ Records
  /\ UNCHANGED <<manifests, sidecar, decMark, ile, ileOfDec, ileMark, crash, crashMark, local>> /\ Outside
RecheckOrRepairFails ==
  /\ pc \in {"recheck", "repair"} /\ pc' = "summary"
  /\ Records /\ UNCHANGED <<disk, local>> /\ Outside
MarkDec ==
  /\ Goes("mark_dec", "ileapp")
  /\ decMark' = root
  /\ UNCHANGED <<manifests, sidecar, dec, ile, ileOfDec, ileMark, crash, crashMark, local>>
  /\ NoFault /\ Outside

-------------------------------------------------------------------------------
(* iLEAPP. *)

IleappReused == ileMark = <<root, flags.tool>> /\ ~ran /\ ~flags.force
LookIleapp ==
  /\ pc = "ileapp"
  /\ pc' = IF IleappReused THEN "crash" ELSE "withdraw_ileapp"
  /\ UNCHANGED <<disk, local>> /\ NoFault /\ Outside
RunIleapp ==
  /\ Goes("ileapp_run", "mark_ile")
  /\ ile' = "whole" /\ ileOfDec' = TRUE
  /\ UNCHANGED <<manifests, sidecar, dec, decMark, ileMark, crash, crashMark, local>> /\ NoFault /\ Outside
MarkIle ==
  /\ Goes("mark_ile", "crash")
  /\ ileMark' = <<root, flags.tool>>
  /\ UNCHANGED <<manifests, sidecar, dec, decMark, ile, ileOfDec, crash, crashMark, local>>
  /\ NoFault /\ Outside
\* iLEAPP fails, or its marker cannot be written; the crash logs still follow.
RecordsNothing == Fault /\ UNCHANGED failed \* slip: logged, and not added to failedBackups
RecordsIleapp == Records
IleappFails ==
  /\ pc \in {"ileapp_run", "mark_ile"} /\ pc' = "crash"
  /\ RecordsIleapp
  /\ ile' \in IF pc = "ileapp_run" THEN {"absent", "partial"} ELSE {ile}
  /\ UNCHANGED <<manifests, sidecar, dec, decMark, ileOfDec, ileMark, crash, crashMark, local>> /\ Outside

-------------------------------------------------------------------------------
(* prepareCrashReports. *)

LookCrash ==
  /\ pc = "crash"
  /\ want' = IF acq \in Reports THEN acq ELSE NoAcquisition
  /\ failed' = (failed \/ acq = Unmatched)
  /\ pc' = IF acq \notin Reports \/ (crashMark = <<root, acq>> /\ ~flags.force)
           THEN "summary" ELSE "withdraw_crash"
  /\ UNCHANGED <<disk, flags, root, attempt, password, cached, ran, faults>> /\ Outside
CrashMarkWithdrawn == NoMark
WithdrawCrash ==
  /\ Goes("withdraw_crash", "remove_crash")
  /\ crashMark' = CrashMarkWithdrawn
  /\ UNCHANGED <<manifests, sidecar, dec, decMark, ile, ileOfDec, ileMark, crash, local>>
  /\ NoFault /\ Outside
\* The copy is hashed and compared with what was found before.
CopyCrash ==
  /\ pc = "copy"
  /\ IF acq = want
     THEN crash' = want /\ pc' = "mark_crash" /\ failed' = failed
     ELSE crash' = "partial" /\ pc' = "summary" /\ failed' = TRUE
  /\ UNCHANGED <<manifests, sidecar, dec, decMark, ile, ileOfDec, ileMark, crashMark, local, faults>>
  /\ Outside
MarkCrash ==
  /\ Goes("mark_crash", "summary")
  /\ crashMark' = <<root, want>>
  /\ UNCHANGED <<manifests, sidecar, dec, decMark, ile, ileOfDec, ileMark, crash, local>>
  /\ NoFault /\ Outside
CrashFails ==
  /\ pc \in {"crash", "withdraw_crash", "copy", "mark_crash"} /\ pc' = "summary"
  /\ Records
  /\ crash' \in IF pc = "copy" THEN {"absent", "partial"} ELSE {crash}
  /\ UNCHANGED <<manifests, sidecar, dec, decMark, ile, ileOfDec, ileMark, crashMark, local>> /\ Outside

-------------------------------------------------------------------------------
\* The summary and the exit code.
Summary ==
  /\ Goes("summary", "off")
  /\ reported' = IF failed THEN "bad" ELSE "ok"
  /\ UNCHANGED <<src, acq, disk, local, failed, faults>>

\* The process is killed, or an exception nobody catches ends it (a removal or
\* a marker write that raises).  A directory it was removing or filling is left
\* part-way, and a removal may not have come to the marker yet.
Torn(dir, mark, none) ==
  IF TornRemoval THEN {<<dir, mark>>, <<"partial", mark>>, <<"partial", none>>}
  ELSE {<<dir, mark>>, <<"partial", none>>}
TornDec == pc \in {"clear_dec", "remove_dec"} /\ dec.kind # "absent"
TornIle == pc \in {"clear_ile", "remove_ile"} /\ ile # "absent"
TornCrash == pc \in {"clear_crash", "remove_crash"} /\ crash # "absent"
Killed ==
  /\ pc # "off" /\ pc' = "off"
  /\ Fault
  /\ \E t \in IF TornDec THEN Torn(dec.kind, decMark, NoRoot) ELSE {<<dec.kind, decMark>>} :
       dec' = Dir(t[1], dec.of) /\ decMark' = t[2]
  /\ \E t \in CASE TornIle -> Torn(ile, ileMark, NoMark)
                [] pc = "ileapp_run" -> {<<ile, ileMark>>, <<"partial", ileMark>>}
                [] OTHER -> {<<ile, ileMark>>} :
       ile' = t[1] /\ ileMark' = t[2]
  /\ \E t \in CASE TornCrash -> Torn(crash, crashMark, NoMark)
                [] pc = "copy" -> {<<crash, crashMark>>, <<"partial", crashMark>>}
                [] OTHER -> {<<crash, crashMark>>} :
       crash' = t[1] /\ crashMark' = t[2]
  /\ UNCHANGED <<manifests, sidecar, ileOfDec, local, failed>> /\ Outside

-------------------------------------------------------------------------------
\* A pass going well.
Works ==
  \/ Hash \/ WriteManifest \/ WriteSidecar \/ Look \/ ClearStale
  \/ WithdrawDec \/ WithdrawIle("withdraw_ile", "remove_dec") \/ RemoveDec("remove_dec", "password")
  \/ TakePassword \/ StartDecrypt \/ EndDecrypt \/ DecryptRefused \/ WrongPassword
  \/ Recheck \/ Repair \/ MarkDec
  \/ LookIleapp \/ WithdrawIle("withdraw_ileapp", "remove_ile") \/ RemoveIle("remove_ile", "ileapp_run")
  \/ RunIleapp \/ MarkIle
  \/ LookCrash \/ WithdrawCrash \/ RemoveCrash("remove_crash", "copy") \/ CopyCrash \/ MarkCrash
  \/ Summary

Next ==
  \/ StartPass \/ Works
  \/ BackupChanges \/ AcquisitionChanges
  \/ HashFails \/ PromptError \/ DecryptFails \/ RecheckOrRepairFails \/ IleappFails \/ CrashFails
  \/ Killed

Spec == Init /\ [][Next]_vars

\* The examiner starts one pass after another, and a pass goes on.
FairSpec == Spec /\ WF_vars(StartPass) /\ WF_vars(Works)

-------------------------------------------------------------------------------
(* Properties. *)

\* The decrypt registration accepts: its marker names the sidecar's content root.
DecryptAccepted == decMark # NoRoot /\ decMark = sidecar

\* A decrypt registration would accept is what its marker says: whole, repaired
\* and of that very content, whose manifest exists, whatever pass was killed
\* where (main.ts, "only a decrypt that completes recreates them").
AcceptedIsWhole ==
  DecryptAccepted => sidecar \in manifests /\ dec = Dir("repaired", sidecar)

\* iLEAPP's output, where its marker would be accepted too, is whole and made
\* from the decrypt now on disk ("no marker ever vouches for a report that is
\* being removed or rewritten").
IleappIsOfTheDecrypt ==
  DecryptAccepted /\ ileMark[1] = sidecar => ile = "whole" /\ ileOfDec

\* Both, in a state as it should be: whatever was killed, failed or replaced, and
\* when, no marker speaks for something that is not there.
MarkersAreTrue == TypeOK /\ AcceptedIsWhole /\ IleappIsOfTheDecrypt

\* A pass that reports success leaves the backup it hashed prepared: decrypt
\* and iLEAPP output of that content, the latter by this pass's iLEAPP.  The one
\* exception is a prompt that raised, which failedBackups is not told of.
SuccessMeansPrepared ==
  pc = "off" /\ reported = "ok" /\ password # "raised" =>
    sidecar = root /\ DecryptAccepted /\ ileMark = <<root, flags.tool>>

\* However passes were killed, failed or overtaken, passing again gets the
\* backup as it is now decrypted and read by iLEAPP: no leftover of either
\* stands in the way for ever.
Prepared == DecryptAccepted /\ sidecar = src /\ ileMark[1] = src
AlwaysRecovers == []<>Prepared

\* Only a wrong password leads to another prompt ("any other decrypt failure
\* fails immediately on the first try", main.ts).
FailsAtOnce == pc = "password" => ~failed
================================================================================
