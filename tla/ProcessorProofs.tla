---------------------------- MODULE ProcessorProofs ----------------------------
(* That no marker ever vouches for something that is not there, for any number  *)
(* of contents, iLEAPP commits, crash-log contents and faults, torn removals     *)
(* included.  And of the iLEAPP run a pass supervises, that nothing is left       *)
(* running, that a slow one that moves is never stopped, and that its outcome    *)
(* and its timings are true: for any number of modules and any limit.           *)
EXTENDS Processor, IleappRun, SequenceTheorems, TLAPS


-------------------------------------------------------------------------------
(* The invariant. *)

Early == {"off", "hash", "manifest", "sidecar", "summary"}
First == {"hash", "manifest", "sidecar", "look", "clear_dec", "clear_ile", "clear_crash",
          "withdraw_dec", "withdraw_ile", "remove_dec"}
Crashes == {"withdraw_crash", "remove_crash", "copy", "mark_crash"}
\* Once the sidecar is written it names the content hashed; nothing ever runs
\* ahead of the backup, whose content never returns.
RootKnown ==
  /\ root <= src /\ sidecar <= src
  /\ pc \in {"manifest", "sidecar"} => root # NoRoot /\ sidecar <= root
  /\ pc = "sidecar" => root \in manifests
  /\ pc \notin Early => root # NoRoot /\ sidecar = root
  /\ sidecar # NoRoot => sidecar \in manifests
  /\ pc \in {"password", "decrypt", "decrypting"} => attempt <= MaxPasswordAttempts
  /\ pc \in First => attempt = 1
  /\ pc \in Crashes => want \in Reports

Unmarked == {"clear_ile", "clear_crash", "withdraw_ile", "remove_dec", "password", "decrypt", "decrypting",
             "recheck", "repair", "mark_dec"}
\* While the decrypt is made it has no marker; what it is of is known once the
\* backup was seen not to have changed.
DecKnown ==
  /\ decMark <= sidecar
  /\ DecryptAccepted => dec = Dir("repaired", sidecar)
  /\ pc \in Unmarked => decMark = NoRoot
  /\ pc = "clear_dec" => decMark # root
  /\ pc \in {"decrypting", "recheck"} =>
       /\ dec.of = NoRoot => root < src
       /\ dec.of # NoRoot => root <= dec.of /\ dec.of <= src
  /\ pc = "repair" => dec.of = root
  /\ pc = "mark_dec" => dec = Dir("repaired", root)

NoIleMark == {"remove_dec", "password", "decrypt", "decrypting", "recheck", "repair", "mark_dec",
              "remove_ile", "ileapp_run", "mark_ile"}
\* iLEAPP's marker is withdrawn before the decrypt or the output is touched.
IleKnown ==
  /\ ileMark[1] <= sidecar
  /\ DecryptAccepted /\ ileMark[1] = sidecar => ile = "whole" /\ ileOfDec
  /\ pc \in NoIleMark => ileMark = NoMark
  /\ pc = "mark_ile" => ile = "whole" /\ ileOfDec

IInv == TypeOK /\ RootKnown /\ DecKnown /\ IleKnown

\* Nothing is there at first.
LEMMA InitIInv == Init => IInv
<1> SUFFICES ASSUME Init PROVE IInv OBVIOUS
<1> USE ProcessorAssumption DEF Init, Roots, NoRoot, NoMark, NoDir, Dir
<1>1. TypeOK
  <2>1. flags \in [decrypt : BOOLEAN, force : BOOLEAN, tool : Tools] OBVIOUS
  <2>2. dec \in [kind : {"absent", "empty", "partial", "raw", "repaired"}, of : Roots \cup {NoRoot}] OBVIOUS
  <2>3. 1 \in Roots /\ pc \in Places BY DEF Places
  <2>4. attempt \in 1 .. MaxPasswordAttempts + 1 /\ faults \in 0 .. MaxFaults BY DEF MaxPasswordAttempts
  <2> QED BY <2>1, <2>2, <2>3, <2>4 DEF TypeOK
<1>2. RootKnown BY DEF RootKnown, Early, First, Crashes, MaxPasswordAttempts
<1>3. DecKnown BY DEF DecKnown, DecryptAccepted, Unmarked
<1>4. IleKnown BY DEF IleKnown, DecryptAccepted, NoIleMark
<1> QED BY <1>1, <1>2, <1>3, <1>4 DEF IInv

-------------------------------------------------------------------------------
(* The types, step by step. *)

\* Each step of a pass, of the backup or of a kill keeps every type.
LEMMA TypeOKHolds == ASSUME IInv, [Next]_vars PROVE TypeOK'
<1> USE ProcessorAssumption DEF IInv, disk, local, Goes, NoFault, Fault, Records, Outside
<1>1. CASE StartPass
  <2> USE <1>1 DEF StartPass
  <2>1. flags' \in [decrypt : BOOLEAN, force : BOOLEAN, tool : Tools] OBVIOUS
  <2>2. faults' \in 0 .. MaxFaults
    <3>1. CASE cached' = "wrong" BY <3>1 DEF TypeOK
    <3>2. CASE cached' # "wrong" BY <3>2 DEF TypeOK
    <3> QED BY <3>1, <3>2
  <2>3. attempt' \in 1 .. MaxPasswordAttempts + 1 BY DEF MaxPasswordAttempts
  <2>4. pc' \in Places BY DEF Places
  <2>5. src' = src /\ acq' = acq /\ disk' = disk /\ root' = NoRoot /\ password' = "none" /\ cached' \in {"none", "right", "wrong"}
        /\ ran' = FALSE /\ failed' = FALSE /\ reported' = "none" /\ want' = NoAcquisition OBVIOUS
  <2> HIDE <1>1
  <2> HIDE DEF StartPass
  <2> QED BY <2>1, <2>2, <2>3, <2>4, <2>5 DEF TypeOK
<1>2. CASE Hash BY <1>2 DEF Hash, TypeOK, Places
<1>3. CASE WriteManifest BY <1>3 DEF WriteManifest, TypeOK, RootKnown, Places
<1>4. CASE WriteSidecar BY <1>4 DEF WriteSidecar, TypeOK, Places
<1>5. CASE HashFails BY <1>5 DEF HashFails, TypeOK, Places
<1>6. CASE Look
  <2>1. pc' \in Places BY <1>6 DEF Look, Places
  <2> QED BY <1>6, <2>1 DEF Look, TypeOK
<1>7. CASE RecheckOrRepairFails BY <1>7 DEF RecheckOrRepairFails, TypeOK, Places
<1>8. CASE Summary BY <1>8 DEF Summary, TypeOK, Places
<1>9. ASSUME NEW a, NEW b \in Places, RemoveDec(a, b) PROVE TypeOK'
  <2>1. NoDir \in [kind : {"absent", "empty", "partial", "raw", "repaired"}, of : Roots \cup {NoRoot}] BY DEF NoDir, Dir
  <2>2. dec' \in [kind : {"absent", "empty", "partial", "raw", "repaired"}, of : Roots \cup {NoRoot}] BY <1>9, <2>1 DEF RemoveDec
  <2>3. decMark' \in Roots \cup {NoRoot} /\ ileOfDec' \in BOOLEAN /\ pc' \in Places BY <1>9 DEF RemoveDec
  <2> QED BY <1>9, <2>2, <2>3 DEF RemoveDec, TypeOK
<1>10. ASSUME NEW a, NEW b \in Places, RemoveIle(a, b) PROVE TypeOK' BY <1>10 DEF RemoveIle, TypeOK
<1>11. ASSUME NEW a, NEW b \in Places, RemoveCrash(a, b) PROVE TypeOK' BY <1>11 DEF RemoveCrash, TypeOK
<1>12. ASSUME NEW a, NEW b \in Places, WithdrawIle(a, b) PROVE TypeOK' BY <1>12 DEF WithdrawIle, IleMarkWithdrawn, TypeOK
<1>13. CASE WithdrawDec BY <1>13 DEF WithdrawDec, Withdrawn, TypeOK, Places
<1>14. CASE TakePassword BY <1>14 DEF TakePassword, UsesCached, TypeOK, Places
<1>15. CASE PromptError BY <1>15 DEF PromptError, TypeOK, Places
<1>16. CASE StartDecrypt BY <1>16 DEF StartDecrypt, Dir, TypeOK, Places
<1>17. CASE EndDecrypt BY <1>17 DEF EndDecrypt, Dir, TypeOK, Places
<1>18. ASSUME NEW w, AttemptFailed(w), pc \in {"decrypt", "decrypting"}, faults' \in 0 .. MaxFaults,
       dec' \in {dec, Dir("empty", NoRoot)}
       PROVE TypeOK'
  <2>1. attempt' \in 1 .. MaxPasswordAttempts + 1 BY <1>18 DEF AttemptFailed, TypeOK, RootKnown, MaxPasswordAttempts
  <2>2. dec' \in [kind : {"absent", "empty", "partial", "raw", "repaired"}, of : Roots \cup {NoRoot}] BY <1>18 DEF Dir, TypeOK
  <2>3. failed' \in BOOLEAN BY <1>18, ZenonT(30) DEF AttemptFailed
  <2>4. pc' \in Places
    <3>1. pc' \in {"password", "summary"} BY <1>18, ZenonT(30) DEF AttemptFailed, Again
    <3> QED BY <3>1 DEF Places
  <2> QED BY <1>18, <2>1, <2>2, <2>3, <2>4 DEF AttemptFailed, TypeOK
<1>19. CASE WrongPassword BY <1>18, <1>19 DEF WrongPassword, TypeOK
<1>20. CASE DecryptRefused BY <1>18, <1>20 DEF DecryptRefused, TypeOK
<1>21. CASE DecryptFails
  <2>1. faults' \in 0 .. MaxFaults BY <1>21 DEF DecryptFails, TypeOK
  <2> QED BY <1>18, <1>21, <2>1 DEF DecryptFails
<1>22. CASE Recheck
  <2>1. CASE BackupUnchanged BY <1>22, <2>1 DEF Recheck, TypeOK, Places
  <2>2. CASE ~BackupUnchanged BY <1>22, <2>2 DEF Recheck, TypeOK, Places
  <2> QED BY <2>1, <2>2
<1>23. CASE Repair
  <2>1. dec' \in [kind : {"absent", "empty", "partial", "raw", "repaired"}, of : Roots \cup {NoRoot}]
    BY <1>23 DEF Repair, Dir, TypeOK
  <2>2. CASE NoFault BY <1>23, <2>1, <2>2 DEF Repair, TypeOK, Places
  <2>3. CASE Records BY <1>23, <2>1, <2>3 DEF Repair, TypeOK, Places
  <2> QED BY <1>23, <2>2, <2>3 DEF Repair
<1>24. CASE MarkDec BY <1>24 DEF MarkDec, TypeOK, Places
<1>25. CASE LookIleapp BY <1>25 DEF LookIleapp, TypeOK, Places
<1>26. CASE RunIleapp BY <1>26 DEF RunIleapp, TypeOK, Places
<1>27. CASE MarkIle BY <1>27 DEF MarkIle, TypeOK, RootKnown, Early, Places
<1>28. CASE IleappFails BY <1>28 DEF IleappFails, RecordsIleapp, TypeOK, Places
<1>29. CASE LookCrash
  <2>1. failed' \in BOOLEAN BY <1>29, ZenonT(30) DEF LookCrash
  <2> QED BY <1>29, <2>1 DEF LookCrash, TypeOK, Places
<1>30. CASE WithdrawCrash BY <1>30 DEF WithdrawCrash, CrashMarkWithdrawn, TypeOK, Places
<1>31. CASE CopyCrash
  <2>1. want \in Reports BY <1>31 DEF CopyCrash, RootKnown, Crashes
  <2>2. CASE acq = want BY <1>31, <2>1, <2>2 DEF CopyCrash, TypeOK, Places
  <2>3. CASE acq # want BY <1>31, <2>3 DEF CopyCrash, TypeOK, Places
  <2> QED BY <2>2, <2>3
<1>32. CASE MarkCrash BY <1>32 DEF MarkCrash, TypeOK, RootKnown, Early, Crashes, Places
<1>33. CASE CrashFails BY <1>33 DEF CrashFails, TypeOK, Places
<1>34. CASE Killed
  <2>1. dec' \in [kind : {"absent", "empty", "partial", "raw", "repaired"}, of : Roots \cup {NoRoot}]
    BY <1>34 DEF Killed, Torn, Dir, TypeOK
  <2>2. decMark' \in Roots \cup {NoRoot} BY <1>34 DEF Killed, Torn, TypeOK
  <2>3. ile' \in {"absent", "partial", "whole"} /\ ileMark' \in (Roots \X Tools) \cup {NoMark}
    BY <1>34 DEF Killed, Torn, TypeOK
  <2>4. crash' \in Reports \cup {"absent", "partial"} /\ crashMark' \in (Roots \X Reports) \cup {NoMark}
    BY <1>34 DEF Killed, Torn, TypeOK
  <2>5. faults' \in 0 .. MaxFaults /\ pc' \in Places BY <1>34 DEF Killed, Places, TypeOK
  <2> QED BY <1>34, <2>1, <2>2, <2>3, <2>4, <2>5 DEF Killed, TypeOK
<1>35. CASE BackupChanges BY <1>35 DEF BackupChanges, Mixed, Dir, TypeOK, Roots
<1>36. CASE AcquisitionChanges BY <1>36 DEF AcquisitionChanges, TypeOK
<1>37. CASE UNCHANGED vars BY <1>37 DEF vars, TypeOK
<1> QED BY <1>1, <1>2, <1>3, <1>4, <1>5, <1>6, <1>7, <1>8, <1>9, <1>10, <1>11, <1>12, <1>13, <1>14, <1>15,
         <1>16, <1>17, <1>19, <1>20, <1>21, <1>22, <1>23, <1>24, <1>25, <1>26, <1>27, <1>28, <1>29, <1>30,
         <1>31, <1>32, <1>33, <1>34, <1>35, <1>36, <1>37 DEF Next, Works, ClearStale, Places

-------------------------------------------------------------------------------
(* The content hashed and the sidecar, step by step. *)

\* The markers' contents are numbers that can be compared.
LEMMA MarksAreNumbers ==
  ASSUME TypeOK
  PROVE  /\ src \in Int /\ src > 0 /\ root \in Int /\ sidecar \in Nat /\ decMark \in Int /\ attempt \in Int
         /\ dec.of \in Int /\ ileMark[1] \in Int
<1>1. /\ src \in 1 .. MaxVersion /\ {root, sidecar, decMark} \subseteq (1 .. MaxVersion) \cup {0}
      /\ attempt \in 1 .. 4
  BY DEF TypeOK, Roots, NoRoot, MaxPasswordAttempts
<1>2. dec.of \in (1 .. MaxVersion) \cup {0} BY DEF TypeOK, Roots, NoRoot
<1>3. ileMark[1] \in (1 .. MaxVersion) \cup {0} BY DEF TypeOK, Roots, NoRoot, NoMark
<1>4. MaxVersion \in Nat BY ProcessorAssumption
<1> QED BY <1>1, <1>2, <1>3, <1>4

\* The sidecar names what was hashed, and what was hashed is never ahead of the
\* backup (hashBackup).
LEMMA RootKnownHolds == ASSUME IInv, [Next]_vars PROVE RootKnown'
<1>0. TypeOK /\ RootKnown BY DEF IInv
<1>N. src \in Int /\ src > 0 /\ root \in Int /\ sidecar \in Nat /\ attempt \in Int BY <1>0, MarksAreNumbers
<1> USE DEF RootKnown, local, Goes, Outside, First, Early, Crashes
<1>1. CASE StartPass BY <1>0, <1>N, <1>1 DEF StartPass, disk, NoRoot
<1>2. CASE Hash BY <1>0, <1>N, <1>2 DEF Hash, disk, NoRoot
<1>3. CASE WriteManifest BY <1>0, <1>N, <1>3 DEF WriteManifest
<1>4. CASE WriteSidecar BY <1>0, <1>N, <1>4 DEF WriteSidecar
<1>5. CASE HashFails \/ RecheckOrRepairFails BY <1>0, <1>N, <1>5 DEF HashFails, RecheckOrRepairFails, disk
<1>6. CASE Look BY <1>0, <1>N, <1>6 DEF Look, disk
<1>7. CASE Summary BY <1>0, <1>N, <1>7 DEF Summary, disk
<1>8. CASE RemoveDec("clear_dec", "clear_ile") \/ RemoveDec("remove_dec", "password")
  BY <1>0, <1>N, <1>8 DEF RemoveDec, MaxPasswordAttempts
<1>9. CASE RemoveIle("clear_ile", "clear_crash") \/ RemoveIle("remove_ile", "ileapp_run") BY <1>0, <1>N, <1>9 DEF RemoveIle
<1>10. CASE RemoveCrash("clear_crash", "withdraw_dec") \/ RemoveCrash("remove_crash", "copy")
  BY <1>0, <1>N, <1>10 DEF RemoveCrash
<1>11. CASE WithdrawDec BY <1>0, <1>N, <1>11 DEF WithdrawDec
<1>12. CASE WithdrawIle("withdraw_ile", "remove_dec") \/ WithdrawIle("withdraw_ileapp", "remove_ile")
  BY <1>0, <1>N, <1>12 DEF WithdrawIle
<1>13. CASE TakePassword BY <1>0, <1>N, <1>13 DEF TakePassword, disk
<1>14. CASE PromptError BY <1>0, <1>N, <1>14 DEF PromptError, disk
<1>15. CASE StartDecrypt BY <1>0, <1>N, <1>15 DEF StartDecrypt
<1>16. CASE EndDecrypt BY <1>0, <1>N, <1>16 DEF EndDecrypt
<1>17. ASSUME NEW w, AttemptFailed(w), pc \in {"decrypt", "decrypting"} PROVE RootKnown'
  <2>1. (pc' = "password" /\ attempt + 1 <= MaxPasswordAttempts) \/ pc' = "summary" BY <1>17 DEF AttemptFailed, Again
  <2> QED BY <1>0, <1>N, <1>17, <2>1 DEF AttemptFailed
<1>18. CASE WrongPassword \/ DecryptRefused \/ DecryptFails BY <1>17, <1>18 DEF WrongPassword, DecryptRefused, DecryptFails
<1>19. CASE Recheck BY <1>0, <1>N, <1>19 DEF Recheck, disk
<1>20. CASE Repair BY <1>0, <1>N, <1>20 DEF Repair
<1>21. CASE MarkDec BY <1>0, <1>N, <1>21 DEF MarkDec
<1>22. CASE LookIleapp BY <1>0, <1>N, <1>22 DEF LookIleapp, disk
<1>23. CASE RunIleapp BY <1>0, <1>N, <1>23 DEF RunIleapp
<1>24. CASE MarkIle BY <1>0, <1>N, <1>24 DEF MarkIle
<1>25. CASE IleappFails BY <1>0, <1>N, <1>25 DEF IleappFails
<1>26. CASE LookCrash BY <1>0, <1>N, <1>26 DEF LookCrash, disk
<1>27. CASE WithdrawCrash BY <1>0, <1>N, <1>27 DEF WithdrawCrash
<1>28. CASE CopyCrash BY <1>0, <1>N, <1>28 DEF CopyCrash
<1>29. CASE MarkCrash BY <1>0, <1>N, <1>29 DEF MarkCrash
<1>30. CASE CrashFails BY <1>0, <1>N, <1>30 DEF CrashFails
<1>31. CASE Killed BY <1>0, <1>N, <1>31 DEF Killed
<1>32. CASE BackupChanges BY <1>0, <1>N, <1>32 DEF BackupChanges
<1>33. CASE AcquisitionChanges BY <1>0, <1>N, <1>33 DEF AcquisitionChanges, disk
<1>34. CASE UNCHANGED vars BY <1>0, <1>N, <1>34 DEF vars, disk
<1> QED BY <1>1, <1>2, <1>3, <1>4, <1>5, <1>6, <1>7, <1>8, <1>9, <1>10, <1>11, <1>12, <1>13, <1>14, <1>15,
         <1>16, <1>18, <1>19, <1>20, <1>21, <1>22, <1>23, <1>24, <1>25, <1>26, <1>27, <1>28, <1>29, <1>30,
         <1>31, <1>32, <1>33, <1>34 DEF Next, Works, ClearStale

-------------------------------------------------------------------------------
(* The decrypt and its marker, step by step. *)

\* A decrypt gets its marker whole and of the content hashed, and loses it before
\* it is touched (main.ts, preparing one backup).
LEMMA DecKnownHolds == ASSUME IInv, [Next]_vars PROVE DecKnown'
<1>0. TypeOK /\ RootKnown /\ DecKnown /\ IleKnown BY DEF IInv
<1>N. src \in Int /\ src > 0 /\ root \in Int /\ sidecar \in Nat /\ decMark \in Int /\ dec.of \in Int
  BY <1>0, MarksAreNumbers
<1> USE DEF DecKnown, RootKnown, DecryptAccepted, Unmarked, Early, NoRoot, local, Goes, Outside
<1>1. CASE StartPass BY <1>0, <1>N, <1>1 DEF StartPass, disk
<1>2. CASE Hash BY <1>0, <1>N, <1>2 DEF Hash, disk
<1>3. CASE WriteManifest BY <1>0, <1>N, <1>3 DEF WriteManifest
<1>4. CASE WriteSidecar BY <1>0, <1>N, <1>4 DEF WriteSidecar
<1>5. CASE HashFails BY <1>0, <1>N, <1>5 DEF HashFails, disk
<1>6. CASE Look BY <1>0, <1>N, <1>6 DEF Look, DecryptIsCurrent, disk
<1>7. CASE RemoveDec("clear_dec", "clear_ile") \/ RemoveDec("remove_dec", "password")
  BY <1>0, <1>N, <1>7 DEF RemoveDec
<1>8. CASE RemoveIle("clear_ile", "clear_crash") \/ RemoveIle("remove_ile", "ileapp_run")
  BY <1>0, <1>N, <1>8 DEF RemoveIle
<1>9. CASE RemoveCrash("clear_crash", "withdraw_dec") \/ RemoveCrash("remove_crash", "copy")
  BY <1>0, <1>N, <1>9 DEF RemoveCrash
<1>10. CASE WithdrawDec BY <1>0, <1>N, <1>10 DEF WithdrawDec, Withdrawn
<1>11. CASE WithdrawIle("withdraw_ile", "remove_dec") \/ WithdrawIle("withdraw_ileapp", "remove_ile")
  BY <1>0, <1>N, <1>11 DEF WithdrawIle, IleMarkWithdrawn
<1>12. CASE TakePassword BY <1>0, <1>N, <1>12 DEF TakePassword, disk
<1>13. CASE PromptError BY <1>0, <1>N, <1>13 DEF PromptError, disk
<1>14. CASE StartDecrypt BY <1>0, <1>N, <1>14 DEF StartDecrypt, Dir
<1>15. CASE EndDecrypt BY <1>0, <1>N, <1>15 DEF EndDecrypt, Dir
<1>16. CASE WrongPassword BY <1>0, <1>N, <1>16 DEF WrongPassword, AttemptFailed, Again, Dir
<1>17. CASE DecryptRefused BY <1>0, <1>N, <1>17 DEF DecryptRefused, AttemptFailed, Again
<1>18. CASE DecryptFails BY <1>0, <1>N, <1>18 DEF DecryptFails, AttemptFailed, Again, Dir
<1>19. CASE Recheck BY <1>0, <1>N, <1>19 DEF Recheck, BackupUnchanged, disk
<1>20. CASE Repair BY <1>0, <1>N, <1>20 DEF Repair, Dir
<1>21. CASE RecheckOrRepairFails BY <1>0, <1>N, <1>21 DEF RecheckOrRepairFails, disk
<1>22. CASE MarkDec BY <1>0, <1>N, <1>22 DEF MarkDec
<1>23. CASE LookIleapp BY <1>0, <1>N, <1>23 DEF LookIleapp, disk
<1>24. CASE RunIleapp BY <1>0, <1>N, <1>24 DEF RunIleapp
<1>25. CASE MarkIle BY <1>0, <1>N, <1>25 DEF MarkIle
<1>26. CASE IleappFails BY <1>0, <1>N, <1>26 DEF IleappFails
<1>27. CASE LookCrash BY <1>0, <1>N, <1>27 DEF LookCrash, disk
<1>28. CASE WithdrawCrash BY <1>0, <1>N, <1>28 DEF WithdrawCrash
<1>29. CASE CopyCrash BY <1>0, <1>N, <1>29 DEF CopyCrash
<1>30. CASE MarkCrash BY <1>0, <1>N, <1>30 DEF MarkCrash
<1>31. CASE CrashFails BY <1>0, <1>N, <1>31 DEF CrashFails
<1>32. CASE Summary BY <1>0, <1>N, <1>32 DEF Summary, disk
<1>33. CASE Killed
  <2>1. decMark' \in {decMark, NoRoot} /\ (dec' = dec \/ TornDec) BY <1>0, <1>33 DEF Killed, Torn, Dir, TypeOK
  <2>2. TornDec => decMark # root /\ root = sidecar BY <1>0 DEF TornDec
  <2>3. sidecar' = sidecar /\ pc' = "off" BY <1>33 DEF Killed
  <2> QED BY <1>0, <1>N, <2>1, <2>2, <2>3
<1>34. CASE BackupChanges BY <1>0, <1>N, <1>34 DEF BackupChanges, Mixed, Dir
<1>35. CASE AcquisitionChanges BY <1>0, <1>N, <1>35 DEF AcquisitionChanges, disk
<1>36. CASE UNCHANGED vars BY <1>0, <1>N, <1>36 DEF vars, disk
<1> QED BY <1>1, <1>2, <1>3, <1>4, <1>5, <1>6, <1>7, <1>8, <1>9, <1>10, <1>11, <1>12, <1>13, <1>14, <1>15,
         <1>16, <1>17, <1>18, <1>19, <1>20, <1>21, <1>22, <1>23, <1>24, <1>25, <1>26, <1>27, <1>28, <1>29, <1>30,
         <1>31, <1>32, <1>33, <1>34, <1>35, <1>36 DEF Next, Works, ClearStale

-------------------------------------------------------------------------------
(* iLEAPP's output and its marker, step by step. *)

\* iLEAPP's output gets its marker whole and from the decrypt on disk, and loses it
\* before either is touched.
LEMMA IleKnownHolds == ASSUME IInv, [Next]_vars PROVE IleKnown'
<1>0. TypeOK /\ RootKnown /\ DecKnown /\ IleKnown BY DEF IInv
<1>N. src \in Int /\ src > 0 /\ root \in Int /\ sidecar \in Nat /\ decMark \in Int /\ ileMark[1] \in Int
  BY <1>0, MarksAreNumbers
<1> USE DEF NoMark, IleKnown, DecKnown, RootKnown, DecryptAccepted, NoIleMark, Unmarked, Early, NoRoot, local, Goes, Outside
<1>1. CASE StartPass BY <1>0, <1>N, <1>1 DEF StartPass, disk
<1>2. CASE Hash BY <1>0, <1>N, <1>2 DEF Hash, disk
<1>3. CASE WriteManifest BY <1>0, <1>N, <1>3 DEF WriteManifest
<1>4. CASE WriteSidecar BY <1>0, <1>N, <1>4 DEF WriteSidecar
<1>5. CASE HashFails BY <1>0, <1>N, <1>5 DEF HashFails, disk
<1>6. CASE Look BY <1>0, <1>N, <1>6 DEF Look, DecryptIsCurrent, disk
<1>7. CASE RemoveDec("clear_dec", "clear_ile") \/ RemoveDec("remove_dec", "password")
  BY <1>0, <1>N, <1>7 DEF RemoveDec
<1>8. CASE RemoveIle("clear_ile", "clear_crash") \/ RemoveIle("remove_ile", "ileapp_run")
  BY <1>0, <1>N, <1>8 DEF RemoveIle
<1>9. CASE RemoveCrash("clear_crash", "withdraw_dec") \/ RemoveCrash("remove_crash", "copy")
  BY <1>0, <1>N, <1>9 DEF RemoveCrash
<1>10. CASE WithdrawDec BY <1>0, <1>N, <1>10 DEF WithdrawDec, Withdrawn
<1>11. CASE WithdrawIle("withdraw_ile", "remove_dec") \/ WithdrawIle("withdraw_ileapp", "remove_ile")
  BY <1>0, <1>N, <1>11 DEF WithdrawIle, IleMarkWithdrawn
<1>12. CASE TakePassword BY <1>0, <1>N, <1>12 DEF TakePassword, disk
<1>13. CASE PromptError BY <1>0, <1>N, <1>13 DEF PromptError, disk
<1>14. CASE StartDecrypt BY <1>0, <1>N, <1>14 DEF StartDecrypt, Dir
<1>15. CASE EndDecrypt BY <1>0, <1>N, <1>15 DEF EndDecrypt, Dir
<1>16. CASE WrongPassword BY <1>0, <1>N, <1>16 DEF WrongPassword, AttemptFailed, Again, Dir
<1>17. CASE DecryptRefused BY <1>0, <1>N, <1>17 DEF DecryptRefused, AttemptFailed, Again
<1>18. CASE DecryptFails BY <1>0, <1>N, <1>18 DEF DecryptFails, AttemptFailed, Again, Dir
<1>19. CASE Recheck BY <1>0, <1>N, <1>19 DEF Recheck, BackupUnchanged, disk
<1>20. CASE Repair BY <1>0, <1>N, <1>20 DEF Repair, Dir
<1>21. CASE RecheckOrRepairFails BY <1>0, <1>N, <1>21 DEF RecheckOrRepairFails, disk
<1>22. CASE MarkDec BY <1>0, <1>N, <1>22 DEF MarkDec
<1>23. CASE LookIleapp BY <1>0, <1>N, <1>23 DEF LookIleapp, disk
<1>24. CASE RunIleapp BY <1>0, <1>N, <1>24 DEF RunIleapp
<1>25. CASE MarkIle BY <1>0, <1>N, <1>25 DEF MarkIle
<1>26. CASE IleappFails BY <1>0, <1>N, <1>26 DEF IleappFails
<1>27. CASE LookCrash BY <1>0, <1>N, <1>27 DEF LookCrash, disk
<1>28. CASE WithdrawCrash BY <1>0, <1>N, <1>28 DEF WithdrawCrash
<1>29. CASE CopyCrash BY <1>0, <1>N, <1>29 DEF CopyCrash
<1>30. CASE MarkCrash BY <1>0, <1>N, <1>30 DEF MarkCrash
<1>31. CASE CrashFails BY <1>0, <1>N, <1>31 DEF CrashFails
<1>32. CASE Summary BY <1>0, <1>N, <1>32 DEF Summary, disk
<1>33. CASE Killed
  <2>1. /\ decMark' \in {decMark, NoRoot} /\ ileMark' \in {ileMark, NoMark}
        /\ ile' = ile \/ TornIle \/ pc = "ileapp_run"
    BY <1>33 DEF Killed, Torn
  <2>2. TornIle => ileMark = NoMark \/ decMark = NoRoot BY <1>0 DEF TornIle
  <2>3. pc = "ileapp_run" => ileMark = NoMark BY <1>0
  <2>4. sidecar' = sidecar /\ pc' = "off" /\ ileOfDec' = ileOfDec BY <1>33 DEF Killed
  <2> QED BY <1>0, <1>N, <2>1, <2>2, <2>3, <2>4
<1>34. CASE BackupChanges BY <1>0, <1>N, <1>34 DEF BackupChanges, Mixed, Dir
<1>35. CASE AcquisitionChanges BY <1>0, <1>N, <1>35 DEF AcquisitionChanges, disk
<1>36. CASE UNCHANGED vars BY <1>0, <1>N, <1>36 DEF vars, disk
<1> QED BY <1>1, <1>2, <1>3, <1>4, <1>5, <1>6, <1>7, <1>8, <1>9, <1>10, <1>11, <1>12, <1>13, <1>14, <1>15,
         <1>16, <1>17, <1>18, <1>19, <1>20, <1>21, <1>22, <1>23, <1>24, <1>25, <1>26, <1>27, <1>28, <1>29, <1>30,
         <1>31, <1>32, <1>33, <1>34, <1>35, <1>36 DEF Next, Works, ClearStale

-------------------------------------------------------------------------------
(* What a pass has done by the time it reports. *)

Hashed == sidecar = root /\ DecryptAccepted
OnceDecrypted == {"ileapp", "withdraw_ileapp", "remove_ile", "ileapp_run", "mark_ile", "crash"} \cup Crashes
\* From the decrypt's marker on, the decrypt is the hashed content's; from
\* iLEAPP's on, either its output is this pass's or the backup is recorded as
\* failed; and no other way leads to the summary.
PassKnown ==
  /\ pc # "off" => reported = "none"
  /\ password = "raised" => pc \in {"summary", "off"}
  /\ pc \in OnceDecrypted => Hashed
  /\ pc \in {"crash"} \cup Crashes /\ ~failed => ileMark = <<root, flags.tool>>
  /\ pc = "summary" /\ ~failed /\ password # "raised" => Hashed /\ ileMark = <<root, flags.tool>>
  /\ SuccessMeansPrepared

\* No step of a pass loses what was done, but a failure that is recorded.
LEMMA PassKnownHolds == ASSUME IInv, PassKnown, [Next]_vars PROVE PassKnown'
<1>0. TypeOK /\ RootKnown /\ DecKnown /\ PassKnown BY DEF IInv
<1>N. src \in Int /\ src > 0 /\ root \in Int /\ sidecar \in Nat /\ decMark \in Int /\ attempt \in Int
  BY <1>0, MarksAreNumbers
<1>T. failed \in BOOLEAN BY <1>0 DEF TypeOK
<1> USE DEF PassKnown, SuccessMeansPrepared, Hashed, OnceDecrypted, Crashes, RootKnown, DecryptAccepted, Early, NoRoot,
            local, Goes, Outside
<1>1. CASE StartPass BY <1>0, <1>1 DEF StartPass, disk
<1>2. CASE Hash BY <1>0, <1>2 DEF Hash, disk
<1>3. CASE WriteManifest BY <1>0, <1>3 DEF WriteManifest
<1>4. CASE WriteSidecar BY <1>0, <1>4 DEF WriteSidecar
<1>5. CASE HashFails \/ RecheckOrRepairFails BY <1>0, <1>5 DEF HashFails, RecheckOrRepairFails, Records, disk
<1>6. CASE Look BY <1>0, <1>6 DEF Look, DecryptIsCurrent, disk
<1>7. CASE RemoveDec("clear_dec", "clear_ile") \/ RemoveDec("remove_dec", "password")
  BY <1>0, <1>7 DEF RemoveDec
<1>8. CASE RemoveIle("clear_ile", "clear_crash") \/ RemoveIle("remove_ile", "ileapp_run")
  BY <1>0, <1>8 DEF RemoveIle
<1>9. CASE RemoveCrash("clear_crash", "withdraw_dec") \/ RemoveCrash("remove_crash", "copy")
  BY <1>0, <1>9 DEF RemoveCrash, NoFault
<1>10. CASE WithdrawDec BY <1>0, <1>10 DEF WithdrawDec
<1>11. CASE WithdrawIle("withdraw_ile", "remove_dec") \/ WithdrawIle("withdraw_ileapp", "remove_ile")
  BY <1>0, <1>11 DEF WithdrawIle
<1>12. CASE TakePassword BY <1>0, <1>12 DEF TakePassword, UsesCached, TypeOK, disk
<1>13. CASE PromptError BY <1>0, <1>13 DEF PromptError, disk
<1>14. CASE StartDecrypt BY <1>0, <1>14 DEF StartDecrypt
<1>15. CASE EndDecrypt BY <1>0, <1>15 DEF EndDecrypt
<1>16. ASSUME NEW w, AttemptFailed(w), pc \in {"decrypt", "decrypting"} PROVE PassKnown'
  <2>1. attempt = MaxPasswordAttempts \/ attempt + 1 <= MaxPasswordAttempts
    BY <1>0, <1>N, <1>16 DEF MaxPasswordAttempts
  <2>2. pc' = "password" \/ (pc' = "summary" /\ attempt = MaxPasswordAttempts) BY <1>16, <2>1 DEF AttemptFailed, Again
  <2>3. attempt = MaxPasswordAttempts => failed' BY <1>16, ZenonT(30) DEF AttemptFailed
  <2> QED BY <1>0, <1>16, <2>2, <2>3 DEF AttemptFailed
<1>17. CASE WrongPassword \/ DecryptRefused \/ DecryptFails BY <1>16, <1>17 DEF WrongPassword, DecryptRefused, DecryptFails
<1>18. CASE Recheck BY <1>0, <1>18 DEF Recheck, disk
<1>19. CASE Repair BY <1>0, <1>19 DEF Repair
<1>20. CASE MarkDec BY <1>0, <1>20 DEF MarkDec
<1>21. CASE LookIleapp BY <1>0, <1>21 DEF LookIleapp, IleappReused, disk, NoFault
<1>22. CASE RunIleapp BY <1>0, <1>22 DEF RunIleapp
<1>23. CASE MarkIle BY <1>0, <1>23 DEF MarkIle
<1>24. CASE IleappFails BY <1>0, <1>24 DEF IleappFails, RecordsIleapp, Records
<1>25. CASE LookCrash
  <2>1. ~failed' => ~failed BY <1>25, ZenonT(30) DEF LookCrash
  <2> QED BY <1>0, <1>25, <2>1 DEF LookCrash, disk
<1>26. CASE WithdrawCrash BY <1>0, <1>26 DEF WithdrawCrash, NoFault
<1>27. CASE CopyCrash BY <1>0, <1>27 DEF CopyCrash
<1>28. CASE MarkCrash BY <1>0, <1>28 DEF MarkCrash, NoFault
<1>29. CASE CrashFails BY <1>0, <1>29 DEF CrashFails, Records
<1>30. CASE Summary BY <1>0, <1>30 DEF Summary, disk
<1>31. CASE Killed BY <1>0, <1>31 DEF Killed
<1>32. CASE BackupChanges BY <1>0, <1>32 DEF BackupChanges
<1>33. CASE AcquisitionChanges BY <1>0, <1>33 DEF AcquisitionChanges, disk
<1>34. CASE UNCHANGED vars BY <1>0, <1>34 DEF vars, disk
<1> QED BY <1>1, <1>2, <1>3, <1>4, <1>5, <1>6, <1>7, <1>8, <1>9, <1>10, <1>11, <1>12, <1>13, <1>14, <1>15,
         <1>17, <1>18, <1>19, <1>20, <1>21, <1>22, <1>23, <1>24, <1>25, <1>26, <1>27, <1>28, <1>29, <1>30,
         <1>31, <1>32, <1>33, <1>34 DEF Next, Works, ClearStale

-------------------------------------------------------------------------------
(* The theorems. *)

\* The invariant holds for ever, whatever pass is killed where.
THEOREM Invariant == Spec => []IInv
<1>1. ASSUME IInv, [Next]_vars PROVE IInv' BY <1>1, TypeOKHolds, RootKnownHolds, DecKnownHolds, IleKnownHolds DEF IInv
<1> QED BY <1>1, InitIInv, PTL DEF Spec

\* Whatever was killed, failed or replaced, and when, no marker registration or
\* a later pass would trust speaks for a decrypt or an iLEAPP output that is not
\* there, not whole, or not of that content (main.ts, preparing one backup).
THEOREM MarkersNeverLie == Spec => []MarkersAreTrue
<1>1. IInv => MarkersAreTrue 
  BY DEF IInv, RootKnown, DecKnown, IleKnown, MarkersAreTrue, AcceptedIsWhole, IleappIsOfTheDecrypt, DecryptAccepted
<1> QED BY <1>1, Invariant, PTL

\* A pass that reports success leaves the backup it hashed prepared, decrypted
\* and read by this pass's iLEAPP, whatever earlier passes left behind and
\* whatever changed meanwhile; but for a prompt that raised (main.ts,
\* failedBackups and the exit code).
THEOREM SuccessIsPrepared == Spec => []SuccessMeansPrepared
<1>1. Init => PassKnown
  BY DEF Init, PassKnown, SuccessMeansPrepared, Hashed, OnceDecrypted, Crashes
<1>2. IInv /\ PassKnown /\ [Next]_vars => PassKnown' BY PassKnownHolds
<1>3. PassKnown => SuccessMeansPrepared BY DEF PassKnown
<1> QED BY <1>1, <1>2, <1>3, Invariant, PTL DEF Spec

-------------------------------------------------------------------------------
(* A run of iLEAPP. *)


\* What of the types the argument needs: the fields a step updates are there.
ToolType == [pc : {"none", "setup", "module", "between", "report", "exits", "exited"}, at : Int,
             helpers : SUBSET Helpers, told : BOOLEAN, report : {"absent", "partial", "whole"}, code : {None, 0, 1}]
RunType == [pc : {"running", "closing", "ok", "failed", "ended"}, left : Int \cup {None},
            reason : {None, "limit", "log"}, log : {"open", "failed"}, good : BOOLEAN, tracked : BOOLEAN]
Typed == tool \in ToolType /\ run \in RunType

\* Nobody is left who could hold the pipes; nobody is left at all.
Closed(t) == t.pc \in {"none", "exited"} /\ "pipes" \notin t.helpers
ToolGone(t) == t.pc \in {"none", "exited"} /\ t.helpers = {}
\* While the run goes on, what was started is tracked, so a stop reaches it; a
\* tool that never started has no helper; after "close" nobody has the pipes,
\* after a stop by limit or log nothing is left, and what goes on when the
\* processor has ended was sent its signal.
Reached ==
  /\ run.pc = "running" /\ tool.pc # "none" => run.tracked
  /\ tool.pc = "none" => tool.helpers = {}
  /\ run.pc # "running" => Closed(tool) \/ (run.pc = "ended" /\ tool.told)
  /\ run.reason # None => ToolGone(tool)
ReachedInv == Typed /\ Reached

\* The initial states are typed, and track what was started.
LEMMA InitReached == IleappInit => ReachedInv
<1> SUFFICES ASSUME IleappInit PROVE ReachedInv OBVIOUS
<1>1. PICK where \in {"none", "setup"} :
        tool = [pc |-> where, at |-> 0, helpers |-> {}, told |-> FALSE, report |-> "absent", code |-> None]
  BY DEF IleappInit
<1>2. tool \in ToolType /\ tool.pc = where /\ tool.helpers = {} BY <1>1 DEF ToolType
<1>3. run = [pc |-> "running", left |-> Limit, reason |-> None, log |-> "open", good |-> FALSE,
             tracked |-> tool.pc # "none"]
  BY DEF IleappInit
<1>4. Limit \in Int BY IleappRunAssumption
<1>5. (tool.pc # "none") \in BOOLEAN OBVIOUS
<1>6. run \in RunType /\ run.pc = "running" /\ run.reason = None /\ run.tracked = (tool.pc # "none") BY <1>3, <1>4, <1>5 DEF RunType
<1> QED BY <1>2, <1>6 DEF ReachedInv, Typed, Reached, ToolGone

\* Killing the group leaves nothing of it.
LEMMA GoneIsGone ==
  ASSUME tool \in ToolType
  PROVE  /\ GroupKilled \in ToolType /\ ToolGone(GroupKilled)
         /\ \A code \in {None, 0, 1} :
              LET t == [GroupKilled EXCEPT !.code = code] IN t \in ToolType /\ ToolGone(t)
BY DEF Dead, GroupKilled, ToolType, ToolGone, Helpers

\* A stop kills the group or finds nothing to kill; of the run it changes no
\* more than the reason.
LEMMA StopKills ==
  ASSUME Typed, tool.pc = "none" => tool.helpers = {}, NEW r \in RunType, NEW reason \in {"limit", "log"},
         Stop(r, reason), r.reason # None => ToolGone(tool)
  PROVE  /\ run' \in RunType /\ run'.pc = r.pc /\ run'.tracked = r.tracked
         /\ tool' \in ToolType /\ ToolGone(tool')
         /\ tool' = tool \/ tool.pc # "none"
<1>1. CASE r.reason # None
  BY <1>1 DEF Stop, Typed
<1>2. CASE r.reason = None
  <2>1. run' = [r EXCEPT !.reason = reason] BY <1>2 DEF Stop
  <2>2. run' \in RunType /\ run'.pc = r.pc /\ run'.tracked = r.tracked BY <2>1 DEF RunType
  <2>3. CASE tool.pc = "none" BY <1>2, <2>2, <2>3 DEF Stop, Typed, ToolGone
  <2>4. CASE tool.pc = "exited"
    <3>1. tool' = [GroupKilled EXCEPT !.code = tool.code] BY <1>2, <2>4 DEF Stop
    <3>2. tool.code \in {None, 0, 1} BY DEF Typed, ToolType
    <3> QED BY <2>2, <2>4, <3>1, <3>2, GoneIsGone DEF Typed
  <2>5. CASE tool.pc \notin {"none", "exited"}
    <3>1. tool' = GroupKilled BY <1>2, <2>5 DEF Stop
    <3> QED BY <2>2, <2>5, <3>1, GoneIsGone DEF Typed
  <2> QED BY <2>3, <2>4, <2>5
<1> QED BY <1>1, <1>2

\* One step per action of the model.
LEMMA NextReached == ReachedInv /\ [IleappNext]_ileappVars => ReachedInv'
<1> SUFFICES ASSUME ReachedInv, [IleappNext]_ileappVars PROVE ReachedInv' OBVIOUS
<1> USE DEF ReachedInv, Typed, Reached, ToolGone, Closed
<1>1. CASE ToolStep
  <2>0. PICK p \in Prints[tool.pc] : \E started \in SUBSET (IF p.pc = "between" THEN Helpers ELSE {}) :
          tool' = [tool EXCEPT !.pc = p.pc, !.at = p.at, !.helpers = @ \cup started,
                               !.report = IF p.pc = "exits" THEN "whole" ELSE "partial"]
    BY <1>1 DEF ToolStep
  <2>1. PICK started \in SUBSET Helpers :
          tool' = [tool EXCEPT !.pc = p.pc, !.at = p.at, !.helpers = @ \cup started,
                               !.report = IF p.pc = "exits" THEN "whole" ELSE "partial"]
    BY <2>0
  <2>2. tool.pc \in {"setup", "module", "between", "report"} BY <1>1 DEF ToolStep, Working, Prints
  <2>3. p.pc \in {"module", "between", "report", "exits"} /\ p.at \in Int
    BY <2>2, IleappRunAssumption DEF Prints, Line, ToolType
  <2>4. tool.helpers \cup started \in SUBSET Helpers BY DEF ToolType
  <2>5. tool' \in ToolType /\ tool'.pc # "none" /\ tool'.told = tool.told BY <2>1, <2>3, <2>4 DEF ToolType
  <2>6. run' = run /\ run.reason = None /\ (run.pc = "running" \/ (run.pc = "ended" /\ tool.told)) BY <1>1, <2>2 DEF ToolStep
  <2> QED BY <2>2, <2>5, <2>6
<1>2. CASE Exits
  BY <1>2 DEF Exits, ToolType
<1>3. CASE ToolDies
  <2>1. tool' = Dead /\ tool.pc \notin {"none", "exited"} /\ run' = run
    BY <1>3 DEF ToolDies
  <2>2. tool' \in ToolType /\ tool'.pc = "exited" /\ tool'.helpers = tool.helpers /\ tool'.told = tool.told
    BY <2>1 DEF Dead, ToolType
  <2> QED BY <2>1, <2>2
<1>4. CASE HelperEnds
  <2>0. PICK h \in tool.helpers : tool' = [tool EXCEPT !.helpers = @ \ {h}] BY <1>4 DEF HelperEnds
  <2>1. /\ tool' \in ToolType /\ tool'.pc = tool.pc /\ tool'.helpers \subseteq tool.helpers /\ tool'.told = tool.told
        /\ run' = run
    BY <1>4, <2>0 DEF HelperEnds, ToolType
  <2> QED BY <2>1
<1>5. CASE Read
  <2>1. run' \in RunType /\ run'.pc = run.pc /\ run'.tracked = run.tracked /\ run'.reason = run.reason
    BY <1>5, IleappRunAssumption DEF Read, Armed, RunType
  <2> QED BY <1>5, <2>1 DEF Read
<1>6. CASE TimerFires
  <2> DEFINE r == [run EXCEPT !.left = None]
  <2>1. r \in RunType /\ r.pc = run.pc /\ r.tracked = run.tracked /\ r.reason = run.reason BY DEF RunType
  <2>2. Stop(r, "limit") BY <1>6 DEF TimerFires
  <2> HIDE DEF r
  <2>3. /\ run' \in RunType /\ run'.pc = run.pc /\ run'.tracked = run.tracked
        /\ tool' \in ToolType /\ ToolGone(tool') /\ (tool' = tool \/ tool.pc # "none")
    BY <2>1, <2>2, StopKills
  <2> QED BY <2>3
<1>7. CASE SpawnFails
  <2>1. tool' = tool /\ tool.pc = "none" BY <1>7 DEF SpawnFails
  <2>2. run' \in RunType /\ run'.pc = "closing" BY <1>7 DEF SpawnFails, RunType
  <2> QED BY <2>1, <2>2
<1>8. CASE Close
  <2> DEFINE r == [run EXCEPT !.pc = "closing", !.left = None, !.tracked = FALSE,
                              !.good = tool.code = 0 /\ run.reason = None]
  <2>1. r \in RunType /\ r.pc = "closing" /\ r.reason = run.reason BY DEF RunType
  <2>2. run' = r \/ run' = Armed(r, progress, pipe[1]) BY <1>8 DEF Close
  <2> HIDE DEF r
  <2>3. run' \in RunType /\ run'.pc = "closing" /\ run'.reason = run.reason
    BY <2>1, <2>2, IleappRunAssumption DEF Armed, RunType
  <2> QED BY <1>8, <2>3 DEF Close
<1>9. CASE Settle
  <2>1. run' \in RunType /\ run'.pc \in {"ok", "failed"} /\ run'.reason = run.reason /\ run.pc = "closing"
    BY <1>9 DEF Settle, RunType
  <2> QED BY <1>9, <2>1 DEF Settle
<1>10. CASE Tick
  <2>1. run' \in RunType /\ run'.pc = run.pc /\ run'.tracked = run.tracked /\ run'.reason = run.reason
    BY <1>10 DEF Tick, RunType
  <2> QED BY <1>10, <2>1 DEF Tick
<1>11. CASE LogFails
  <2> DEFINE r == [run EXCEPT !.log = "failed"]
  <2>1. r \in RunType /\ r.pc = run.pc /\ r.tracked = run.tracked /\ r.reason = run.reason BY DEF RunType
  <2>2. Stop(r, "log") BY <1>11 DEF LogFails
  <2> HIDE DEF r
  <2>3. /\ run' \in RunType /\ run'.pc = run.pc /\ run'.tracked = run.tracked
        /\ tool' \in ToolType /\ ToolGone(tool') /\ (tool' = tool \/ tool.pc # "none")
    BY <2>1, <2>2, StopKills
  <2> QED BY <2>3
<1>12. CASE Signalled
  <2>1. run' \in RunType /\ run'.pc = "ended" /\ run'.reason = run.reason BY <1>12 DEF Signalled, RunType
  <2>2. tool' = [tool EXCEPT !.told = run.tracked] BY <1>12 DEF Signalled, Forwards
  <2>3. tool' \in ToolType /\ tool'.pc = tool.pc /\ tool'.helpers = tool.helpers /\ tool'.told = run.tracked
    BY <2>2 DEF ToolType, RunType
  <2>4. run.pc = "running" \/ run.pc = "closing" BY <1>12 DEF Signalled
  <2> QED BY <2>1, <2>3, <2>4
<1>13. CASE UNCHANGED ileappVars
  BY <1>13 DEF ileappVars
<1> QED
  BY <1>1, <1>2, <1>3, <1>4, <1>5, <1>6, <1>7, <1>8, <1>9, <1>10, <1>11, <1>12, <1>13 DEF IleappNext, Processor

\* A run stopped by its limit or its log leaves nothing behind, one that came to
\* its end has seen iLEAPP exit and the pipes closed, and a processor that was sent
\* a stop has passed it on, unless that end was seen (ileapp.ts, processGroup.ts).
THEOREM NothingOutlivesTheRun == IleappSpec => []NoneLeftBehind
<1>1. ReachedInv => NoneLeftBehind BY DEF ReachedInv, Reached, Closed, ToolGone, NoneLeftBehind, Over
<1> QED BY InitReached, NextReached, <1>1, PTL DEF IleappSpec

-------------------------------------------------------------------------------
(* What the processor has heard, and what it makes of it. *)

\* iLEAPP prints 2 * N + 2 lines; l is the j-th of them.
IsLine(l, j) ==
  \/ l.is = "started" /\ l.module \in 1 .. N /\ j = 2 * l.module - 1
  \/ l.is = "completed" /\ l.module \in 1 .. N /\ j = 2 * l.module
  \/ l.is = "processes" /\ j = 2 * N + 1
  \/ l.is = "reported" /\ j = 2 * N + 2

\* p is what k lines make of a run.
Heard(p, k) ==
  \/ p.phase = "setup" /\ Len(p.modules) = 0 /\ k = 0
  \/ /\ p.phase = "module" /\ Len(p.modules) \in 1 .. N
     /\ k = IF p.modules[Len(p.modules)] = "completed" THEN 2 * Len(p.modules) ELSE 2 * Len(p.modules) - 1
  \/ p.phase = "report" /\ Len(p.modules) = N /\ k = 2 * N + 1
  \/ p.phase = "done" /\ Len(p.modules) = N /\ k = 2 * N + 2
\* t is a tool that has printed k whole lines, or died in the middle of one.
Printed(t, k) ==
  /\ t.pc \in {"none", "setup"} => k = 0
  /\ t.pc = "module" => t.at \in 1 .. N /\ k = 2 * t.at - 1
  /\ t.pc = "between" => t.at \in 1 .. N /\ k = 2 * t.at
  /\ t.pc = "report" => k = 2 * N + 1
  /\ t.pc = "exits" => k = 2 * N + 2 /\ t.report = "whole"
  /\ t.code = 0 => t.pc = "exited" /\ k = 2 * N + 2 /\ t.report = "whole"

Statuses == {"running", "completed", "stopped", "unfinished"}
StopType == [phase : {"setup", "module", "report", "done"}, after : Nat, waited : BOOLEAN]
ProgressType == [phase : {"setup", "module", "report", "done"}, modules : Seq(Statuses), stopped : {None} \cup StopType]
LineType == [is : {"started", "completed", "processes", "reported"}, module : 1 .. N \cup {None}]
Bounded ==
  /\ tool.at \in 0 .. N /\ run.left \in 0 .. Limit \cup {None}
  /\ silent \in [now : 0 .. Limit, longest : 0 .. Limit] /\ silent.now <= silent.longest
  /\ progress \in ProgressType /\ pipe \in Seq(LineType)

\* The lines in the pipe are those between what was heard and what was printed.
Flows ==
  \E k \in 0 .. 2 * N + 2 :
    /\ Heard(progress, k)
    /\ \A i \in 1 .. Len(pipe) : IsLine(pipe[i], k + i)
    /\ k + Len(pipe) <= 2 * N + 2 /\ Printed(tool, k + Len(pipe))

\* Only the module under way runs; only a stop leaves one stopped.
TimingsAre ==
  /\ \A i \in 1 .. Len(progress.modules) :
       i < Len(progress.modules) \/ progress.phase # "module" => progress.modules[i] # "running"
  /\ run.reason = None =>
       progress.stopped = None /\ \A i \in 1 .. Len(progress.modules) : progress.modules[i] \in {"running", "completed"}
  /\ run.reason = "limit" => progress.stopped # None

\* The timer never runs ahead of the silence it times.
Timed ==
  /\ run.reason = None /\ run.left # None /\ run.pc \notin Over =>
       /\ pipe = <<>> => silent.now + run.left >= Limit
       /\ run.left = 0 => silent.longest = Limit
  /\ run.reason = "limit" => silent.longest = Limit

\* What the outcome rests on.
Ends ==
  /\ run.log = "failed" => run.reason # None
  /\ run.good /\ run.pc # "ended" => run.pc # "running" /\ tool.code = 0 /\ run.left = None /\ pipe = <<>>
  /\ run.pc = "ok" => run.good /\ run.reason = None
  /\ run.pc \in {"ok", "failed"} => written = ProgressSummary(progress)

FullInv == ReachedInv /\ Bounded /\ Flows /\ TimingsAre /\ Timed /\ Ends

-------------------------------------------------------------------------------
(* What the operators on the progress and the lines do. *)

\* endPhase changes the status of a module still running, and nothing else.
LEMMA EndPhaseIs ==
  ASSUME NEW p \in ProgressType, NEW status \in Statuses, p.phase = "module" => Len(p.modules) > 0
  PROVE  LET e == EndPhase(p, status) IN
         /\ e \in ProgressType /\ e.phase = p.phase /\ e.stopped = p.stopped /\ Len(e.modules) = Len(p.modules)
         /\ \A i \in 1 .. Len(p.modules) :
              e.modules[i] = IF p.phase = "module" /\ i = Len(p.modules) /\ p.modules[i] = "running"
                             THEN status ELSE p.modules[i]
<1> DEFINE last == Len(p.modules)
           e == EndPhase(p, status)
<1>0. p.modules \in Seq(Statuses) /\ last \in Nat BY LenProperties DEF ProgressType
<1>1. CASE p.phase = "module" /\ p.modules[last] = "running"
  <2>1. e = [p EXCEPT !.modules[last] = status] BY <1>1 DEF EndPhase
  <2>2. last \in 1 .. Len(p.modules) BY <1>0, <1>1
  <2> DEFINE m == [p.modules EXCEPT ![last] = status]
  <2>3. /\ m \in Seq(Statuses) /\ Len(m) = Len(p.modules)
        /\ \A j \in 1 .. Len(p.modules) : m[j] = IF j = last THEN status ELSE p.modules[j]
    BY <1>0, <2>2, ExceptSeq
  <2>4. e = [phase |-> p.phase, modules |-> m, stopped |-> p.stopped] BY <2>1 DEF ProgressType
  <2> HIDE DEF m, e
  <2>5. e \in ProgressType BY <2>3, <2>4 DEF ProgressType
  <2> QED BY <1>1, <2>3, <2>4, <2>5 DEF e
<1>2. CASE ~(p.phase = "module" /\ p.modules[last] = "running")
  <2>1. e = p BY <1>2 DEF EndPhase
  <2> QED BY <1>2, <2>1
<1> QED BY <1>1, <1>2

\* A line that is the next one restarts the limit, and takes the progress one
\* line further.
LEMMA ReadsOn ==
  ASSUME NEW p \in ProgressType, NEW k \in 0 .. 2 * N + 2, Heard(p, k), NEW l \in LineType, IsLine(l, k + 1)
  PROVE  LET q == ReadLine(p, l) IN
         /\ Restarts(p, l)
         /\ q \in ProgressType /\ Heard(q, k + 1) /\ q.stopped = p.stopped
         /\ Len(q.modules) >= Len(p.modules)
         /\ \A i \in 1 .. Len(p.modules) :
              q.modules[i] = IF p.phase = "module" /\ i = Len(p.modules)
                             THEN IF l.is = "completed" \/ p.modules[i] = "running" THEN "completed" ELSE p.modules[i]
                             ELSE p.modules[i]
         /\ Len(q.modules) > Len(p.modules) =>
              /\ Len(q.modules) = Len(p.modules) + 1 /\ q.modules[Len(q.modules)] = "running"
              /\ l.is = "started" /\ q.phase = "module"
<1> DEFINE n == Len(p.modules)
           q == ReadLine(p, l)
           e == EndPhase(p, "completed")
<1>N. N \in Nat \ {0} BY IleappRunAssumption
<1>0. p.modules \in Seq(Statuses) /\ n \in Nat /\ p.phase \in {"setup", "module", "report", "done"}
  BY LenProperties DEF ProgressType
<1>1. p.phase = "module" => n > 0 BY <1>0 DEF Heard
<1>2. /\ e \in ProgressType /\ e.phase = p.phase /\ e.stopped = p.stopped /\ Len(e.modules) = n
      /\ \A i \in 1 .. n : e.modules[i] = IF p.phase = "module" /\ i = n /\ p.modules[i] = "running"
                                         THEN "completed" ELSE p.modules[i]
  BY <1>1, EndPhaseIs DEF Statuses
<1>3. e.modules \in Seq(Statuses) BY <1>2 DEF ProgressType
<1> HIDE DEF e
<1>4. CASE l.is = "started"
  <2>1. l.module \in 1 .. N /\ k + 1 = 2 * l.module - 1 BY <1>4 DEF IsLine
  <2>2. \/ p.phase = "setup" /\ n = 0 /\ l.module = 1
        \/ p.phase = "module" /\ n >= 1 /\ n < N /\ p.modules[n] = "completed" /\ l.module = n + 1
    <3> DEFINE done == p.modules[n] = "completed"
    <3>1. \/ p.phase = "setup" /\ n = 0 /\ k = 0
          \/ p.phase = "module" /\ n \in 1 .. N /\ k = IF done THEN 2 * n ELSE 2 * n - 1
          \/ n = N /\ k \in {2 * N + 1, 2 * N + 2}
      BY <1>0 DEF Heard
    <3> HIDE DEF done, n
    <3>2. CASE p.phase = "setup" /\ n = 0 /\ k = 0 BY <2>1, <3>2
    <3>3. CASE p.phase = "module" /\ n \in 1 .. N /\ k = IF done THEN 2 * n ELSE 2 * n - 1
      <4>1. done /\ k = 2 * n BY <1>N, <2>1, <3>3
      <4>2. l.module = n + 1 /\ n < N /\ n >= 1 BY <1>N, <2>1, <3>3, <4>1
      <4> QED BY <3>3, <4>1, <4>2 DEF done, n
    <3>4. CASE n = N /\ k \in {2 * N + 1, 2 * N + 2} BY <1>N, <2>1, <3>4
    <3> QED BY <3>1, <3>2, <3>3, <3>4
  <2>3. q = [e EXCEPT !.phase = "module", !.modules = Append(e.modules, "running")] BY <1>4 DEF ReadLine, e
  <2> DEFINE m == Append(e.modules, "running")
  <2>4. /\ m \in Seq(Statuses) /\ Len(m) = n + 1 /\ m[n + 1] = "running"
        /\ \A i \in 1 .. n : m[i] = e.modules[i]
    BY <1>0, <1>2, <1>3, AppendProperties DEF Statuses
  <2>5. q = [phase |-> "module", modules |-> m, stopped |-> e.stopped] BY <1>2, <2>3 DEF ProgressType
  <2> HIDE DEF m, q
  <2>6. q \in ProgressType BY <1>2, <2>4, <2>5 DEF ProgressType
  <2>7. Heard(q, k + 1)
    <3>0. l.module = n + 1
      <4>1. CASE n = 0 BY <2>2, <4>1
      <4>2. CASE n # 0 BY <2>2, <4>2
      <4> QED BY <4>1, <4>2
    <3>1. l.module = n + 1 /\ n + 1 \in 1 .. N BY <2>1, <3>0
    <3>2. q.phase = "module" /\ Len(q.modules) = n + 1 /\ q.modules[n + 1] = "running" BY <2>4, <2>5
    <3> QED BY <2>1, <3>1, <3>2 DEF Heard
  <2>8. Restarts(p, l) BY <1>4 DEF Restarts
  <2> QED BY <1>0, <1>2, <1>4, <2>4, <2>5, <2>6, <2>7, <2>8 DEF q
<1>5. CASE l.is = "completed"
  <2>1. l.module \in 1 .. N /\ k + 1 = 2 * l.module BY <1>5 DEF IsLine
  <2>2. p.phase = "module" /\ n \in 1 .. N /\ p.modules[n] # "completed" /\ l.module = n
    BY <1>N, <1>0, <2>1 DEF Heard
  <2>3. Restarts(p, l) BY <1>5, <2>2 DEF Restarts
  <2>4. q = [p EXCEPT !.modules[l.module] = "completed"] BY <1>5, <2>3 DEF ReadLine
  <2> DEFINE m == [p.modules EXCEPT ![n] = "completed"]
  <2>5. /\ m \in Seq(Statuses) /\ Len(m) = n /\ \A i \in 1 .. n : m[i] = IF i = n THEN "completed" ELSE p.modules[i]
    BY <1>0, <2>2, ExceptSeq DEF Statuses
  <2>6. q = [phase |-> p.phase, modules |-> m, stopped |-> p.stopped] BY <2>2, <2>4 DEF ProgressType
  <2>7. p.stopped \in {None} \cup StopType BY DEF ProgressType
  <2> HIDE DEF m, q
  <2>8. q \in ProgressType BY <1>0, <2>5, <2>6, <2>7 DEF ProgressType
  <2>9. Heard(q, k + 1) BY <2>1, <2>2, <2>5, <2>6 DEF Heard
  <2> QED BY <1>0, <1>5, <2>2, <2>3, <2>5, <2>6, <2>8, <2>9 DEF q
<1>6. CASE l.is = "processes"
  <2>1. k = 2 * N BY <1>6, <1>N DEF IsLine
  <2>2. p.phase = "module" /\ n = N /\ p.modules[n] = "completed" BY <1>N, <1>0, <2>1 DEF Heard
  <2>3. q = [e EXCEPT !.phase = "report"] BY <1>6 DEF ReadLine, e
  <2>4. q = [phase |-> "report", modules |-> e.modules, stopped |-> e.stopped] BY <1>2, <2>3 DEF ProgressType
  <2> HIDE DEF q
  <2>5. q \in ProgressType BY <1>2, <1>3, <2>4 DEF ProgressType
  <2>6. Heard(q, k + 1) BY <1>2, <2>1, <2>2, <2>4 DEF Heard
  <2>7. Restarts(p, l) BY <1>6 DEF Restarts
  <2> QED BY <1>0, <1>2, <1>6, <2>4, <2>5, <2>6, <2>7 DEF q
<1>7. CASE l.is = "reported"
  <2>1. k = 2 * N + 1 BY <1>7, <1>N DEF IsLine
  <2>2. p.phase = "report" /\ n = N BY <1>N, <1>0, <2>1 DEF Heard
  <2>3. Restarts(p, l) BY <1>7, <2>2 DEF Restarts
  <2>4. q = [p EXCEPT !.phase = "done"] BY <1>7, <2>3 DEF ReadLine
  <2>5. q = [phase |-> "done", modules |-> p.modules, stopped |-> p.stopped] BY <2>4 DEF ProgressType
  <2>6. p.stopped \in {None} \cup StopType BY DEF ProgressType
  <2> HIDE DEF q
  <2>7. q \in ProgressType BY <1>0, <2>5, <2>6 DEF ProgressType
  <2>8. Heard(q, k + 1) BY <2>1, <2>2, <2>5 DEF Heard
  <2> QED BY <1>0, <1>7, <2>2, <2>3, <2>5, <2>7, <2>8 DEF q
<1> QED BY <1>4, <1>5, <1>6, <1>7 DEF LineType

\* What a step of iLEAPP prints is the next line.
LEMMA PrintsOn ==
  ASSUME Typed, Working, NEW k \in Nat, Printed(tool, k), NEW p \in Prints[tool.pc]
  PROVE  /\ p.line \in LineType /\ IsLine(p.line, k + 1) /\ k + 1 <= 2 * N + 2
         /\ p.pc \in {"module", "between", "report", "exits"} /\ p.at \in 1 .. N
         /\ p.pc = "module" => k + 1 = 2 * p.at - 1
         /\ p.pc = "between" => k + 1 = 2 * p.at
         /\ p.pc = "report" => k + 1 = 2 * N + 1
         /\ p.pc = "exits" => k + 1 = 2 * N + 2
<1>N. N \in Nat \ {0} BY IleappRunAssumption
<1>0. tool.pc \in {"setup", "module", "between", "report"} BY DEF Working, Prints
<1>1. CASE tool.pc = "setup"
  <2>1. p = [line |-> Line("started", 1), pc |-> "module", at |-> 1] BY <1>1 DEF Prints
  <2>2. p.line.is = "started" /\ p.line.module = 1 /\ p.line \in LineType BY <1>N, <2>1 DEF Line, LineType
  <2> QED BY <1>N, <1>1, <2>1, <2>2 DEF Printed, IsLine
<1>2. CASE tool.pc = "module"
  <2>1. p = [line |-> Line("completed", tool.at), pc |-> "between", at |-> tool.at] BY <1>2 DEF Prints
  <2>2. tool.at \in 1 .. N /\ k = 2 * tool.at - 1 BY <1>2 DEF Printed
  <2>3. p.line.is = "completed" /\ p.line.module = tool.at /\ p.line \in LineType BY <2>1, <2>2 DEF Line, LineType
  <2> QED BY <1>N, <2>1, <2>2, <2>3 DEF IsLine
<1>3. CASE tool.pc = "between"
  <2>1. tool.at \in 1 .. N /\ k = 2 * tool.at BY <1>3 DEF Printed
  <2>2. CASE tool.at < N
    <3>1. p = [line |-> Line("started", tool.at + 1), pc |-> "module", at |-> tool.at + 1] BY <1>3, <2>2 DEF Prints
    <3>2. tool.at + 1 \in 1 .. N BY <1>N, <2>1, <2>2
    <3>3. p.line.is = "started" /\ p.line.module = tool.at + 1 /\ p.line \in LineType BY <3>1, <3>2 DEF Line, LineType
    <3> QED BY <1>N, <2>1, <2>2, <3>1, <3>2, <3>3 DEF IsLine
  <2>3. CASE ~(tool.at < N)
    <3>1. p = [line |-> Line("processes", None), pc |-> "report", at |-> N] BY <1>3, <2>3 DEF Prints
    <3>2. p.line.is = "processes" /\ p.line \in LineType BY <3>1 DEF Line, LineType
    <3> QED BY <1>N, <2>1, <2>3, <3>1, <3>2 DEF IsLine
  <2> QED BY <2>2, <2>3
<1>4. CASE tool.pc = "report"
  <2>1. p = [line |-> Line("reported", None), pc |-> "exits", at |-> N] BY <1>4 DEF Prints
  <2>2. p.line.is = "reported" /\ p.line \in LineType BY <2>1 DEF Line, LineType
  <2> QED BY <1>N, <1>4, <2>1, <2>2 DEF IsLine, Printed
<1> QED BY <1>0, <1>1, <1>2, <1>3, <1>4

\* A stop marks the module under way, keeps what was heard, and leaves a record.
LEMMA StoppedIs ==
  ASSUME NEW p \in ProgressType, NEW k \in Nat, Heard(p, k)
  PROVE  LET q == Stopped(p) IN
         /\ q \in ProgressType /\ Heard(q, k) /\ q.stopped # None
         /\ q.phase = p.phase /\ Len(q.modules) = Len(p.modules)
         /\ \A i \in 1 .. Len(p.modules) :
              q.modules[i] = IF p.phase = "module" /\ i = Len(p.modules) /\ p.modules[i] = "running"
                             THEN "stopped" ELSE p.modules[i]
<1> DEFINE n == Len(p.modules)
           q == Stopped(p)
           e == EndPhase(p, "stopped")
           r == [phase |-> p.phase, after |-> n, waited |-> p.phase = "module" /\ p.modules[n] = "completed"]
<1>0. p.modules \in Seq(Statuses) /\ n \in Nat /\ p.phase \in {"setup", "module", "report", "done"}
  BY LenProperties DEF ProgressType
<1>1. p.phase = "module" => n > 0 BY <1>0 DEF Heard
<1>2. /\ e \in ProgressType /\ e.phase = p.phase /\ Len(e.modules) = n
      /\ \A i \in 1 .. n : e.modules[i] = IF p.phase = "module" /\ i = n /\ p.modules[i] = "running"
                                         THEN "stopped" ELSE p.modules[i]
  BY <1>1, EndPhaseIs DEF Statuses
<1>3. q = [e EXCEPT !.stopped = r] BY DEF Stopped
<1>4. r \in StopType
  <2>1. (p.phase = "module" /\ p.modules[n] = "completed") \in BOOLEAN OBVIOUS
  <2> QED BY <1>0, <2>1 DEF StopType
<1>5. r # None BY <1>4, IleappRunAssumption DEF StopType
<1> HIDE DEF e, r
<1>6. q = [phase |-> e.phase, modules |-> e.modules, stopped |-> r] BY <1>2, <1>3 DEF ProgressType
<1> HIDE DEF q
<1>7. q \in ProgressType BY <1>2, <1>4, <1>6 DEF ProgressType
<1>8. Heard(q, k) BY <1>0, <1>1, <1>2, <1>6 DEF Heard
<1> QED BY <1>2, <1>5, <1>6, <1>7, <1>8 DEF q

\* A line cut short by iLEAPP's death is the next one, and the last.
LEMMA CutFlows ==
  ASSUME Typed, pipe \in Seq(LineType), NEW k \in Nat, Printed(tool, k + Len(pipe)), k + Len(pipe) <= 2 * N + 2,
         \A i \in 1 .. Len(pipe) : IsLine(pipe[i], k + i), NEW q \in Cut
  PROVE  /\ q \in Seq(LineType) /\ k + Len(q) <= 2 * N + 2
         /\ \A i \in 1 .. Len(q) : IsLine(q[i], k + i)
         /\ tool.pc = "exited" => q = pipe
<1>1. CASE q = pipe BY <1>1
<1>2. ASSUME Working, NEW p \in Prints[tool.pc], q = Append(pipe, p.line)
      PROVE  /\ q \in Seq(LineType) /\ k + Len(q) <= 2 * N + 2
             /\ \A i \in 1 .. Len(q) : IsLine(q[i], k + i)
             /\ tool.pc # "exited"
  <2>0. Len(pipe) \in Nat BY LenProperties
  <2>1. p.line \in LineType /\ IsLine(p.line, k + Len(pipe) + 1) /\ k + Len(pipe) + 1 <= 2 * N + 2
    BY <1>2, <2>0, PrintsOn
  <2>2. /\ q \in Seq(LineType) /\ Len(q) = Len(pipe) + 1 /\ q[Len(pipe) + 1] = p.line
        /\ \A i \in 1 .. Len(pipe) : q[i] = pipe[i]
    BY <1>2, <2>1, AppendProperties
  <2>3. ASSUME NEW i \in 1 .. Len(q) PROVE IsLine(q[i], k + i)
    <3>1. CASE i = Len(pipe) + 1
      <4>1. k + i = k + Len(pipe) + 1 BY <2>0, <3>1
      <4> QED BY <2>1, <2>2, <3>1, <4>1
    <3>2. CASE i # Len(pipe) + 1
      <4>1. i \in 1 .. Len(pipe) BY <2>0, <2>2, <3>2
      <4> QED BY <2>2, <4>1
    <3> QED BY <3>1, <3>2
  <2>4. tool.pc # "exited" BY <1>2 DEF Working, Prints
  <2> QED BY <2>0, <2>1, <2>2, <2>3, <2>4
<1> QED BY <1>1, <1>2 DEF Cut

\* A stop, where it acts, is the end of the tool: what it printed stays.
LEMMA StopFlows ==
  ASSUME Typed, NEW r \in RunType, NEW reason \in {"limit", "log"}, Stop(r, reason)
  PROVE  /\ run' \in {r, [r EXCEPT !.reason = reason]} /\ run'.reason = (IF r.reason = None THEN reason ELSE r.reason)
         /\ pipe' \in Cut \cup {pipe}
         /\ \/ tool' = tool /\ pipe' = pipe
            \/ /\ tool'.pc = "exited" /\ tool'.at = tool.at /\ tool'.report = tool.report
               /\ tool'.code = (IF tool.pc = "exited" THEN tool.code ELSE 1)
<1>1. CASE r.reason # None BY <1>1 DEF Stop
<1>2. CASE r.reason = None
  <2>1. run' = [r EXCEPT !.reason = reason] /\ run'.reason = reason BY <1>2 DEF Stop, RunType
  <2>2. CASE tool.pc = "none" BY <1>2, <2>1, <2>2 DEF Stop
  <2>3. CASE tool.pc # "none"
    <3>1. tool' = (IF tool.pc = "exited" THEN [GroupKilled EXCEPT !.code = tool.code] ELSE GroupKilled) /\ pipe' \in Cut
      BY <1>2, <2>3 DEF Stop
    <3> QED BY <1>2, <2>1, <3>1 DEF Typed, ToolType, GroupKilled, Dead
  <2> QED BY <2>2, <2>3
<1> QED BY <1>1, <1>2

-------------------------------------------------------------------------------
(* The parts of the invariant, step by step. *)

\* Nothing was printed, heard or timed yet.
LEMMA InitFull == IleappInit => FullInv
<1> SUFFICES ASSUME IleappInit PROVE FullInv OBVIOUS
<1>1. ReachedInv BY InitReached
<1>N. {N, Limit} \subseteq Nat \ {0} /\ None # 0 BY IleappRunAssumption
<1>2. /\ tool.at = 0 /\ tool.code = None /\ tool.pc \in {"none", "setup"} /\ pipe = <<>>
      /\ silent = [now |-> 0, longest |-> 0]
      /\ run.pc = "running" /\ run.left = Limit /\ run.reason = None /\ run.log = "open" /\ run.good = FALSE
      /\ progress = [phase |-> "setup", modules |-> <<>>, stopped |-> None]
  BY DEF IleappInit
<1>3. progress \in ProgressType /\ pipe \in Seq(LineType) /\ Len(pipe) = 0 /\ Len(progress.modules) = 0
  BY <1>2, EmptySeq DEF ProgressType
<1>4. Bounded BY <1>N, <1>2, <1>3 DEF Bounded
<1>5. Flows
  <2>1. 0 \in 0 .. 2 * N + 2 BY <1>N
  <2>2. Heard(progress, 0) BY <1>2, <1>3 DEF Heard
  <2>3. Printed(tool, 0) BY <1>N, <1>2 DEF Printed
  <2> QED BY <1>N, <1>3, <2>1, <2>2, <2>3 DEF Flows
<1>6. TimingsAre BY <1>N, <1>2, <1>3, IleappRunAssumption DEF TimingsAre
<1>7. Timed BY <1>N, <1>2, IleappRunAssumption DEF Timed
<1>8. Ends BY <1>2 DEF Ends, Over
<1> QED BY <1>1, <1>4, <1>5, <1>6, <1>7, <1>8 DEF FullInv

\* What a line read, a tick, the limit, and the lines of a dying tool do to the
\* bounded parts.
LEMMA BoundedHolds == ASSUME FullInv, [IleappNext]_ileappVars PROVE Bounded'
<1>0. Typed /\ Bounded /\ Flows BY DEF FullInv, ReachedInv
<1>N. {N, Limit} \subseteq Nat \ {0} /\ None \notin Nat BY IleappRunAssumption
<1>K. PICK k \in 0 .. 2 * N + 2 :
        /\ Heard(progress, k)
        /\ \A i \in 1 .. Len(pipe) : IsLine(pipe[i], k + i)
        /\ k + Len(pipe) <= 2 * N + 2 /\ Printed(tool, k + Len(pipe))
  BY <1>0 DEF Flows
<1>L. Len(pipe) \in Nat /\ k \in Nat /\ k + Len(pipe) \in Nat BY <1>0, <1>N, LenProperties DEF Bounded
<1> USE DEF Bounded
<1>1. CASE ToolStep
  <2>1. PICK p \in Prints[tool.pc] : \E started \in SUBSET (IF p.pc = "between" THEN Helpers ELSE {}) :
          /\ pipe' = Append(pipe, p.line) /\ silent' = [silent EXCEPT !.now = 0]
          /\ tool' = [tool EXCEPT !.pc = p.pc, !.at = p.at, !.helpers = @ \cup started,
                                  !.report = IF p.pc = "exits" THEN "whole" ELSE "partial"]
    BY <1>1 DEF ToolStep
  <2>2. p.line \in LineType /\ p.at \in 1 .. N BY <1>0, <1>1, <1>K, <1>L, <2>1, PrintsOn DEF ToolStep
  <2>3. tool'.at = p.at BY <1>0, <2>1 DEF Typed, ToolType
  <2>4. pipe' \in Seq(LineType) BY <1>0, <2>1, <2>2, AppendProperties
  <2>5. silent' \in [now : 0 .. Limit, longest : 0 .. Limit] /\ silent'.now <= silent'.longest BY <1>0, <1>N, <2>1
  <2> QED BY <1>0, <1>1, <1>N, <2>2, <2>3, <2>4, <2>5 DEF ToolStep
<1>2. CASE Exits \/ HelperEnds
  <2>1. tool'.at = tool.at BY <1>0, <1>2 DEF Exits, HelperEnds, Typed, ToolType
  <2> QED BY <1>0, <1>2, <2>1 DEF Exits, HelperEnds
<1>3. CASE ToolDies
  <2>1. tool'.at = tool.at BY <1>0, <1>3 DEF ToolDies, Dead, Typed, ToolType
  <2>2. pipe' \in Seq(LineType) BY <1>0, <1>3, <1>K, <1>L, CutFlows DEF ToolDies
  <2> QED BY <1>0, <1>3, <2>1, <2>2 DEF ToolDies
<1>4. CASE Read
  <2>1. Head(pipe) \in LineType /\ Tail(pipe) \in Seq(LineType) /\ Head(pipe) = pipe[1]
    BY <1>0, <1>4, HeadTailProperties DEF Read
  <2>2. IsLine(Head(pipe), k + 1)
    <3>1. 1 \in 1 .. Len(pipe) BY <1>0, <1>4, EmptySeq DEF Read
    <3> QED BY <1>K, <2>1, <3>1
  <2>3. progress' \in ProgressType BY <1>0, <1>4, <1>K, <2>1, <2>2, ReadsOn DEF Read
  <2>4. run'.left \in {run.left, Limit} BY <1>0, <1>4 DEF Read, Armed, Typed, RunType
  <2> QED BY <1>0, <1>4, <1>N, <2>1, <2>3, <2>4 DEF Read
<1>5. CASE TimerFires \/ LogFails
  <2>1. PICK r \in {[run EXCEPT !.left = None], [run EXCEPT !.log = "failed"]}, reason \in {"limit", "log"} :
          Stop(r, reason)
    BY <1>5 DEF TimerFires, LogFails
  <2>2. r \in RunType /\ r.left \in {run.left, None} BY <1>0, <2>1 DEF Typed, RunType
  <2>3. run'.left = r.left /\ pipe' \in Cut \cup {pipe} /\ tool'.at = tool.at
    BY <1>0, <2>1, <2>2, StopFlows DEF RunType
  <2>4. pipe' \in Seq(LineType) BY <1>0, <1>K, <1>L, <2>3, CutFlows
  <2>5. progress' \in ProgressType BY <1>0, <1>5, <1>K, <1>L, StoppedIs DEF TimerFires, LogFails
  <2>6. silent' = silent BY <1>5 DEF TimerFires, LogFails
  <2> QED BY <1>0, <2>2, <2>3, <2>4, <2>5, <2>6
<1>6. CASE SpawnFails \/ Settle \/ Signalled
  <2>1. run'.left \in {run.left, None} BY <1>0, <1>6 DEF SpawnFails, Settle, Signalled, Typed, RunType
  <2>2. tool'.at = tool.at BY <1>0, <1>6 DEF SpawnFails, Settle, Signalled, Typed, ToolType
  <2> QED BY <1>0, <1>6, <2>1, <2>2 DEF SpawnFails, Settle, Signalled
<1>7. CASE Close
  <2>1. run'.left \in {None, Limit} BY <1>0, <1>7 DEF Close, Armed, Typed, RunType
  <2>2. CASE UNCHANGED <<pipe, progress>> BY <1>0, <1>7, <1>N, <2>1, <2>2 DEF Close
  <2>3. CASE Len(pipe) = 1 /\ pipe' = <<>> /\ progress' = ReadLine(progress, pipe[1])
    <3>0. 1 \in 1 .. Len(pipe) BY <2>3
    <3>1. pipe[1] \in LineType /\ IsLine(pipe[1], k + 1) BY <1>0, <1>K, <3>0, ElementOfSeq
    <3>2. progress' \in ProgressType BY <1>0, <1>K, <2>3, <3>1, ReadsOn
    <3>3. pipe' \in Seq(LineType) BY <2>3
    <3> QED BY <1>0, <1>7, <1>N, <2>1, <3>2, <3>3 DEF Close
  <2> QED BY <1>7, <2>2, <2>3 DEF Close
<1>8. CASE Tick
  <2>1. run.left \in 1 .. Limit /\ run'.left = run.left - 1 BY <1>0, <1>8, <1>N DEF Tick, Typed, RunType
  <2>2. silent' \in [now : 0 .. Limit, longest : 0 .. Limit] /\ silent'.now <= silent'.longest
    BY <1>0, <1>8, <1>N DEF Tick, Waited
  <2> QED BY <1>0, <1>8, <1>N, <2>1, <2>2 DEF Tick
<1>9. CASE UNCHANGED ileappVars BY <1>0, <1>9 DEF ileappVars
<1> QED BY <1>1, <1>2, <1>3, <1>4, <1>5, <1>6, <1>7, <1>8, <1>9 DEF IleappNext, Processor

\* No line is lost, made up or read out of turn.
LEMMA FlowsHolds == ASSUME FullInv, [IleappNext]_ileappVars PROVE Flows'
<1>0. Typed /\ Bounded /\ Flows BY DEF FullInv, ReachedInv
<1>N. {N, Limit} \subseteq Nat \ {0} /\ None \notin Nat BY IleappRunAssumption
<1>K. PICK k \in 0 .. 2 * N + 2 :
        /\ Heard(progress, k)
        /\ \A i \in 1 .. Len(pipe) : IsLine(pipe[i], k + i)
        /\ k + Len(pipe) <= 2 * N + 2 /\ Printed(tool, k + Len(pipe))
  BY <1>0 DEF Flows
<1>T. pipe \in Seq(LineType) /\ progress \in ProgressType BY <1>0 DEF Bounded
<1>L. Len(pipe) \in Nat /\ k \in Nat /\ k + Len(pipe) \in Nat BY <1>T, <1>N, LenProperties
\* Where nothing is read, and what is printed is the next line or nothing.
<1>P. ASSUME Heard(progress', k), pipe' \in Cut \cup {pipe},
             tool'.pc = "exited" /\ (tool'.code = 0 => pipe' = pipe /\ Printed(tool', k + Len(pipe)))
      PROVE  Flows'
  <2>1. /\ k + Len(pipe') <= 2 * N + 2
        /\ \A i \in 1 .. Len(pipe') : IsLine(pipe'[i], k + i)
    BY <1>0, <1>K, <1>L, <1>T, <1>P, CutFlows
  <2>2. Printed(tool', k + Len(pipe')) BY <1>P DEF Printed
  <2> QED BY <1>P, <2>1, <2>2 DEF Flows
\* Where nothing is printed or read.
<1>Q. ASSUME Heard(progress', k), pipe' = pipe, Printed(tool', k + Len(pipe)) PROVE Flows'
  BY <1>K, <1>Q DEF Flows
\* Where the first line is read.
<1>R. ASSUME pipe # <<>>, pipe' = Tail(pipe), progress' = ReadLine(progress, pipe[1]), tool' = tool PROVE Flows'
  <2>1. 1 \in 1 .. Len(pipe) BY <1>T, <1>R, EmptySeq
  <2>2. pipe[1] \in LineType /\ IsLine(pipe[1], k + 1) BY <1>K, <1>T, <2>1, ElementOfSeq
  <2>3. Heard(progress', k + 1) BY <1>K, <1>T, <1>R, <2>2, ReadsOn
  <2>4. Len(pipe') = Len(pipe) - 1 /\ \A i \in 1 .. Len(pipe') : pipe'[i] = pipe[i + 1]
    BY <1>T, <1>R, HeadTailProperties
  <2>5. ASSUME NEW i \in 1 .. Len(pipe') PROVE IsLine(pipe'[i], (k + 1) + i)
    <3>1. i + 1 \in 1 .. Len(pipe) /\ k + (i + 1) = (k + 1) + i BY <1>L, <2>4
    <3> QED BY <1>K, <2>4, <3>1
  <2>6. k + 1 \in 0 .. 2 * N + 2
    <3>1. 2 * N + 2 \in Nat /\ 1 <= Len(pipe) BY <1>N, <1>L, <2>1
    <3>2. k + 1 <= 2 * N + 2 BY <1>K, <1>L, <3>1
    <3> QED BY <1>L, <3>1, <3>2
  <2>7. (k + 1) + Len(pipe') = k + Len(pipe) BY <1>L, <2>4
  <2> QED BY <1>K, <1>R, <2>3, <2>5, <2>6, <2>7 DEF Flows
<1>1. CASE ToolStep
  <2>1. PICK p \in Prints[tool.pc] : \E started \in SUBSET (IF p.pc = "between" THEN Helpers ELSE {}) :
          /\ pipe' = Append(pipe, p.line)
          /\ tool' = [tool EXCEPT !.pc = p.pc, !.at = p.at, !.helpers = @ \cup started,
                                  !.report = IF p.pc = "exits" THEN "whole" ELSE "partial"]
    BY <1>1 DEF ToolStep
  <2>2. /\ p.line \in LineType /\ IsLine(p.line, k + Len(pipe) + 1) /\ k + Len(pipe) + 1 <= 2 * N + 2
        /\ p.pc \in {"module", "between", "report", "exits"} /\ p.at \in 1 .. N
        /\ p.pc = "module" => k + Len(pipe) + 1 = 2 * p.at - 1
        /\ p.pc = "between" => k + Len(pipe) + 1 = 2 * p.at
        /\ p.pc = "report" => k + Len(pipe) + 1 = 2 * N + 1
        /\ p.pc = "exits" => k + Len(pipe) + 1 = 2 * N + 2
    BY <1>0, <1>1, <1>K, <1>L, <2>1, PrintsOn DEF ToolStep
  <2>3. /\ tool'.pc = p.pc /\ tool'.at = p.at /\ tool'.code = tool.code
        /\ tool'.report = IF p.pc = "exits" THEN "whole" ELSE "partial"
    BY <1>0, <2>1 DEF Typed, ToolType
  <2>4. tool.code # 0 BY <1>1, <1>K DEF ToolStep, Working, Prints, Printed
  <2>5. Printed(tool', k + Len(pipe) + 1) BY <2>2, <2>3, <2>4 DEF Printed
  <2>6. /\ Len(pipe') = Len(pipe) + 1 /\ pipe'[Len(pipe) + 1] = p.line
        /\ \A i \in 1 .. Len(pipe) : pipe'[i] = pipe[i]
    BY <1>T, <2>1, <2>2, AppendProperties
  <2>7. ASSUME NEW i \in 1 .. Len(pipe') PROVE IsLine(pipe'[i], k + i)
    <3>1. CASE i = Len(pipe) + 1
      <4>1. k + i = k + Len(pipe) + 1 BY <1>L, <3>1
      <4> QED BY <2>2, <2>6, <3>1, <4>1
    <3>2. CASE i # Len(pipe) + 1
      <4>1. i \in 1 .. Len(pipe) BY <1>L, <2>6, <3>2
      <4> QED BY <1>K, <2>6, <4>1
    <3> QED BY <3>1, <3>2
  <2>8. progress' = progress /\ k + Len(pipe') = k + Len(pipe) + 1 BY <1>1, <1>L, <2>6 DEF ToolStep
  <2> QED BY <1>K, <2>2, <2>5, <2>7, <2>8 DEF Flows
<1>2. CASE Exits
  <2>1. tool'.pc = "exited" /\ tool'.code = 0 /\ tool'.report = tool.report /\ tool.pc = "exits"
    BY <1>0, <1>2 DEF Exits, Typed, ToolType
  <2>2. Printed(tool', k + Len(pipe)) BY <1>K, <2>1 DEF Printed
  <2> QED BY <1>2, <1>K, <1>Q, <2>2 DEF Exits
<1>3. CASE ToolDies
  <2>1. tool'.pc = "exited" /\ tool'.code = 1 BY <1>0, <1>3 DEF ToolDies, Dead, Typed, ToolType
  <2> QED BY <1>3, <1>K, <1>P, <2>1 DEF ToolDies
<1>4. CASE HelperEnds
  <2>1. tool'.pc = tool.pc /\ tool'.at = tool.at /\ tool'.code = tool.code /\ tool'.report = tool.report
    BY <1>0, <1>4 DEF HelperEnds, Typed, ToolType
  <2>2. Printed(tool', k + Len(pipe)) BY <1>K, <2>1 DEF Printed
  <2> QED BY <1>4, <1>K, <1>Q, <2>2 DEF HelperEnds
<1>5. CASE Read
  <2>1. Head(pipe) = pipe[1] BY <1>5, <1>T DEF Read
  <2> QED BY <1>5, <1>R, <2>1 DEF Read
<1>6. CASE TimerFires \/ LogFails
  <2>1. PICK r \in {[run EXCEPT !.left = None], [run EXCEPT !.log = "failed"]}, reason \in {"limit", "log"} :
          Stop(r, reason)
    BY <1>6 DEF TimerFires, LogFails
  <2>2. r \in RunType BY <1>0, <2>1 DEF Typed, RunType
  <2>3. Heard(progress', k) BY <1>6, <1>K, <1>L, <1>T, StoppedIs DEF TimerFires, LogFails
  <2>4. CASE tool' = tool /\ pipe' = pipe BY <1>K, <1>Q, <2>3, <2>4
  <2>5. CASE /\ tool'.pc = "exited" /\ tool'.report = tool.report
             /\ tool'.code = (IF tool.pc = "exited" THEN tool.code ELSE 1)
    <3>1. pipe' \in Cut \cup {pipe} BY <1>0, <2>1, <2>2, StopFlows
    <3>2. tool.pc = "exited" => pipe' = pipe BY <1>0, <1>K, <1>L, <1>T, <3>1, CutFlows
    <3>3. tool'.code = 0 => pipe' = pipe /\ Printed(tool', k + Len(pipe)) BY <1>K, <2>5, <3>2 DEF Printed
    <3> QED BY <1>P, <2>3, <2>5, <3>1, <3>3
  <2> QED BY <1>0, <2>1, <2>2, <2>4, <2>5, StopFlows
<1>7. CASE SpawnFails \/ Settle \/ Tick \/ UNCHANGED ileappVars
  BY <1>7, <1>K, <1>Q DEF SpawnFails, Settle, Tick, ileappVars
<1>8. CASE Close
  <2>1. CASE UNCHANGED <<pipe, progress>> BY <1>8, <1>K, <1>Q, <2>1 DEF Close
  <2>2. CASE Len(pipe) = 1 /\ pipe' = <<>> /\ progress' = ReadLine(progress, pipe[1])
    <3>0. Len(<<>>) = 0 OBVIOUS
    <3>1. pipe # <<>> BY <2>2, <3>0
    <3>2. Tail(pipe) = <<>>
      <4>1. Tail(pipe) \in Seq(LineType) /\ Len(Tail(pipe)) = 0 BY <1>T, <2>2, <3>1, HeadTailProperties
      <4> QED BY <4>1, EmptySeq
    <3> QED BY <1>8, <1>R, <2>2, <3>1, <3>2 DEF Close
  <2> QED BY <1>8, <2>1, <2>2 DEF Close
<1>9. CASE Signalled
  <2>1. tool'.pc = tool.pc /\ tool'.at = tool.at /\ tool'.code = tool.code /\ tool'.report = tool.report
    BY <1>0, <1>9 DEF Signalled, Typed, ToolType
  <2>2. Printed(tool', k + Len(pipe)) BY <1>K, <2>1 DEF Printed
  <2> QED BY <1>9, <1>K, <1>Q, <2>2 DEF Signalled
<1> QED BY <1>1, <1>2, <1>3, <1>4, <1>5, <1>6, <1>7, <1>8, <1>9 DEF IleappNext, Processor

\* The record of the modules is true to the stop, if there was one.
LEMMA TimingsAreHolds == ASSUME FullInv, [IleappNext]_ileappVars PROVE TimingsAre'
<1>0. Typed /\ Bounded /\ Flows /\ TimingsAre BY DEF FullInv, ReachedInv
<1>N. {N, Limit} \subseteq Nat \ {0} /\ None \notin Nat /\ None \notin {"limit", "log"} BY IleappRunAssumption
<1>K. PICK k \in 0 .. 2 * N + 2 :
        /\ Heard(progress, k)
        /\ \A i \in 1 .. Len(pipe) : IsLine(pipe[i], k + i)
  BY <1>0 DEF Flows
<1>T. pipe \in Seq(LineType) /\ progress \in ProgressType BY <1>0 DEF Bounded
<1>L. Len(progress.modules) \in Nat /\ k \in Nat BY <1>T, <1>N, LenProperties DEF ProgressType
<1>R. ASSUME pipe # <<>>, progress' = ReadLine(progress, pipe[1]), run'.reason = run.reason PROVE TimingsAre'
  <2> DEFINE n == Len(progress.modules)
  <2>1. 1 \in 1 .. Len(pipe) BY <1>T, <1>R, EmptySeq
  <2>2. pipe[1] \in LineType /\ IsLine(pipe[1], k + 1) BY <1>K, <1>T, <2>1, ElementOfSeq
  <2>3. /\ progress' \in ProgressType /\ progress'.stopped = progress.stopped
        /\ Len(progress'.modules) >= n
        /\ \A i \in 1 .. n :
             progress'.modules[i] =
               IF progress.phase = "module" /\ i = n
               THEN IF pipe[1].is = "completed" \/ progress.modules[i] = "running" THEN "completed" ELSE progress.modules[i]
               ELSE progress.modules[i]
        /\ Len(progress'.modules) > n =>
             /\ Len(progress'.modules) = n + 1 /\ progress'.modules[Len(progress'.modules)] = "running"
             /\ progress'.phase = "module"
    BY <1>K, <1>T, <1>R, <2>2, ReadsOn
  <2>4. Len(progress'.modules) \in Nat BY <2>3, LenProperties DEF ProgressType
  <2>5. ASSUME NEW i \in 1 .. Len(progress'.modules)
        PROVE  /\ i < Len(progress'.modules) \/ progress'.phase # "module" => progress'.modules[i] # "running"
               /\ run.reason = None => progress'.modules[i] \in {"running", "completed"}
    <3>1. CASE i \in 1 .. n
      <4>1. progress.modules[i] = "running" => i = n /\ progress.phase = "module"
        <5>1. i < n \/ i = n BY <1>L, <3>1
        <5> QED BY <1>0, <3>1, <5>1 DEF TimingsAre
      <4>2. progress'.modules[i] # "running" BY <2>3, <3>1, <4>1
      <4>3. run.reason = None => progress.modules[i] \in {"running", "completed"} BY <1>0, <3>1 DEF TimingsAre
      <4> QED BY <2>3, <3>1, <4>2, <4>3
    <3>2. CASE i \notin 1 .. n
      <4>1. Len(progress'.modules) > n /\ i \in Nat BY <1>L, <2>4, <3>2
      <4>2. i = n + 1 /\ Len(progress'.modules) = n + 1 BY <1>L, <2>3, <3>2, <4>1
      <4>3. ~(i < Len(progress'.modules)) BY <4>1, <4>2
      <4> QED BY <2>3, <4>1, <4>2, <4>3
    <3> QED BY <3>1, <3>2
  <2>6. run.reason = None => progress'.stopped = None BY <1>0, <2>3 DEF TimingsAre
  <2>7. run.reason = "limit" => progress'.stopped # None BY <1>0, <2>3 DEF TimingsAre
  <2> HIDE DEF n
  <2> QED BY <1>R, <2>5, <2>6, <2>7 DEF TimingsAre
<1>1. CASE ToolStep \/ Exits \/ ToolDies \/ HelperEnds
  <2>1. progress' = progress /\ run' = run BY <1>1 DEF ToolStep, Exits, ToolDies, HelperEnds
  <2> QED BY <1>0, <2>1 DEF TimingsAre
<1>2. CASE SpawnFails \/ Settle \/ Tick \/ Signalled \/ UNCHANGED ileappVars
  <2>1. progress' = progress BY <1>2 DEF SpawnFails, Settle, Tick, Signalled, ileappVars
  <2>2. run'.reason = run.reason BY <1>0, <1>2 DEF SpawnFails, Settle, Tick, Signalled, ileappVars, Typed, RunType
  <2> QED BY <1>0, <2>1, <2>2 DEF TimingsAre
<1>3. CASE Read
  <2>1. Head(pipe) = pipe[1] BY <1>3, <1>T DEF Read
  <2>2. run'.reason = run.reason BY <1>0, <1>3 DEF Read, Armed, Typed, RunType
  <2> QED BY <1>3, <1>R, <2>1, <2>2 DEF Read
<1>4. CASE Close
  <2>1. run'.reason = run.reason BY <1>0, <1>4 DEF Close, Armed, Typed, RunType
  <2>2. CASE progress' = progress BY <1>0, <2>1, <2>2 DEF TimingsAre
  <2>3. CASE Len(pipe) = 1 /\ progress' = ReadLine(progress, pipe[1])
    <3>0. Len(<<>>) = 0 OBVIOUS
    <3>1. pipe # <<>> BY <2>3, <3>0
    <3> QED BY <1>R, <2>1, <2>3, <3>1
  <2> QED BY <1>4, <2>2, <2>3 DEF Close
<1>5. CASE TimerFires
  <2> DEFINE r == [run EXCEPT !.left = None]
  <2>1. r \in RunType /\ r.reason = run.reason /\ Stop(r, "limit") /\ progress' = Stopped(progress)
    BY <1>0, <1>5 DEF TimerFires, Typed, RunType
  <2> HIDE DEF r
  <2>2. run'.reason # None BY <1>0, <1>N, <2>1, StopFlows
  <2>3. /\ progress'.stopped # None /\ progress'.phase = progress.phase
        /\ Len(progress'.modules) = Len(progress.modules)
        /\ \A i \in 1 .. Len(progress.modules) :
             progress'.modules[i] = IF progress.phase = "module" /\ i = Len(progress.modules) /\ progress.modules[i] = "running"
                                    THEN "stopped" ELSE progress.modules[i]
    BY <1>K, <1>L, <1>T, <2>1, StoppedIs
  <2> QED BY <1>0, <2>2, <2>3 DEF TimingsAre
<1>6. CASE LogFails
  <2> DEFINE r == [run EXCEPT !.log = "failed"]
  <2>1. r \in RunType /\ r.reason = run.reason /\ Stop(r, "log") /\ progress' = progress
    BY <1>0, <1>6 DEF LogFails, Typed, RunType
  <2> HIDE DEF r
  <2>2. run'.reason # None /\ (run'.reason = "limit" => run.reason = "limit") BY <1>0, <1>N, <2>1, StopFlows
  <2> QED BY <1>0, <2>1, <2>2 DEF TimingsAre
<1> QED BY <1>1, <1>2, <1>3, <1>4, <1>5, <1>6 DEF IleappNext, Processor

\* The timer restarts with every line read, and time passes only once all are.
LEMMA TimedHolds == ASSUME FullInv, [IleappNext]_ileappVars PROVE Timed'
<1>0. Typed /\ Bounded /\ Flows /\ Timed BY DEF FullInv, ReachedInv
<1>N. {N, Limit} \subseteq Nat \ {0} /\ None \notin Nat /\ None \notin {"limit", "log"} BY IleappRunAssumption
<1>T. /\ pipe \in Seq(LineType) /\ progress \in ProgressType /\ silent.now \in 0 .. Limit /\ silent.longest \in 0 .. Limit
      /\ silent.now <= silent.longest
  BY <1>0 DEF Bounded
<1>1. CASE ToolStep
  <2>1. pipe' # <<>> /\ run' = run /\ silent'.longest = silent.longest
    <3>1. PICK p \in Prints[tool.pc] : pipe' = Append(pipe, p.line) BY <1>1 DEF ToolStep
    <3>2. p.line \in LineType
      <4>1. PICK k \in 0 .. 2 * N + 2 : Printed(tool, k + Len(pipe)) BY <1>0 DEF Flows
      <4>2. k + Len(pipe) \in Nat BY <1>T, <1>N, <4>1, LenProperties
      <4> QED BY <1>0, <1>1, <4>1, <4>2, PrintsOn DEF ToolStep
    <3>3. pipe' # <<>> BY <1>T, <3>1, <3>2, AppendProperties
    <3> QED BY <1>0, <1>1, <3>3 DEF ToolStep, Bounded
  <2> QED BY <1>0, <2>1 DEF Timed
<1>2. CASE Exits \/ HelperEnds \/ UNCHANGED ileappVars
  BY <1>0, <1>2 DEF Timed, Exits, HelperEnds, ileappVars
<1>3. CASE ToolDies
  <2>1. run' = run /\ silent' = silent /\ pipe' \in Cut BY <1>3 DEF ToolDies
  <2>2. pipe' = <<>> => pipe = <<>>
    <3>1. PICK k \in 0 .. 2 * N + 2 :
            /\ \A i \in 1 .. Len(pipe) : IsLine(pipe[i], k + i)
            /\ k + Len(pipe) <= 2 * N + 2 /\ Printed(tool, k + Len(pipe))
      BY <1>0 DEF Flows
    <3>2. CASE pipe' = pipe BY <3>2
    <3>3. ASSUME Working, NEW p \in Prints[tool.pc], pipe' = Append(pipe, p.line) PROVE pipe' # <<>>
      <4>1. k + Len(pipe) \in Nat BY <1>T, <1>N, <3>1, LenProperties
      <4>2. p.line \in LineType BY <1>0, <3>1, <3>3, <4>1, PrintsOn
      <4> QED BY <1>T, <3>3, <4>2, AppendProperties
    <3> QED BY <2>1, <3>2, <3>3 DEF Cut
  <2> QED BY <1>0, <2>1, <2>2 DEF Timed
<1>4. CASE Read
  <2>1. PICK k \in 0 .. 2 * N + 2 : Heard(progress, k) /\ \A i \in 1 .. Len(pipe) : IsLine(pipe[i], k + i)
    BY <1>0 DEF Flows
  <2>2. Head(pipe) \in LineType /\ Head(pipe) = pipe[1] /\ 1 \in 1 .. Len(pipe)
    BY <1>4, <1>T, HeadTailProperties, EmptySeq DEF Read
  <2>3. Restarts(progress, Head(pipe)) BY <1>T, <2>1, <2>2, ReadsOn
  <2>4. run' = [run EXCEPT !.left = Limit] /\ silent' = silent BY <1>4, <2>3 DEF Read, Armed
  <2>5. run'.left = Limit /\ run'.reason = run.reason BY <1>0, <2>4 DEF Typed, RunType
  <2>6. silent.now + Limit >= Limit /\ Limit # 0 BY <1>N, <1>T
  <2> QED BY <1>0, <2>4, <2>5, <2>6 DEF Timed
<1>5. CASE TimerFires
  <2> DEFINE r == [run EXCEPT !.left = None]
  <2>1. r \in RunType /\ r.reason = run.reason /\ r.left = None /\ Stop(r, "limit") /\ silent' = silent
    BY <1>0, <1>5 DEF TimerFires, Typed, RunType
  <2> HIDE DEF r
  <2>2. run'.reason # None /\ (run.reason # None => run'.reason = run.reason) BY <1>0, <1>N, <2>1, StopFlows
  <2>3. run.reason = None => silent.longest = Limit BY <1>0, <1>5, <1>N DEF Timed, TimerFires
  <2> QED BY <1>0, <2>1, <2>2, <2>3 DEF Timed
<1>6. CASE LogFails
  <2> DEFINE r == [run EXCEPT !.log = "failed"]
  <2>1. r \in RunType /\ r.reason = run.reason /\ Stop(r, "log") /\ silent' = silent
    BY <1>0, <1>6 DEF LogFails, Typed, RunType
  <2> HIDE DEF r
  <2>2. run'.reason # None /\ (run'.reason = "limit" => run.reason = "limit") BY <1>0, <1>N, <2>1, StopFlows
  <2> QED BY <1>0, <2>1, <2>2 DEF Timed
<1>7. CASE SpawnFails \/ Settle \/ Signalled
  <2>1. run'.reason = run.reason /\ silent' = silent /\ (run'.left = None \/ run'.pc \in Over)
    BY <1>0, <1>7 DEF SpawnFails, Settle, Signalled, Typed, RunType, Over
  <2> QED BY <1>0, <2>1 DEF Timed
<1>8. CASE Close
  <2>1. run'.reason = run.reason /\ silent' = silent /\ run'.left \in {None, Limit}
    BY <1>0, <1>8 DEF Close, Armed, Typed, RunType
  <2>2. silent.now + Limit >= Limit /\ Limit # 0 BY <1>N, <1>T
  <2> QED BY <1>0, <2>1, <2>2 DEF Timed
<1>9. CASE Tick
  <2>1. /\ run'.reason = run.reason /\ run'.left = run.left - 1 /\ run'.pc = run.pc
        /\ pipe' = pipe /\ pipe = <<>> /\ run.left # None /\ run.left > 0 /\ run.pc \notin Over
    BY <1>0, <1>9 DEF Tick, Typed, RunType
  <2>2. run.left \in 1 .. Limit BY <1>0, <1>N, <2>1 DEF Bounded
  <2>3. run.reason = None => silent.now + run.left >= Limit BY <1>0, <2>1 DEF Timed
  <2>4. silent' = Waited(silent.now + 1) BY <1>9 DEF Tick
  <2>5. silent'.longest >= silent.longest /\ silent'.longest \in 0 .. Limit /\ silent'.now \in 0 .. Limit
    BY <1>N, <1>T, <2>4 DEF Waited
  <2>6. silent'.longest >= silent'.now
    BY <1>N, <1>T, <2>4 DEF Waited
  <2>7. silent'.now = silent.now + 1 \/ (silent'.now = silent.now /\ silent.now = Limit)
    BY <1>N, <1>T, <2>4 DEF Waited
  <2>8. run.reason = None => silent'.now + run'.left >= Limit BY <1>N, <1>T, <2>1, <2>2, <2>3, <2>7
  <2>9. run.reason = None /\ run'.left = 0 => silent'.longest = Limit BY <1>N, <2>5, <2>6, <2>8
  <2>10. run.reason = "limit" => silent'.longest = Limit
    <3>1. run.reason = "limit" => silent.longest = Limit BY <1>0 DEF Timed
    <3> QED BY <1>N, <1>T, <2>5, <3>1
  <2> QED BY <2>1, <2>8, <2>9, <2>10 DEF Timed
<1> QED BY <1>1, <1>2, <1>3, <1>4, <1>5, <1>6, <1>7, <1>8, <1>9 DEF IleappNext, Processor

\* What a success rests on holds from the close on.
LEMMA EndsHolds == ASSUME FullInv, [IleappNext]_ileappVars PROVE Ends'
<1>0. Typed /\ Reached /\ Bounded /\ Flows /\ TimingsAre /\ Ends BY DEF FullInv, ReachedInv
<1>N. {N, Limit} \subseteq Nat \ {0} /\ None \notin Nat /\ None \notin {"limit", "log"} BY IleappRunAssumption
<1>K. PICK k \in 0 .. 2 * N + 2 :
        /\ Heard(progress, k)
        /\ \A i \in 1 .. Len(pipe) : IsLine(pipe[i], k + i)
        /\ k + Len(pipe) <= 2 * N + 2 /\ Printed(tool, k + Len(pipe))
  BY <1>0 DEF Flows
<1>T. pipe \in Seq(LineType) /\ progress \in ProgressType BY <1>0 DEF Bounded
<1>L. Len(pipe) \in Nat /\ k \in Nat BY <1>T, <1>N, LenProperties
<1>G. run.good /\ run.pc # "ended" => run.pc # "running" /\ tool.code = 0 /\ tool.pc = "exited"
                                     /\ run.left = None /\ pipe = <<>>
  BY <1>0, <1>K DEF Ends, Printed
<1>1. CASE ToolStep \/ Exits \/ ToolDies
  <2>1. progress' = progress /\ run' = run /\ written' = written /\ tool.pc # "exited"
    BY <1>1 DEF ToolStep, Exits, ToolDies, Working, Prints
  <2>2. run.pc = "running" \/ run.pc = "ended" \/ ~run.good BY <1>G, <2>1
  <2>3. ~run.good \/ run.pc = "ended" BY <1>G, <2>2
  <2> QED BY <1>0, <2>1, <2>3 DEF Ends
<1>2. CASE Read
  <2>1. /\ run'.reason = run.reason /\ run'.pc = run.pc /\ run'.log = run.log /\ run'.good = run.good /\ run.pc = "running"
    BY <1>0, <1>2 DEF Read, Armed, Typed, RunType
  <2> QED BY <1>0, <1>G, <2>1 DEF Ends
<1>3. CASE TimerFires
  <2> DEFINE r == [run EXCEPT !.left = None]
  <2>1. /\ r \in RunType /\ r.reason = run.reason /\ r.log = run.log /\ r.good = run.good /\ r.pc = run.pc
        /\ Stop(r, "limit") /\ run.left = 0 /\ run.pc \notin Over
    BY <1>0, <1>3 DEF TimerFires, Typed, RunType
  <2> HIDE DEF r
  <2>2. run'.reason # None BY <1>0, <1>N, <2>1, StopFlows
  <2>3. run' \in {r, [r EXCEPT !.reason = "limit"]} BY <1>0, <2>1, StopFlows
  <2>4. run'.log = run.log /\ run'.good = run.good /\ run'.pc = run.pc BY <2>1, <2>3 DEF RunType
  <2>5. ~run.good BY <1>G, <1>N, <2>1 DEF Over
  <2> QED BY <2>1, <2>2, <2>4, <2>5 DEF Ends, Over
<1>4. CASE LogFails
  <2> DEFINE r == [run EXCEPT !.log = "failed"]
  <2>1. /\ r \in RunType /\ r.good = run.good /\ r.pc = run.pc /\ r.left = run.left /\ Stop(r, "log")
        /\ run.pc \in {"running", "closing"}
    BY <1>0, <1>4 DEF LogFails, Typed, RunType
  <2> HIDE DEF r
  <2>2. run'.reason # None BY <1>0, <1>N, <2>1, StopFlows
  <2>3. run' \in {r, [r EXCEPT !.reason = "log"]} BY <1>0, <2>1, StopFlows
  <2>4. run'.good = run.good /\ run'.pc = run.pc /\ run'.left = run.left BY <2>1, <2>3 DEF RunType
  <2>5. run.good => tool'.code = 0 /\ pipe' = <<>>
    <3>1. pipe' \in Cut \cup {pipe} BY <1>0, <2>1, StopFlows
    <3>2. tool.pc = "exited" => pipe' = pipe BY <1>0, <1>K, <1>L, <1>T, <3>1, CutFlows
    <3>3. tool' = tool \/ tool'.code = (IF tool.pc = "exited" THEN tool.code ELSE 1) BY <1>0, <2>1, StopFlows
    <3> QED BY <1>G, <2>1, <3>2, <3>3
  <2> QED BY <1>G, <2>1, <2>2, <2>4, <2>5 DEF Ends
<1>5. CASE SpawnFails
  <2>1. /\ run'.reason = run.reason /\ run'.log = run.log /\ run'.good = run.good /\ run'.pc = "closing" /\ run.pc = "running"
    BY <1>0, <1>5 DEF SpawnFails, Typed, RunType
  <2> QED BY <1>0, <1>G, <2>1 DEF Ends
<1>6. CASE Close
  <2>1. run'.pc = "closing" /\ run'.log = run.log /\ run'.reason = run.reason
    BY <1>0, <1>6 DEF Close, Armed, Typed, RunType
  <2>2. CASE /\ pipe = <<>> /\ pipe' = pipe /\ tool' = tool
             /\ run' = [run EXCEPT !.pc = "closing", !.left = None, !.tracked = FALSE,
                                   !.good = tool.code = 0 /\ run.reason = None]
    <3>1. run'.left = None /\ (run'.good => tool.code = 0) BY <1>0, <2>2 DEF Typed, RunType
    <3> QED BY <1>0, <2>1, <2>2, <3>1 DEF Ends
  <2>3. CASE tool.code # 0
    <3>1. ~run'.good BY <1>0, <1>6, <2>3 DEF Close, Armed, Typed, RunType
    <3> QED BY <1>0, <2>1, <3>1 DEF Ends
  <2> QED BY <1>6, <2>2, <2>3 DEF Close
<1>7. CASE Settle
  <2>1. /\ run'.pc \in {"ok", "failed"} /\ (run'.pc = "ok" => run.good /\ run.reason = None)
        /\ run'.left = run.left /\ run'.good = run.good /\ run'.reason = run.reason /\ run'.log = run.log
        /\ run.pc = "closing"
    BY <1>0, <1>7 DEF Settle, Succeeds, Typed, RunType
  <2>2. written' = ProgressSummary(progress)' /\ tool' = tool /\ pipe' = pipe BY <1>7 DEF Settle, ProgressSummary, EndPhase
  <2> QED BY <1>0, <1>G, <2>1, <2>2 DEF Ends
<1>8. CASE Tick
  <2>1. /\ run'.reason = run.reason /\ run'.pc = run.pc /\ run'.log = run.log /\ run'.good = run.good
        /\ run.pc \notin Over /\ run.left # None
    BY <1>0, <1>8 DEF Tick, Typed, RunType
  <2>2. ~run.good BY <1>G, <2>1 DEF Over
  <2> QED BY <1>0, <2>1, <2>2 DEF Ends, Over
<1>9. CASE Signalled
  <2>1. run'.pc = "ended" /\ run'.reason = run.reason /\ run'.log = run.log
    BY <1>0, <1>9 DEF Signalled, Typed, RunType
  <2> QED BY <1>0, <2>1 DEF Ends
<1>10. CASE UNCHANGED ileappVars BY <1>0, <1>10 DEF ileappVars, Ends, ProgressSummary, EndPhase
<1>11. CASE HelperEnds
  <2>1. /\ progress' = progress /\ run' = run /\ written' = written /\ pipe' = pipe /\ tool'.code = tool.code
        /\ ProgressSummary(progress)' = ProgressSummary(progress)
    BY <1>0, <1>11 DEF HelperEnds, Typed, ToolType, ProgressSummary, EndPhase
  <2> QED BY <1>0, <2>1 DEF Ends
<1> QED BY <1>1, <1>2, <1>3, <1>4, <1>5, <1>6, <1>7, <1>8, <1>9, <1>10, <1>11 DEF IleappNext, Processor

-------------------------------------------------------------------------------
\* What was printed, read, timed and recorded, in every reachable state.
THEOREM FullInvariant == IleappSpec => []FullInv
<1>1. FullInv /\ [IleappNext]_ileappVars => FullInv'
  <2> SUFFICES ASSUME FullInv, [IleappNext]_ileappVars PROVE FullInv' OBVIOUS
  <2>1. ReachedInv' BY NextReached DEF FullInv
  <2> QED BY <2>1, BoundedHolds, FlowsHolds, TimingsAreHolds, TimedHolds, EndsHolds DEF FullInv
<1> QED BY InitFull, <1>1, PTL DEF IleappSpec

\* The limit stops only a run that has begun no phase for that long (ileapp.ts:
\* "a slow run that keeps moving is never stopped").
THEOREM SlowIsNotStopped == IleappSpec => []MovingIsNeverStopped
<1>1. FullInv => MovingIsNeverStopped BY DEF FullInv, Timed, MovingIsNeverStopped
<1> QED BY FullInvariant, <1>1, PTL

\* The types, from the lines that were printed.
LEMMA FullIsTyped == FullInv => IleappTypeOK
<1> SUFFICES ASSUME FullInv PROVE IleappTypeOK OBVIOUS
<1>0. Typed /\ Bounded /\ Flows BY DEF FullInv, ReachedInv
<1>N. N \in Nat \ {0} BY IleappRunAssumption
<1>K. PICK k \in 0 .. 2 * N + 2 : Heard(progress, k) /\ k + Len(pipe) <= 2 * N + 2 BY <1>0 DEF Flows
<1>1. Len(pipe) \in Nat /\ Len(progress.modules) \in Nat BY <1>0, LenProperties DEF Bounded, ProgressType
<1>2. Len(pipe) <= 2 * N + 2 BY <1>N, <1>K, <1>1
<1>3. Len(progress.modules) <= N BY <1>N, <1>K, <1>1 DEF Heard
<1>4. progress.phase \in {"setup", "module", "report", "done"} BY <1>0 DEF Bounded, ProgressType
<1>5. run.pc \in Over \cup {"running", "closing"} BY <1>0 DEF Typed, RunType, Over
<1> QED BY <1>0, <1>2, <1>3, <1>4, <1>5 DEF Bounded, Typed, ToolType, RunType, IleappTypeOK

\* A run that succeeds has its whole report, its whole log and every module's
\* timing; one that the limit stopped says so in its timings (runIleapp).
THEOREM TimingsAreTrue == IleappSpec => []EndIsTrue
<1>1. FullInv => EndIsTrue
  <2> SUFFICES ASSUME FullInv PROVE EndIsTrue OBVIOUS
  <2>0. Typed /\ Bounded /\ Flows /\ TimingsAre /\ Ends BY DEF FullInv, ReachedInv
  <2>N. N \in Nat \ {0} BY IleappRunAssumption
  <2>K. PICK k \in 0 .. 2 * N + 2 : Heard(progress, k) /\ Printed(tool, k + Len(pipe)) BY <2>0 DEF Flows
  <2> DEFINE n == Len(progress.modules)
             w == ProgressSummary(progress)
  <2>T. progress \in ProgressType /\ progress.modules \in Seq(Statuses) /\ n \in Nat
    BY <2>0, LenProperties DEF Bounded, ProgressType
  <2>H. progress.phase = "module" => n > 0 BY <2>K, <2>N, <2>T DEF Heard
  <2>W. /\ w \in ProgressType /\ w.stopped = progress.stopped /\ Len(w.modules) = n
        /\ \A i \in 1 .. n : w.modules[i] = IF progress.phase = "module" /\ i = n /\ progress.modules[i] = "running"
                                           THEN "unfinished" ELSE progress.modules[i]
    BY <2>H, <2>T, EndPhaseIs DEF ProgressSummary, Statuses
  <2> HIDE DEF w
  <2>D. w.modules \in [1 .. n -> Statuses]
    <3>1. w.modules \in Seq(Statuses) BY <2>W DEF ProgressType
    <3> QED BY <2>W, <3>1, LenProperties
  <2>1. ASSUME run.pc \in {"ok", "failed"} PROVE written = w BY <2>0, <2>1 DEF Ends, w
  <2>2. ASSUME run.pc = "ok"
        PROVE  tool.report = "whole" /\ run.log = "open" /\ w.stopped = None /\ w.modules = [i \in 1 .. N |-> "completed"]
    <3>1. run.good /\ run.reason = None /\ tool.code = 0 /\ pipe = <<>> BY <2>0, <2>2 DEF Ends
    <3>2. run.log = "open" BY <2>0, <3>1 DEF Ends, Typed, RunType
    <3>3. tool.report = "whole" /\ k + Len(pipe) = 2 * N + 2 BY <2>K, <3>1 DEF Printed
    <3>4. Len(pipe) = 0 BY <3>1
    <3>5. k = 2 * N + 2 BY <3>3, <3>4
    <3>6. progress.phase = "done" /\ n = N BY <2>K, <2>N, <2>T, <3>5 DEF Heard
    <3>7. ASSUME NEW i \in 1 .. N PROVE w.modules[i] = "completed"
      <4>1. progress.modules[i] # "running" /\ progress.modules[i] \in {"running", "completed"}
        BY <2>0, <3>1, <3>6 DEF TimingsAre
      <4> QED BY <2>W, <3>6, <4>1
    <3>8. w.stopped = None BY <2>0, <2>W, <3>1 DEF TimingsAre
    <3> QED BY <2>D, <3>2, <3>3, <3>6, <3>7, <3>8
  <2>3. ASSUME run.reason = "limit" PROVE w.stopped # None BY <2>0, <2>3, <2>W DEF TimingsAre
  <2>4. ASSUME NEW i \in DOMAIN w.modules PROVE w.modules[i] # "running"
    <3>1. i \in 1 .. n BY <2>D
    <3>2. i < n \/ i = n BY <2>T, <3>1
    <3> QED BY <2>0, <2>W, <3>1, <3>2 DEF TimingsAre
  <2> QED BY <2>1, <2>2, <2>3, <2>4, FullIsTyped DEF EndIsTrue
<1> QED BY FullInvariant, <1>1, PTL
================================================================================
