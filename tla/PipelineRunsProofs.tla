--------------------------- MODULE PipelineRunsProofs ---------------------------
(* That a skipped analysis was rightly skipped, a complete run earned its name,    *)
(* and what processes and summaries tell of runs is true and final: for any     *)
(* number of processes, stages, inputs and worlds.                              *)
EXTENDS PipelineRuns, FiniteSetTheorems, TLAPS

-------------------------------------------------------------------------------
(* The invariant. *)

\* The stage under way, and the outcome it has by the time it is marked.
Underway(p) ==
  /\ pc[p] \in {"run", "mark"} => at[p] \in Stages
  /\ pc[p] = "mark" =>
       /\ outcome[p] = "succeeded" => at[p] \in did[p]
       /\ outcome[p] = "skipped" => plan[p][at[p]] = NotAcquired

\* What a row of run r vouches for.
Row(r, s) ==
  /\ status[r][s] = "succeeded" => s \in did[r]
  /\ status[r][s] = "skipped" /\ plan[r][s] # Disabled => plan[r][s] = NotAcquired

\* What a process that skips has found.
Skips(p) ==
  pc[p] \in {"export_skipped", "skipped"} =>
    /\ found[p] \in Procs
    /\ \A s \in Enabled(p) :
         plan[found[p]][s] = plan[p][s] /\ (s \in did[found[p]] \/ plan[p][s] = NotAcquired)

IInv ==
  /\ TypeOK
  /\ \A p \in Procs : Underway(p) /\ Skips(p)
  /\ \A r \in Procs, s \in Stages : Row(r, s)

\* Before the first process there is nothing to vouch for.
LEMMA InitIInv == Init => IInv
<1> SUFFICES ASSUME Init PROVE IInv OBVIOUS
<1>1. TypeOK BY DEF Init, TypeOK, Statuses
<1>2. \A p \in Procs : Underway(p) /\ Skips(p) BY DEF Init, Underway, Skips
<1>3. \A r \in Procs, s \in Stages : Row(r, s) BY DEF Init, Row
<1> QED BY <1>1, <1>2, <1>3 DEF IInv

-------------------------------------------------------------------------------
(* The types, step by step. *)

\* Each step keeps every variable in its type (the columns of analysis_run and
\* analysis_run_stage, the places of a process and of the app).
LEMMA TypeOKHolds == ASSUME IInv, [Next]_vars PROVE TypeOK'
<1>0. TypeOK /\ \A p \in Procs : Underway(p) BY DEF IInv
<1> USE RunsAssumption DEF TypeOK, db, orch, desk, Goto, Working, ExitOk, ExitBad, Statuses
<1>1. ASSUME NEW p \in Procs, StartFromShell(p) PROVE TypeOK' BY <1>0, <1>1 DEF StartFromShell
<1>2. ASSUME NEW p \in Procs, Spawn(p) PROVE TypeOK' BY <1>0, <1>2 DEF Spawn
<1>3. ASSUME NEW p \in Procs, Check(p) PROVE TypeOK'
  <2>1. CASE \E r \in CompleteRunsFor(p) : found' = [found EXCEPT ![p] = r] /\ Goto(p, "export_skipped")
    <3>1. PICK r \in Procs : found' = [found EXCEPT ![p] = r] BY <2>1 DEF CompleteRunsFor
    <3> QED BY <1>0, <1>3, <2>1, <3>1 DEF Check
  <2>2. CASE Goto(p, "create") /\ UNCHANGED found BY <1>0, <1>3, <2>2 DEF Check
  <2> QED BY <1>3, <2>1, <2>2 DEF Check
<1>4. ASSUME NEW p \in Procs, ExportSkipped(p) PROVE TypeOK'
  BY <1>0, <1>4 DEF ExportSkipped, ExportIfMissing, Exported, State
<1>5. ASSUME NEW p \in Procs, InsertRun(p) PROVE TypeOK' BY <1>0, <1>5 DEF InsertRun
<1>6. ASSUME NEW p \in Procs, InsertStage(p) PROVE TypeOK'
  <2>1. PICK s \in Stages : status' = [status EXCEPT ![p][s] = IF s \in Enabled(p) THEN "pending" ELSE "skipped"]
    BY <1>6 DEF InsertStage, Uninserted
  <2>2. status' \in [Procs -> [Stages -> Statuses]] BY <1>0, <2>1
  <2>3. PICK place \in {"loop", "insert"} : pc' = [pc EXCEPT ![p] = place] BY <1>6 DEF InsertStage
  <2>4. pc' \in [Procs -> {"off"} \cup Working \cup ExitOk \cup ExitBad] BY <1>0, <2>3
  <2> QED BY <1>0, <1>6, <2>2, <2>4 DEF InsertStage
<1>7. ASSUME NEW p \in Procs, MarkRunning(p) PROVE TypeOK' BY <1>0, <1>7 DEF MarkRunning, Remaining, Enabled
<1>8. ASSUME NEW p \in Procs, RunStage(p) PROVE TypeOK' BY <1>0, <1>8 DEF RunStage, Outcomes, Underway
<1>9. ASSUME NEW p \in Procs, Mark(p) PROVE TypeOK' BY <1>0, <1>9 DEF Mark
<1>10. ASSUME NEW p \in Procs, Finish(p) PROVE TypeOK' BY <1>0, <1>10 DEF Finish
<1>11. ASSUME NEW p \in Procs, Export(p) PROVE TypeOK' BY <1>0, <1>11 DEF Export, ExitPlace, Exported, State
<1>12. ASSUME NEW p \in Procs, Raises(p) PROVE TypeOK' BY <1>0, <1>12 DEF Raises
<1>13. ASSUME NEW p \in Procs, CatchFailStages(p) PROVE TypeOK' BY <1>0, <1>13 DEF CatchFailStages
<1>14. ASSUME NEW p \in Procs, CatchCloseRun(p) PROVE TypeOK' BY <1>0, <1>14 DEF CatchCloseRun
<1>15. ASSUME NEW p \in Procs, CatchExport(p) PROVE TypeOK' BY <1>0, <1>15 DEF CatchExport, Exported, State
<1>16. ASSUME NEW p \in Procs, Kill(p) PROVE TypeOK' BY <1>0, <1>16 DEF Kill
<1>17. ASSUME NEW p \in Procs, AbortStages(p) PROVE TypeOK' BY <1>0, <1>17 DEF AbortStages, StagesFailed
<1>18. ASSUME NEW p \in Procs, AbortRuns(p) PROVE TypeOK' BY <1>0, <1>18 DEF AbortRuns, RunsClosed
<1>19. ASSUME NEW p \in Procs, AbortRaises(p) PROVE TypeOK' BY <1>0, <1>19 DEF AbortRaises
<1>20. CASE Launch BY <1>0, <1>20 DEF Launch
<1>21. CASE ReconcileStages BY <1>0, <1>21 DEF ReconcileStages, StagesFailed
<1>22. CASE ReconcileRuns BY <1>0, <1>22 DEF ReconcileRuns, RunsClosed
<1>23. CASE ReconcileRaises BY <1>0, <1>23 DEF ReconcileRaises
<1>24. CASE ChildClosed BY <1>0, <1>24 DEF ChildClosed
<1>25. CASE Quit BY <1>0, <1>25 DEF Quit
<1>26. CASE UNCHANGED vars BY <1>0, <1>26 DEF vars
<1> QED BY <1>1, <1>2, <1>3, <1>4, <1>5, <1>6, <1>7, <1>8, <1>9, <1>10, <1>11, <1>12, <1>13, <1>14, <1>15,
         <1>16, <1>17, <1>18, <1>19, <1>20, <1>21, <1>22, <1>23, <1>24, <1>25, <1>26 DEF Next, Works, Cleans

-------------------------------------------------------------------------------
(* The stage under way, step by step. *)

\* A row is marked with what runStage returned for that very stage.
LEMMA UnderwayHolds == ASSUME IInv, [Next]_vars PROVE \A p \in Procs : Underway(p)'
<1> SUFFICES ASSUME NEW q \in Procs PROVE Underway(q)' OBVIOUS
<1>0. TypeOK /\ Underway(q) BY DEF IInv
<1> USE RunsAssumption DEF TypeOK, Underway, db, orch, desk, Goto
<1>1. ASSUME NEW p \in Procs, StartFromShell(p) PROVE Underway(q)' BY <1>0, <1>1 DEF StartFromShell
<1>2. ASSUME NEW p \in Procs, Spawn(p) PROVE Underway(q)' BY <1>0, <1>2 DEF Spawn
<1>3. ASSUME NEW p \in Procs, Check(p) PROVE Underway(q)' BY <1>0, <1>3 DEF Check
<1>4. ASSUME NEW p \in Procs, ExportSkipped(p) PROVE Underway(q)' BY <1>0, <1>4 DEF ExportSkipped
<1>5. ASSUME NEW p \in Procs, InsertRun(p) PROVE Underway(q)' BY <1>0, <1>5 DEF InsertRun
<1>6. ASSUME NEW p \in Procs, InsertStage(p) PROVE Underway(q)' BY <1>0, <1>6 DEF InsertStage
<1>7. ASSUME NEW p \in Procs, MarkRunning(p) PROVE Underway(q)' BY <1>0, <1>7 DEF MarkRunning, Remaining, Enabled
<1>8. ASSUME NEW p \in Procs, RunStage(p) PROVE Underway(q)' BY <1>0, <1>8 DEF RunStage, Outcomes
<1>9. ASSUME NEW p \in Procs, Mark(p) PROVE Underway(q)' BY <1>0, <1>9 DEF Mark
<1>10. ASSUME NEW p \in Procs, Finish(p) PROVE Underway(q)' BY <1>0, <1>10 DEF Finish
<1>11. ASSUME NEW p \in Procs, Export(p) PROVE Underway(q)' BY <1>0, <1>11 DEF Export, ExitPlace
<1>12. ASSUME NEW p \in Procs, Raises(p) PROVE Underway(q)' BY <1>0, <1>12 DEF Raises
<1>13. ASSUME NEW p \in Procs, CatchFailStages(p) PROVE Underway(q)' BY <1>0, <1>13 DEF CatchFailStages
<1>14. ASSUME NEW p \in Procs, CatchCloseRun(p) PROVE Underway(q)' BY <1>0, <1>14 DEF CatchCloseRun
<1>15. ASSUME NEW p \in Procs, CatchExport(p) PROVE Underway(q)' BY <1>0, <1>15 DEF CatchExport
<1>16. ASSUME NEW p \in Procs, Kill(p) PROVE Underway(q)' BY <1>0, <1>16 DEF Kill
<1>17. ASSUME NEW p \in Procs, AbortStages(p) PROVE Underway(q)' BY <1>0, <1>17 DEF AbortStages
<1>18. ASSUME NEW p \in Procs, AbortRuns(p) PROVE Underway(q)' BY <1>0, <1>18 DEF AbortRuns
<1>19. ASSUME NEW p \in Procs, AbortRaises(p) PROVE Underway(q)' BY <1>0, <1>19 DEF AbortRaises
<1>20. CASE Launch BY <1>0, <1>20 DEF Launch
<1>21. CASE ReconcileStages BY <1>0, <1>21 DEF ReconcileStages
<1>22. CASE ReconcileRuns BY <1>0, <1>22 DEF ReconcileRuns
<1>23. CASE ReconcileRaises BY <1>0, <1>23 DEF ReconcileRaises
<1>24. CASE ChildClosed BY <1>0, <1>24 DEF ChildClosed
<1>25. CASE Quit BY <1>0, <1>25 DEF Quit
<1>26. CASE UNCHANGED vars BY <1>0, <1>26 DEF vars
<1> QED BY <1>1, <1>2, <1>3, <1>4, <1>5, <1>6, <1>7, <1>8, <1>9, <1>10, <1>11, <1>12, <1>13, <1>14, <1>15,
         <1>16, <1>17, <1>18, <1>19, <1>20, <1>21, <1>22, <1>23, <1>24, <1>25, <1>26 DEF Next, Works, Cleans

-------------------------------------------------------------------------------
(* What the rows vouch for, step by step. *)

\* Only its own process marks a row succeeded, and only an absence that is a
\* fact or a disabled stage marks one skipped.
LEMMA RowHolds == ASSUME IInv, [Next]_vars PROVE \A r \in Procs, s \in Stages : Row(r, s)'
<1> SUFFICES ASSUME NEW q \in Procs, NEW t \in Stages PROVE Row(q, t)' OBVIOUS
<1>0. TypeOK /\ Row(q, t) /\ Underway(q) BY DEF IInv
<1> USE RunsAssumption DEF TypeOK, Row, db, orch, desk
<1>1. ASSUME NEW p \in Procs, StartFromShell(p) PROVE Row(q, t)' BY <1>0, <1>1 DEF StartFromShell
<1>2. ASSUME NEW p \in Procs, Spawn(p) PROVE Row(q, t)' BY <1>0, <1>2 DEF Spawn
<1>3. ASSUME NEW p \in Procs, Check(p) PROVE Row(q, t)' BY <1>0, <1>3 DEF Check
<1>4. ASSUME NEW p \in Procs, ExportSkipped(p) PROVE Row(q, t)' BY <1>0, <1>4 DEF ExportSkipped
<1>5. ASSUME NEW p \in Procs, InsertRun(p) PROVE Row(q, t)' BY <1>0, <1>5 DEF InsertRun
<1>6. ASSUME NEW p \in Procs, InsertStage(p) PROVE Row(q, t)' BY <1>0, <1>6 DEF InsertStage, Uninserted, Enabled
<1>7. ASSUME NEW p \in Procs, MarkRunning(p) PROVE Row(q, t)' BY <1>0, <1>7 DEF MarkRunning, Remaining
<1>8. ASSUME NEW p \in Procs, RunStage(p) PROVE Row(q, t)' BY <1>0, <1>8 DEF RunStage
<1>9. ASSUME NEW p \in Procs, Mark(p) PROVE Row(q, t)' BY <1>0, <1>9 DEF Mark, Underway
<1>10. ASSUME NEW p \in Procs, Finish(p) PROVE Row(q, t)' BY <1>0, <1>10 DEF Finish
<1>11. ASSUME NEW p \in Procs, Export(p) PROVE Row(q, t)' BY <1>0, <1>11 DEF Export, ExitPlace
<1>12. ASSUME NEW p \in Procs, Raises(p) PROVE Row(q, t)' BY <1>0, <1>12 DEF Raises
<1>13. ASSUME NEW p \in Procs, CatchFailStages(p) PROVE Row(q, t)' BY <1>0, <1>13 DEF CatchFailStages
<1>14. ASSUME NEW p \in Procs, CatchCloseRun(p) PROVE Row(q, t)' BY <1>0, <1>14 DEF CatchCloseRun
<1>15. ASSUME NEW p \in Procs, CatchExport(p) PROVE Row(q, t)' BY <1>0, <1>15 DEF CatchExport
<1>16. ASSUME NEW p \in Procs, Kill(p) PROVE Row(q, t)' BY <1>0, <1>16 DEF Kill
<1>17. ASSUME NEW p \in Procs, AbortStages(p) PROVE Row(q, t)' BY <1>0, <1>17 DEF AbortStages, StagesFailed
<1>18. ASSUME NEW p \in Procs, AbortRuns(p) PROVE Row(q, t)' BY <1>0, <1>18 DEF AbortRuns
<1>19. ASSUME NEW p \in Procs, AbortRaises(p) PROVE Row(q, t)' BY <1>0, <1>19 DEF AbortRaises
<1>20. CASE Launch BY <1>0, <1>20 DEF Launch
<1>21. CASE ReconcileStages BY <1>0, <1>21 DEF ReconcileStages, StagesFailed
<1>22. CASE ReconcileRuns BY <1>0, <1>22 DEF ReconcileRuns
<1>23. CASE ReconcileRaises BY <1>0, <1>23 DEF ReconcileRaises
<1>24. CASE ChildClosed BY <1>0, <1>24 DEF ChildClosed
<1>25. CASE Quit BY <1>0, <1>25 DEF Quit
<1>26. CASE UNCHANGED vars BY <1>0, <1>26 DEF vars
<1> QED BY <1>1, <1>2, <1>3, <1>4, <1>5, <1>6, <1>7, <1>8, <1>9, <1>10, <1>11, <1>12, <1>13, <1>14, <1>15,
         <1>16, <1>17, <1>18, <1>19, <1>20, <1>21, <1>22, <1>23, <1>24, <1>25, <1>26 DEF Next, Works, Cleans

-------------------------------------------------------------------------------
(* What a skip rests on, step by step: a plan never changes, and what a run's  *)
(* process did only grows.                                                   *)

\* A stage that exited 0 has exited 0 for good.
LEMMA DidGrows == ASSUME IInv, [Next]_vars PROVE plan' = plan /\ \A r \in Procs : did[r] \subseteq did'[r]
<1>0. TypeOK BY DEF IInv
<1> USE DEF TypeOK, db, orch, desk
<1>1. ASSUME NEW p \in Procs, StartFromShell(p) PROVE plan' = plan /\ \A r \in Procs : did[r] \subseteq did'[r] BY <1>0, <1>1 DEF StartFromShell
<1>2. ASSUME NEW p \in Procs, Spawn(p) PROVE plan' = plan /\ \A r \in Procs : did[r] \subseteq did'[r] BY <1>0, <1>2 DEF Spawn
<1>3. ASSUME NEW p \in Procs, Check(p) PROVE plan' = plan /\ \A r \in Procs : did[r] \subseteq did'[r] BY <1>0, <1>3 DEF Check
<1>4. ASSUME NEW p \in Procs, ExportSkipped(p) PROVE plan' = plan /\ \A r \in Procs : did[r] \subseteq did'[r] BY <1>0, <1>4 DEF ExportSkipped
<1>5. ASSUME NEW p \in Procs, InsertRun(p) PROVE plan' = plan /\ \A r \in Procs : did[r] \subseteq did'[r] BY <1>0, <1>5 DEF InsertRun
<1>6. ASSUME NEW p \in Procs, InsertStage(p) PROVE plan' = plan /\ \A r \in Procs : did[r] \subseteq did'[r] BY <1>0, <1>6 DEF InsertStage
<1>7. ASSUME NEW p \in Procs, MarkRunning(p) PROVE plan' = plan /\ \A r \in Procs : did[r] \subseteq did'[r] BY <1>0, <1>7 DEF MarkRunning, Remaining, Enabled
<1>8. ASSUME NEW p \in Procs, RunStage(p) PROVE plan' = plan /\ \A r \in Procs : did[r] \subseteq did'[r] BY <1>0, <1>8 DEF RunStage
<1>9. ASSUME NEW p \in Procs, Mark(p) PROVE plan' = plan /\ \A r \in Procs : did[r] \subseteq did'[r] BY <1>0, <1>9 DEF Mark
<1>10. ASSUME NEW p \in Procs, Finish(p) PROVE plan' = plan /\ \A r \in Procs : did[r] \subseteq did'[r] BY <1>0, <1>10 DEF Finish
<1>11. ASSUME NEW p \in Procs, Export(p) PROVE plan' = plan /\ \A r \in Procs : did[r] \subseteq did'[r] BY <1>0, <1>11 DEF Export, ExitPlace
<1>12. ASSUME NEW p \in Procs, Raises(p) PROVE plan' = plan /\ \A r \in Procs : did[r] \subseteq did'[r] BY <1>0, <1>12 DEF Raises
<1>13. ASSUME NEW p \in Procs, CatchFailStages(p) PROVE plan' = plan /\ \A r \in Procs : did[r] \subseteq did'[r] BY <1>0, <1>13 DEF CatchFailStages
<1>14. ASSUME NEW p \in Procs, CatchCloseRun(p) PROVE plan' = plan /\ \A r \in Procs : did[r] \subseteq did'[r] BY <1>0, <1>14 DEF CatchCloseRun
<1>15. ASSUME NEW p \in Procs, CatchExport(p) PROVE plan' = plan /\ \A r \in Procs : did[r] \subseteq did'[r] BY <1>0, <1>15 DEF CatchExport
<1>16. ASSUME NEW p \in Procs, Kill(p) PROVE plan' = plan /\ \A r \in Procs : did[r] \subseteq did'[r] BY <1>0, <1>16 DEF Kill
<1>17. ASSUME NEW p \in Procs, AbortStages(p) PROVE plan' = plan /\ \A r \in Procs : did[r] \subseteq did'[r] BY <1>0, <1>17 DEF AbortStages
<1>18. ASSUME NEW p \in Procs, AbortRuns(p) PROVE plan' = plan /\ \A r \in Procs : did[r] \subseteq did'[r] BY <1>0, <1>18 DEF AbortRuns
<1>19. ASSUME NEW p \in Procs, AbortRaises(p) PROVE plan' = plan /\ \A r \in Procs : did[r] \subseteq did'[r] BY <1>0, <1>19 DEF AbortRaises
<1>20. CASE Launch BY <1>0, <1>20 DEF Launch
<1>21. CASE ReconcileStages BY <1>0, <1>21 DEF ReconcileStages
<1>22. CASE ReconcileRuns BY <1>0, <1>22 DEF ReconcileRuns
<1>23. CASE ReconcileRaises BY <1>0, <1>23 DEF ReconcileRaises
<1>24. CASE ChildClosed BY <1>0, <1>24 DEF ChildClosed
<1>25. CASE Quit BY <1>0, <1>25 DEF Quit
<1>26. CASE UNCHANGED vars BY <1>0, <1>26 DEF vars
<1> QED BY <1>1, <1>2, <1>3, <1>4, <1>5, <1>6, <1>7, <1>8, <1>9, <1>10, <1>11, <1>12, <1>13, <1>14, <1>15,
         <1>16, <1>17, <1>18, <1>19, <1>20, <1>21, <1>22, <1>23, <1>24, <1>25, <1>26 DEF Next, Works, Cleans

\* What findCompleteRunFor found goes on being so.
LEMMA SkipsHolds == ASSUME IInv, [Next]_vars PROVE \A p \in Procs : Skips(p)'
<1> SUFFICES ASSUME NEW q \in Procs PROVE Skips(q)' OBVIOUS
<1>0. TypeOK /\ Skips(q) /\ plan' = plan /\ \A r \in Procs : did[r] \subseteq did'[r] BY DidGrows DEF IInv
<1> USE DEF TypeOK, Skips, Enabled, db, orch, desk, Goto
<1>1. ASSUME NEW p \in Procs, StartFromShell(p) PROVE Skips(q)' BY <1>0, <1>1 DEF StartFromShell
<1>2. ASSUME NEW p \in Procs, Spawn(p) PROVE Skips(q)' BY <1>0, <1>2 DEF Spawn
<1>3. ASSUME NEW p \in Procs, Check(p) PROVE Skips(q)'
  <2>1. CASE q # p BY <1>0, <1>3, <2>1 DEF Check
  <2>2. CASE q = p /\ \E r \in CompleteRunsFor(p) : found' = [found EXCEPT ![p] = r] /\ Goto(p, "export_skipped")
    <3>1. PICK r \in CompleteRunsFor(p) : found' = [found EXCEPT ![p] = r] BY <2>2
    <3>2. r \in Procs /\ \A s \in Enabled(p) : Covers(r, p, s) BY <3>1 DEF CompleteRunsFor
    <3>3. \A s \in Stages : Row(r, s) BY <3>2 DEF IInv
    <3>4. found'[q] = r /\ did' = did BY <1>0, <1>3, <2>2, <3>1 DEF Check
    <3> QED BY <1>0, <2>2, <3>2, <3>3, <3>4 DEF Covers, Row
  <2>3. CASE q = p /\ Goto(p, "create") BY <1>0, <1>3, <2>3
  <2> QED BY <1>3, <2>1, <2>2, <2>3 DEF Check
<1>4. ASSUME NEW p \in Procs, ExportSkipped(p) PROVE Skips(q)' BY <1>0, <1>4 DEF ExportSkipped
<1>5. ASSUME NEW p \in Procs, InsertRun(p) PROVE Skips(q)' BY <1>0, <1>5 DEF InsertRun
<1>6. ASSUME NEW p \in Procs, InsertStage(p) PROVE Skips(q)' BY <1>0, <1>6 DEF InsertStage
<1>7. ASSUME NEW p \in Procs, MarkRunning(p) PROVE Skips(q)' BY <1>0, <1>7 DEF MarkRunning
<1>8. ASSUME NEW p \in Procs, RunStage(p) PROVE Skips(q)' BY <1>0, <1>8 DEF RunStage
<1>9. ASSUME NEW p \in Procs, Mark(p) PROVE Skips(q)' BY <1>0, <1>9 DEF Mark
<1>10. ASSUME NEW p \in Procs, Finish(p) PROVE Skips(q)' BY <1>0, <1>10 DEF Finish
<1>11. ASSUME NEW p \in Procs, Export(p) PROVE Skips(q)' BY <1>0, <1>11 DEF Export, ExitPlace
<1>12. ASSUME NEW p \in Procs, Raises(p) PROVE Skips(q)' BY <1>0, <1>12 DEF Raises
<1>13. ASSUME NEW p \in Procs, CatchFailStages(p) PROVE Skips(q)' BY <1>0, <1>13 DEF CatchFailStages
<1>14. ASSUME NEW p \in Procs, CatchCloseRun(p) PROVE Skips(q)' BY <1>0, <1>14 DEF CatchCloseRun
<1>15. ASSUME NEW p \in Procs, CatchExport(p) PROVE Skips(q)' BY <1>0, <1>15 DEF CatchExport
<1>16. ASSUME NEW p \in Procs, Kill(p) PROVE Skips(q)' BY <1>0, <1>16 DEF Kill
<1>17. ASSUME NEW p \in Procs, AbortStages(p) PROVE Skips(q)' BY <1>0, <1>17 DEF AbortStages
<1>18. ASSUME NEW p \in Procs, AbortRuns(p) PROVE Skips(q)' BY <1>0, <1>18 DEF AbortRuns
<1>19. ASSUME NEW p \in Procs, AbortRaises(p) PROVE Skips(q)' BY <1>0, <1>19 DEF AbortRaises
<1>20. CASE Launch BY <1>0, <1>20 DEF Launch
<1>21. CASE ReconcileStages BY <1>0, <1>21 DEF ReconcileStages
<1>22. CASE ReconcileRuns BY <1>0, <1>22 DEF ReconcileRuns
<1>23. CASE ReconcileRaises BY <1>0, <1>23 DEF ReconcileRaises
<1>24. CASE ChildClosed BY <1>0, <1>24 DEF ChildClosed
<1>25. CASE Quit BY <1>0, <1>25 DEF Quit
<1>26. CASE UNCHANGED vars BY <1>0, <1>26 DEF vars
<1> QED BY <1>1, <1>2, <1>3, <1>4, <1>5, <1>6, <1>7, <1>8, <1>9, <1>10, <1>11, <1>12, <1>13, <1>14, <1>15,
         <1>16, <1>17, <1>18, <1>19, <1>20, <1>21, <1>22, <1>23, <1>24, <1>25, <1>26 DEF Next, Works, Cleans

-------------------------------------------------------------------------------
(* The theorems. *)

\* The invariant holds for ever: of whatever step, by whichever process.
THEOREM Invariant == Spec => []IInv
<1>1. ASSUME IInv, [Next]_vars PROVE IInv'
  BY <1>1, TypeOKHolds, UnderwayHolds, RowHolds, SkipsHolds DEF IInv
<1> QED BY <1>1, InitIInv, PTL DEF Spec

\* Every variable of the runs, the processes and the app keeps its type.
THEOREM TypeCorrect == Spec => []TypeOK
<1> QED BY Invariant, PTL DEF IInv

\* An analysis that skips the backup as already done is right: the run it found
\* did every stage wanted now, on the input wanted now, whichever processes ran
\* and died beside it and whoever closed its run (findCompleteRunFor).
THEOREM SkipsAreSound == Spec => []SkipIsSound
<1>1. IInv => SkipIsSound BY DEF IInv, Skips, SkipIsSound
<1> QED BY <1>1, Invariant, PTL

\* A run with all its rows that reads complete did every enabled stage, or had a
\* fact for not doing it (run_completeness).
THEOREM CompleteIsAlwaysEarned == Spec => []CompleteIsEarned
<1>1. IInv => CompleteIsEarned
  <2> SUFFICES ASSUME IInv, NEW r \in Procs, Complete(r), Whole(r), NEW s \in Enabled(r)
               PROVE s \in did[r] \/ plan[r][s] = NotAcquired
    BY DEF CompleteIsEarned, Resolved
  <2>1. s \in Stages /\ plan[r][s] # Disabled BY DEF Enabled
  <2>2. status[r][s] \in Statuses \ (Unresolved \cup {"none"})
    BY <2>1 DEF IInv, TypeOK, Complete, State, Whole
  <2>3. status[r][s] \in {"succeeded", "skipped"} BY <2>2 DEF Statuses, Unresolved
  <2> QED BY <2>1, <2>3 DEF IInv, Row
<1> QED BY <1>1, Invariant, PTL

-------------------------------------------------------------------------------
(* How far a process and its rows are, and which runs nothing touches any more. *)

Verdicts == {"succeeded", "skipped"}
Unbegun == {"off", "check", "create", "export_skipped", "skipped"}
InLoop == {"loop", "run", "mark"}

\* The rows of p's run at each place of its process: before it has any, while
\* they are inserted, behind the loop, where the loop is, and before it.
BehindLoop(p, s) == s < at[p] \/ (s = at[p] /\ pc[p] = "loop")
RowInLoop(p, s) ==
  /\ BehindLoop(p, s) => status[p][s] \in Verdicts \/ (status[p][s] = "failed" /\ bad[p])
  /\ s = at[p] /\ pc[p] # "loop" => status[p][s] \in {"running", "failed"}
  /\ s > at[p] => status[p][s] \in {"pending", "failed"}
RowOf(p, s) ==
  /\ pc[p] \in Unbegun => status[p][s] = "none"
  /\ s \notin Enabled(p) => status[p][s] \in {"none", "skipped"}
  /\ pc[p] = "insert" /\ s \in Enabled(p) => status[p][s] \in {"none", "pending", "failed"}
  /\ pc[p] \in InLoop \cup {"export", "done", "fail_stages", "close_run"} => status[p][s] # "none"
  /\ pc[p] \in InLoop /\ s \in Enabled(p) => RowInLoop(p, s)
  /\ (pc[p] = "export" /\ ~bad[p]) \/ pc[p] = "done" => status[p][s] \in Verdicts
Progress(p) ==
  /\ pc[p] \in Unbegun \cup {"insert"} => at[p] = 0
  /\ pc[p] \in Unbegun => run[p] = "none"
  /\ pc[p] \in {"run", "mark"} => at[p] \in Enabled(p)
  /\ pc[p] = "mark" => outcome[p] \in Verdicts \/ (outcome[p] = "failed" /\ bad[p])
  /\ pc[p] \in {"export", "export_failed", "done"} => run[p] = "finished"
  /\ \A s \in Stages : RowOf(p, s)

\* A finished run whose process is past its rows, or has none left to write.
Final(r) ==
  /\ run[r] = "finished"
  /\ \/ pc[r] \in {"export", "export_failed", "done", "failed", "killed"}
     \/ /\ pc[r] \in {"loop", "fail_stages", "close_run"}
        /\ \A s \in Stages : status[r][s] \in Verdicts

\* What the summary files say, and what a process that skips has found.
Summarised(p) ==
  /\ summary[p] # "none" => Final(p) /\ summary[p] = State(p)
  /\ pc[p] = "done" => summary[p] # "none"
Finds(p) ==
  /\ pc[p] = "export_skipped" => Final(found[p]) /\ Complete(found[p])
  /\ pc[p] = "skipped" => summary[found[p]] # "none"

OutcomeInv == IInv /\ \A p \in Procs : Progress(p) /\ Summarised(p) /\ Finds(p)

\* Before the first process there is no run, no summary and no child.
LEMMA InitOutcome == Init => OutcomeInv
<1> SUFFICES ASSUME Init PROVE OutcomeInv OBVIOUS
<1>1. IInv BY InitIInv
<1>2. \A p \in Procs : Progress(p) /\ Summarised(p) /\ Finds(p)
  BY DEF Init, Progress, RowOf, RowInLoop, Summarised, Finds, Unbegun, InLoop, BehindLoop
<1> QED BY <1>1, <1>2 DEF OutcomeInv

Same(q) ==
  /\ pc'[q] = pc[q] /\ at'[q] = at[q] /\ status'[q] = status[q] /\ run'[q] = run[q]
  /\ outcome'[q] = outcome[q] /\ bad'[q] = bad[q] /\ found'[q] = found[q]
ByProcess(p) == StartFromShell(p) \/ Spawn(p) \/ Works(p) \/ Raises(p) \/ Kill(p)

\* A process writes to its own run and nobody else's; and the plans are fixed.
LEMMA OthersAreLeft ==
  ASSUME TypeOK, NEW p \in Procs, ByProcess(p)
  PROVE  plan' = plan /\ \A q \in Procs \ {p} : Same(q)
<1> USE DEF TypeOK, Same, db, orch, desk, Goto
<1>1. CASE StartFromShell(p) BY <1>1 DEF StartFromShell
<1>2. CASE Spawn(p) BY <1>2 DEF Spawn
<1>3. CASE Check(p) BY <1>3 DEF Check
<1>4. CASE ExportSkipped(p) BY <1>4 DEF ExportSkipped
<1>5. CASE InsertRun(p) BY <1>5 DEF InsertRun
<1>6. CASE InsertStage(p) BY <1>6 DEF InsertStage
<1>7. CASE MarkRunning(p) BY <1>7 DEF MarkRunning
<1>8. CASE RunStage(p) BY <1>8 DEF RunStage
<1>9. CASE Mark(p) BY <1>9 DEF Mark
<1>10. CASE Finish(p) BY <1>10 DEF Finish
<1>11. CASE Export(p) BY <1>11 DEF Export, ExitPlace
<1>12. CASE Raises(p) BY <1>12 DEF Raises
<1>13. CASE CatchFailStages(p) BY <1>13 DEF CatchFailStages
<1>14. CASE CatchCloseRun(p) BY <1>14 DEF CatchCloseRun
<1>15. CASE CatchExport(p) BY <1>15 DEF CatchExport
<1>16. CASE Kill(p) BY <1>16 DEF Kill
<1> QED BY <1>1, <1>2, <1>3, <1>4, <1>5, <1>6, <1>7, <1>8, <1>9, <1>10, <1>11, <1>12, <1>13, <1>14, <1>15,
         <1>16 DEF ByProcess, Works

\* A cleanup fails unresolved rows of open runs and closes these; the app's end
\* may end its child; all else of a process and its run is left.
ByApp ==
  \/ \E p \in Procs : Cleans(p) \/ AbortRaises(p)
  \/ Launch \/ ReconcileStages \/ ReconcileRuns \/ ReconcileRaises \/ ChildClosed \/ Quit
LEMMA CleanupsAreMild ==
  ASSUME TypeOK, ByApp
  PROVE  /\ UNCHANGED <<plan, at, outcome, bad, found, summary>>
         /\ \A q \in Procs :
              /\ pc'[q] = pc[q] \/ (pc[q] \in Working /\ pc'[q] = "killed")
              /\ run'[q] = run[q] \/ (run[q] = "open" /\ run'[q] = "finished")
              /\ run[q] # "open" => status'[q] = status[q]
              /\ \A s \in Stages : \/ status'[q][s] = status[q][s]
                                   \/ status[q][s] \in {"pending", "running"} /\ status'[q][s] = "failed"
<1> USE DEF TypeOK, db, orch, desk
<1>1. CASE \E p \in Procs : AbortStages(p)
  <2>1. status' = StagesFailed /\ UNCHANGED <<plan, at, outcome, bad, found, summary, pc, run>> BY <1>1 DEF AbortStages
  <2>2. \A q \in Procs : run[q] # "open" => status'[q] = status[q] BY <2>1 DEF StagesFailed, OpenRuns
  <2> QED BY <2>1, <2>2 DEF StagesFailed
<1>2. CASE \E p \in Procs : AbortRuns(p) BY <1>2 DEF AbortRuns, RunsClosed, OpenRuns
<1>3. CASE \E p \in Procs : AbortRaises(p) BY <1>3 DEF AbortRaises
<1>4. CASE Launch BY <1>4 DEF Launch
<1>5. CASE ReconcileStages
  <2>1. status' = StagesFailed /\ UNCHANGED <<plan, at, outcome, bad, found, summary, pc, run>>
    BY <1>5 DEF ReconcileStages
  <2>2. \A q \in Procs : run[q] # "open" => status'[q] = status[q] BY <2>1 DEF StagesFailed, OpenRuns
  <2> QED BY <2>1, <2>2 DEF StagesFailed
<1>6. CASE ReconcileRuns BY <1>6 DEF ReconcileRuns, RunsClosed, OpenRuns
<1>7. CASE ReconcileRaises BY <1>7 DEF ReconcileRaises
<1>8. CASE ChildClosed BY <1>8 DEF ChildClosed
<1>9. CASE Quit BY <1>9 DEF Quit
<1> QED BY <1>1, <1>2, <1>3, <1>4, <1>5, <1>6, <1>7, <1>8, <1>9 DEF ByApp, Cleans

\* Every step is a process's, the app's or nobody's.
LEMMA StepsAreBy == [Next]_vars => (\E p \in Procs : ByProcess(p)) \/ ByApp \/ UNCHANGED vars
BY DEF Next, ByProcess, ByApp

\* The last row that is missing is the only one.
LEMMA OneIsAll ==
  ASSUME NEW q \in Procs, Cardinality(Uninserted(q)) = 1, NEW s \in Uninserted(q)
  PROVE  \A t \in Stages \ {s} : status[q][t] # "none"
<1>1. IsFiniteSet(Uninserted(q)) BY RunsAssumption, FS_Subset DEF Uninserted
<1>2. PICK u : Uninserted(q) = {u} BY <1>1, FS_Singleton
<1> QED BY <1>2 DEF Uninserted

\* A process takes its rows forward, one at a time, in order.
LEMMA ProgressHolds == ASSUME OutcomeInv, [Next]_vars PROVE \A q \in Procs : Progress(q)'
<1> SUFFICES ASSUME NEW q \in Procs PROVE Progress(q)' OBVIOUS
<1>0. TypeOK /\ Progress(q) BY DEF OutcomeInv, IInv
<1>S. Stages \subseteq Nat \ {0} BY RunsAssumption
<1>A. at[q] \in Nat
  <2>1. at[q] \in Stages \cup {0} BY <1>0 DEF TypeOK
  <2>2. \A n \in Stages \cup {0} : n \in Nat BY <1>S
  <2> QED BY <2>1, <2>2
<1> USE DEF Verdicts, Unbegun, InLoop
<1>1. ASSUME NEW p \in Procs, ByProcess(p), p # q PROVE Progress(q)'
  BY <1>0, <1>1, OthersAreLeft DEF Same, Progress, RowOf, RowInLoop, BehindLoop, Enabled
<1>2. CASE ByApp
  <2>1. plan' = plan /\ at' = at /\ outcome' = outcome /\ bad' = bad BY <1>0, <1>2, CleanupsAreMild
  <2>2. /\ pc'[q] = pc[q] \/ pc'[q] = "killed"
        /\ run'[q] = run[q] \/ (run[q] = "open" /\ run'[q] = "finished")
        /\ \A s \in Stages : \/ status'[q][s] = status[q][s]
                             \/ status[q][s] \in {"pending", "running"} /\ status'[q][s] = "failed"
    BY <1>0, <1>2, CleanupsAreMild
  <2>3. ASSUME NEW s \in Stages PROVE RowOf(q, s)'
    BY <1>0, <1>S, <2>1, <2>2 DEF Progress, RowOf, RowInLoop, BehindLoop, Enabled
  <2> QED BY <1>0, <2>1, <2>2, <2>3 DEF Progress, Enabled
<1>3. CASE UNCHANGED vars
  BY <1>0, <1>3 DEF vars, db, orch, desk, Progress, RowOf, RowInLoop, BehindLoop, Enabled
<1> USE DEF TypeOK, Progress, RowOf, RowInLoop, BehindLoop, Enabled, db, orch, desk, Goto
<1>4. CASE StartFromShell(q) BY <1>0, <1>4 DEF StartFromShell
<1>5. CASE Spawn(q) BY <1>0, <1>5 DEF Spawn
<1>6. CASE Check(q) BY <1>0, <1>6 DEF Check
<1>7. CASE ExportSkipped(q) BY <1>0, <1>7 DEF ExportSkipped
<1>8. CASE InsertRun(q) BY <1>0, <1>8 DEF InsertRun
<1>9. CASE InsertStage(q)
  <2>1. PICK s \in Uninserted(q) : status' = [status EXCEPT ![q][s] = IF s \in Enabled(q) THEN "pending" ELSE "skipped"]
    BY <1>9 DEF InsertStage
  <2>2. s \in Stages BY <2>1 DEF Uninserted
  <2>3. /\ status'[q][s] = IF s \in Enabled(q) THEN "pending" ELSE "skipped"
        /\ \A t \in Stages \ {s} : status'[q][t] = status[q][t]
    BY <1>0, <2>1, <2>2
  <2>4. pc'[q] \in {"loop", "insert"} /\ pc[q] = "insert" /\ UNCHANGED <<plan, at, outcome, bad, run>>
    BY <1>0, <1>9 DEF InsertStage
  <2>5. CASE pc'[q] = "insert" BY <1>0, <2>2, <2>3, <2>4, <2>5
  <2>6. CASE pc'[q] = "loop"
    <3>1. Cardinality(Uninserted(q)) = 1 BY <1>0, <1>9, <2>6 DEF InsertStage
    <3>2. \A t \in Stages \ {s} : status[q][t] # "none" BY <2>1, <3>1, OneIsAll DEF Uninserted
    <3> QED BY <1>0, <1>S, <2>2, <2>3, <2>4, <2>6, <3>2
  <2> QED BY <2>4, <2>5, <2>6
<1>10. CASE MarkRunning(q)
  <2>1. PICK s \in Remaining(q) : /\ \A t \in Remaining(q) : s <= t
                                  /\ at' = [at EXCEPT ![q] = s]
                                  /\ status' = [status EXCEPT ![q][s] = "running"]
    BY <1>10 DEF MarkRunning
  <2>2. s \in Enabled(q) /\ s > at[q] /\ s \in Stages BY <2>1 DEF Remaining
  <2>3. /\ pc[q] = "loop" /\ pc'[q] = "run" /\ at'[q] = s /\ UNCHANGED <<plan, outcome, bad, run>>
        /\ status'[q][s] = "running" /\ \A t \in Stages \ {s} : status'[q][t] = status[q][t]
    BY <1>0, <1>10, <2>1, <2>2 DEF MarkRunning
  <2>4. ASSUME NEW t \in Enabled(q), t < s PROVE t <= at[q]
    <3>1. t \notin Remaining(q) BY <1>S, <2>1, <2>2, <2>4
    <3>2. at[q] \in Nat /\ t \in Nat BY <1>A, <1>S
    <3> QED BY <3>1, <3>2, <2>4 DEF Remaining
  <2>5. ASSUME NEW t \in Stages PROVE RowOf(q, t)'
    <3>1. at[q] \in Nat /\ s \in Nat /\ t \in Nat BY <1>A, <1>S, <2>2
    <3>2. CASE t = s BY <1>0, <2>2, <2>3, <3>1, <3>2
    <3>3. CASE t # s
      <4>1. t \in Enabled(q) => RowInLoop(q, t) BY <1>0, <2>3
      <4>2. t \in Enabled(q) /\ t < s => BehindLoop(q, t)
        <5>1. t \in Enabled(q) /\ t < s => t <= at[q] BY <2>4
        <5> QED BY <2>3, <3>1, <5>1
      <4>3. t \in Enabled(q) => RowInLoop(q, t)' BY <2>2, <2>3, <3>1, <3>3, <4>1, <4>2
      <4>4. pc'[q] = "run" /\ plan' = plan /\ status'[q][t] = status[q][t] /\ status[q][t] # "none"
            /\ (t \notin Enabled(q) => status[q][t] \in {"none", "skipped"})
        BY <1>0, <2>3, <3>3
      <4> HIDE DEF RowInLoop
      <4> QED BY <4>3, <4>4
    <3> QED BY <3>2, <3>3
  <2> QED BY <1>0, <2>2, <2>3, <2>5
<1>11. CASE RunStage(q)
  <2>1. PICK o \in {"skipped", "failed", "succeeded"} :
          outcome' = [outcome EXCEPT ![q] = o] /\ bad' = [bad EXCEPT ![q] = @ \/ o = "failed"]
    BY <1>11 DEF RunStage, Outcomes
  <2>2. bad'[q] = (bad[q] \/ o = "failed") /\ outcome'[q] = o BY <1>0, <2>1
  <2>3. bad[q] => bad'[q] BY <2>2
  <2>4. pc[q] = "run" /\ pc'[q] = "mark" /\ UNCHANGED <<plan, at, status, run>> BY <1>0, <1>11 DEF RunStage
  <2>5. ASSUME NEW t \in Stages PROVE RowOf(q, t)' BY <1>0, <2>3, <2>4
  <2>6. outcome'[q] \in Verdicts \/ (outcome'[q] = "failed" /\ bad'[q]) BY <2>2
  <2> QED BY <1>0, <2>4, <2>5, <2>6
<1>12. CASE Mark(q)
  <2>1. /\ pc[q] = "mark" /\ pc'[q] = "loop" /\ at[q] \in Stages /\ UNCHANGED <<plan, at, bad, run>>
        /\ status'[q][at[q]] = outcome[q] /\ \A t \in Stages \ {at[q]} : status'[q][t] = status[q][t]
    BY <1>0, <1>12 DEF Mark
  <2>2. ASSUME NEW t \in Stages PROVE RowOf(q, t)'
    <3>1. at[q] \in Nat /\ t \in Nat BY <1>S, <2>1
    <3> QED BY <1>0, <2>1, <3>1
  <2> QED BY <1>0, <2>1, <2>2
<1>13. CASE Finish(q)
  <2>1. pc[q] = "loop" /\ pc'[q] = "export" /\ run'[q] = "finished" /\ UNCHANGED <<plan, at, bad, status>>
    BY <1>0, <1>13 DEF Finish
  <2>3. ASSUME NEW s \in Enabled(q) PROVE BehindLoop(q, s)
    <3>1. s \notin Remaining(q) /\ s \in Nat BY <1>13, <1>S DEF Finish
    <3> QED BY <2>1, <1>A, <3>1 DEF Remaining
  <2>4. ASSUME NEW s \in Stages PROVE RowOf(q, s)'
    <3>1. status[q][s] \in Verdicts \/ (status[q][s] = "failed" /\ bad[q]) BY <1>0, <2>1, <2>3
    <3> QED BY <1>0, <2>1, <3>1
  <2> QED BY <1>0, <2>1, <2>4
<1>14. CASE Export(q)
  <2>1. pc[q] = "export" /\ UNCHANGED <<plan, at, bad, status, run>> BY <1>0, <1>14 DEF Export
  <2>2. (pc'[q] = "failed" /\ bad[q]) \/ (pc'[q] = "done" /\ ~bad[q]) BY <1>0, <1>14, Zenon DEF Export, ExitPlace
  <2> QED BY <1>0, <2>1, <2>2
<1>15. CASE Raises(q) BY <1>0, <1>15 DEF Raises
<1>16. CASE CatchFailStages(q) BY <1>0, <1>16 DEF CatchFailStages
<1>17. CASE CatchCloseRun(q) BY <1>0, <1>17 DEF CatchCloseRun
<1>18. CASE CatchExport(q) BY <1>0, <1>18 DEF CatchExport
<1>19. CASE Kill(q) BY <1>0, <1>19 DEF Kill
<1> HIDE DEF TypeOK, Progress
<1> QED BY StepsAreBy, <1>1, <1>2, <1>3, <1>4, <1>5, <1>6, <1>7, <1>8, <1>9, <1>10, <1>11, <1>12, <1>13, <1>14, <1>15,
         <1>16, <1>17, <1>18, <1>19 DEF ByProcess, Works

\* Nothing writes any more to the rows of a run that is final.
LEMMA FinalStays ==
  ASSUME OutcomeInv, [Next]_vars, NEW r \in Procs, Final(r)
  PROVE  Final(r)' /\ run'[r] = run[r] /\ status'[r] = status[r] /\ State(r)' = State(r)
<1>0. TypeOK /\ Progress(r) BY DEF OutcomeInv, IInv
<1> SUFFICES Final(r)' /\ run'[r] = run[r] /\ status'[r] = status[r]
  BY DEF State, Final
<1>1. ASSUME NEW p \in Procs, ByProcess(p), p # r PROVE Final(r)' /\ run'[r] = run[r] /\ status'[r] = status[r]
  BY <1>0, <1>1, OthersAreLeft DEF Same, Final
<1>2. CASE ByApp BY <1>0, <1>2, CleanupsAreMild DEF Final
<1>3. CASE UNCHANGED vars BY <1>3 DEF vars, db, orch, desk, Final
<1>L. pc[r] \in {"loop", "fail_stages", "close_run"} => \A s \in Stages : status[r][s] \in Verdicts BY DEF Final
<1> USE DEF TypeOK, Final, Verdicts, db, orch, desk, Goto
<1>4. CASE StartFromShell(r) \/ Spawn(r) \/ Check(r) \/ ExportSkipped(r) \/ InsertRun(r) \/ InsertStage(r)
           \/ RunStage(r) \/ Mark(r)
  BY <1>4 DEF StartFromShell, Spawn, Check, ExportSkipped, InsertRun, InsertStage, RunStage, Mark
<1>5. CASE MarkRunning(r)
  <2>1. PICK s \in Remaining(r) : TRUE BY <1>5 DEF MarkRunning
  <2>2. s \in Enabled(r) /\ s \in Stages /\ s > at[r] /\ pc[r] = "loop" BY <1>5, <2>1 DEF MarkRunning, Remaining, Enabled
  <2>3. status[r][s] \in {"pending", "failed"} BY <1>0, <2>2 DEF Progress, RowOf, RowInLoop, InLoop
  <2> QED BY <1>L, <2>2, <2>3
<1>6. CASE Finish(r) BY <1>0, <1>6 DEF Finish
<1>7. CASE Export(r) BY <1>0, <1>7 DEF Export, ExitPlace
<1>8. CASE Raises(r) BY <1>0, <1>8 DEF Raises
<1>9. CASE CatchFailStages(r)
  <2>1. \A s \in Stages : status[r][s] \in Verdicts BY <1>9, <1>L DEF CatchFailStages
  <2>2. status'[r] = [s \in Stages |-> IF status[r][s] \in {"pending", "running"} THEN "failed" ELSE status[r][s]]
    BY <1>0, <1>9 DEF CatchFailStages
  <2>3. status'[r] = status[r]
    <3>1. status[r] = [s \in Stages |-> status[r][s]] BY <1>0
    <3> QED BY <2>1, <2>2, <3>1
  <2> QED BY <1>0, <1>9, <2>1, <2>3 DEF CatchFailStages
<1>10. CASE CatchCloseRun(r) BY <1>0, <1>10 DEF CatchCloseRun
<1>11. CASE CatchExport(r) BY <1>0, <1>11 DEF CatchExport
<1>12. CASE Kill(r) BY <1>0, <1>12 DEF Kill
<1> HIDE DEF TypeOK, Final
<1> QED BY StepsAreBy, <1>1, <1>2, <1>3, <1>4, <1>5, <1>6, <1>7, <1>8, <1>9, <1>10, <1>11, <1>12 DEF ByProcess, Works

\* A run that reads complete, some enabled stage of it with a verdict, is final: its
\* rows are all there, and none of them is unresolved.
LEMMA WholeIsFinal ==
  ASSUME OutcomeInv, NEW r \in Procs, Complete(r), NEW s \in Enabled(r), status[r][s] # "none"
  PROVE  Final(r)
<1>1. TypeOK /\ Progress(r) /\ s \in Stages BY DEF OutcomeInv, IInv, Enabled
<1>2. run[r] = "finished" /\ \A t \in Stages : status[r][t] \notin Unresolved BY DEF Complete, State
<1>3. status[r][s] \in Verdicts BY <1>1, <1>2 DEF TypeOK, Statuses, Unresolved, Verdicts
<1>4. pc[r] \in InLoop \cup {"export", "export_failed", "done", "failed", "killed", "fail_stages", "close_run"}
  <2>1. pc[r] \in {"off"} \cup Working \cup ExitOk \cup ExitBad BY <1>1 DEF TypeOK
  <2>2. pc[r] \notin Unbegun \cup {"insert"} BY <1>1, <1>3 DEF Progress, RowOf, Verdicts
  <2> QED BY <2>1, <2>2 DEF Working, ExitOk, ExitBad, Unbegun, InLoop
<1>5. pc[r] \notin {"run", "mark"}
  BY <1>1, <1>2 DEF Progress, RowOf, RowInLoop, InLoop, Enabled, Unresolved
<1>6. pc[r] \in {"loop", "fail_stages", "close_run"} => \A t \in Stages : status[r][t] \in Verdicts
  <2>1. \A t \in Stages : status[r][t] \in Statuses BY <1>1 DEF TypeOK
  <2>2. pc[r] \in {"loop", "fail_stages", "close_run"} => \A t \in Stages : status[r][t] # "none"
    BY <1>1 DEF Progress, RowOf, InLoop
  <2> QED BY <1>2, <2>1, <2>2 DEF Unresolved, Verdicts, Statuses
<1> QED BY <1>2, <1>4, <1>5, <1>6 DEF Final, InLoop

\* A run that the resume check accepts is final: some stage of it has a verdict.
LEMMA CoveredIsFinal ==
  ASSUME OutcomeInv, NEW p \in Procs, NEW r \in CompleteRunsFor(p)
  PROVE  r \in Procs /\ Final(r) /\ Complete(r)
<1>1. r \in Procs /\ Complete(r) /\ \A s \in Enabled(p) : Covers(r, p, s) BY DEF CompleteRunsFor
<1>2. PICK s \in Stages : plan[p][s] # Disabled BY RunsAssumption DEF OutcomeInv, IInv, TypeOK
<1>3. status[r][s] # "none" /\ s \in Enabled(r) BY <1>1, <1>2 DEF Covers, Enabled
<1> QED BY <1>1, <1>3, WholeIsFinal

\* A summary is written of a run that is final, and as it is for good.
LEMMA SummarisedHolds == ASSUME OutcomeInv, [Next]_vars PROVE \A q \in Procs : Summarised(q)'
<1> SUFFICES ASSUME NEW q \in Procs PROVE Summarised(q)' OBVIOUS
<1>0. TypeOK /\ Summarised(q) BY DEF OutcomeInv, IInv
<1>F. Final(q) => Final(q)' /\ State(q)' = State(q) BY FinalStays
<1>K. ASSUME summary'[q] = summary[q], pc'[q] = "done" => pc[q] = "done" PROVE Summarised(q)'
  BY <1>0, <1>F, <1>K DEF Summarised
<1>1. CASE ByApp BY <1>0, <1>1, <1>K, CleanupsAreMild DEF Working
<1>2. CASE UNCHANGED vars BY <1>2, <1>K DEF vars, db, orch
<1>3. ASSUME NEW p \in Procs, ExportSkipped(p) PROVE Summarised(q)'
  <2>1. pc'[q] = "done" => pc[q] = "done" BY <1>0, <1>3 DEF ExportSkipped, Goto, TypeOK
  <2>2. CASE summary'[q] = summary[q] BY <2>1, <2>2, <1>K
  <2>3. CASE summary'[q] # summary[q]
    <3>1. q = found[p] /\ summary'[q] = State(q) BY <1>0, <1>3, <2>3 DEF ExportSkipped, ExportIfMissing, Exported, TypeOK
    <3>2. Final(q) BY <1>3, <3>1 DEF OutcomeInv, Finds, ExportSkipped
    <3>3. Final(q)' /\ State(q)' = State(q) BY <3>2, <1>F
    <3> QED BY <2>1, <3>1, <3>3, <1>0 DEF Summarised, State
  <2> QED BY <2>2, <2>3
<1>4. ASSUME NEW p \in Procs, Export(p) \/ CatchExport(p) PROVE Summarised(q)'
  <2>1. CASE p # q BY <1>0, <1>4, <2>1, <1>K DEF Export, CatchExport, Goto, TypeOK
  <2>2. CASE p = q
    <3>1. Final(q) BY <1>4, <2>2 DEF Export, CatchExport, OutcomeInv, Progress, Final
    <3>2. summary'[q] = State(q) BY <1>0, <1>4, <2>2 DEF Export, CatchExport, Exported, TypeOK
    <3>3. State(q)' # "none" BY DEF State
    <3> QED BY <1>F, <3>1, <3>2, <3>3 DEF Summarised
  <2> QED BY <2>1, <2>2
<1> USE DEF TypeOK, orch, desk, Goto
<1>5. ASSUME NEW p \in Procs, StartFromShell(p) \/ Spawn(p) \/ Check(p) \/ InsertRun(p) PROVE Summarised(q)'
  BY <1>0, <1>5, <1>K DEF StartFromShell, Spawn, Check, InsertRun, db
<1>6. ASSUME NEW p \in Procs, InsertStage(p) \/ MarkRunning(p) \/ RunStage(p) \/ Mark(p) \/ Finish(p) PROVE Summarised(q)'
  <2>1. summary' = summary BY <1>6 DEF InsertStage, MarkRunning, RunStage, Mark, Finish, db
  <2>2. \E place \in {"loop", "insert", "run", "mark", "export"} : pc' = [pc EXCEPT ![p] = place]
    BY <1>6 DEF InsertStage, MarkRunning, RunStage, Mark, Finish
  <2> QED BY <1>0, <1>K, <2>1, <2>2
<1>7. ASSUME NEW p \in Procs, Raises(p) \/ CatchFailStages(p) \/ CatchCloseRun(p) \/ Kill(p) PROVE Summarised(q)'
  BY <1>0, <1>7, <1>K DEF Raises, CatchFailStages, CatchCloseRun, Kill, db
<1> HIDE DEF TypeOK
<1> QED BY StepsAreBy, <1>1, <1>2, <1>3, <1>4, <1>5, <1>6, <1>7 DEF ByProcess, Works

\* The run a process skips for stays final and complete, and gets its summary.
LEMMA FindsHolds == ASSUME OutcomeInv, [Next]_vars PROVE \A q \in Procs : Finds(q)'
<1> SUFFICES ASSUME NEW q \in Procs PROVE Finds(q)' OBVIOUS
<1>0. TypeOK /\ Finds(q) BY DEF OutcomeInv, IInv
<1>1. \A p \in Procs : Summarised(p) BY DEF OutcomeInv
<1>2. pc[q] \in {"export_skipped", "skipped"} => found[q] \in Procs BY DEF OutcomeInv, IInv, Skips
<1>3. \A r \in Procs : summary[r] # "none" => summary'[r] # "none"
  <2> USE <1>0 DEF TypeOK, db, orch, desk
  <2>1. CASE ByApp BY <2>1, CleanupsAreMild
  <2>2. CASE UNCHANGED vars BY <2>2 DEF vars
  <2>3. ASSUME NEW p \in Procs, ByProcess(p) PROVE \A r \in Procs : summary[r] # "none" => summary'[r] # "none"
    <3>1. CASE ExportSkipped(p) BY <3>1 DEF ExportSkipped, ExportIfMissing, Exported, State
    <3>2. CASE Export(p) \/ CatchExport(p) BY <3>2 DEF Export, CatchExport, Exported, State
    <3>3. CASE summary' = summary BY <3>3
    <3> QED BY <2>3, <3>1, <3>2, <3>3 DEF ByProcess, Works, StartFromShell, Spawn, Check, InsertRun, InsertStage, MarkRunning,
         RunStage, Mark, Finish, Raises, CatchFailStages, CatchCloseRun, Kill
  <2> HIDE DEF TypeOK
  <2> QED BY StepsAreBy, <2>1, <2>2, <2>3
<1>4. ASSUME found'[q] = found[q], pc'[q] \in {"export_skipped", "skipped"} => pc'[q] = pc[q] PROVE Finds(q)'
  <2>1. CASE pc'[q] = "skipped" BY <1>0, <1>2, <1>3, <1>4, <2>1 DEF Finds
  <2>2. CASE pc'[q] = "export_skipped"
    <3>1. PICK r \in Procs : r = found[q] /\ Final(r) /\ Complete(r) BY <1>0, <1>2, <1>4, <2>2 DEF Finds
    <3>2. Final(r)' /\ Complete(r)' BY <3>1, FinalStays DEF Complete
    <3> QED BY <1>4, <3>1, <2>2, <3>2 DEF Finds, Final, Complete, State
  <2> QED BY <2>1, <2>2 DEF Finds
<1>5. CASE ByApp BY <1>0, <1>5, <1>4, CleanupsAreMild DEF Working
<1>6. CASE UNCHANGED vars BY <1>6, <1>4 DEF vars, orch
<1>7. ASSUME NEW p \in Procs, ByProcess(p), p # q PROVE Finds(q)' BY <1>0, <1>4, <1>7, OthersAreLeft DEF Same
<1>8. CASE Check(q)
  <2>1. CASE \E r \in CompleteRunsFor(q) : found' = [found EXCEPT ![q] = r] /\ Goto(q, "export_skipped")
    <3>1. PICK r \in CompleteRunsFor(q) : found' = [found EXCEPT ![q] = r] /\ Goto(q, "export_skipped") BY <2>1
    <3>2. r \in Procs /\ Final(r) /\ Complete(r) BY CoveredIsFinal
    <3>3. Final(r)' /\ Complete(r)' BY <3>2, FinalStays DEF Complete
    <3>4. found'[q] = r /\ pc'[q] = "export_skipped" BY <1>0, <3>1 DEF Goto, TypeOK
    <3> QED BY <3>3, <3>4 DEF Finds, Final, Complete, State
  <2>2. CASE Goto(q, "create") /\ UNCHANGED found BY <1>0, <1>4, <2>2 DEF Goto, TypeOK
  <2> QED BY <1>8, <2>1, <2>2 DEF Check
<1>9. CASE ExportSkipped(q)
  <2>1. found[q] \in Procs /\ found' = found /\ pc'[q] = "skipped" BY <1>0, <1>2, <1>9 DEF ExportSkipped, Goto, TypeOK
  <2>2. summary'[found[q]] # "none" BY <1>0, <1>9, <2>1 DEF ExportSkipped, ExportIfMissing, Exported, State, TypeOK
  <2> QED BY <2>1, <2>2 DEF Finds
<1>10. CASE ByProcess(q) /\ ~Check(q) /\ ~ExportSkipped(q)
  <2>1. found' = found
    BY <1>10 DEF ByProcess, Works, StartFromShell, Spawn, InsertRun, InsertStage, MarkRunning,
         RunStage, Mark, Finish, Raises, CatchFailStages, CatchCloseRun, Kill, Export, CatchExport, orch
  <2>2. pc'[q] \notin {"export_skipped", "skipped"}
    BY <1>0, <1>10 DEF ByProcess, Works, StartFromShell, Spawn, InsertRun, InsertStage, MarkRunning, ExitPlace,
         RunStage, Mark, Finish, Raises, CatchFailStages, CatchCloseRun, Kill, Export, CatchExport, Goto, TypeOK
  <2> QED BY <1>4, <2>1, <2>2
<1> QED BY StepsAreBy, <1>5, <1>6, <1>7, <1>8, <1>9, <1>10

-------------------------------------------------------------------------------
(* The theorems about outcomes. *)

\* The invariant of rows, summaries and skips holds for ever.
THEOREM OutcomeInvariant == Spec => []OutcomeInv
<1>1. Init => OutcomeInv BY InitOutcome
<1>2. ASSUME OutcomeInv, [Next]_vars PROVE OutcomeInv'
  <2>1. IInv' BY <1>2, TypeOKHolds, UnderwayHolds, RowHolds, SkipsHolds DEF OutcomeInv, IInv
  <2> QED BY <1>2, <2>1, ProgressHolds, SummarisedHolds, FindsHolds DEF OutcomeInv
<1> QED BY <1>1, <1>2, PTL DEF Spec

\* An orchestrator that reports success leaves a run that reads complete, with
\* its summary, and no summary ever contradicts the run's state in the database,
\* whichever cleanups came before, between or after its statements
\* (runPipelineForBackup, exportRunSummary).
THEOREM OutcomesAreTrue == Spec => []OutcomeIsTrue
<1>1. OutcomeInv => OutcomeIsTrue
  <2> SUFFICES ASSUME OutcomeInv PROVE OutcomeIsTrue OBVIOUS
  <2>1. SummaryAgrees BY DEF OutcomeInv, Summarised, SummaryAgrees
  <2>2. ASSUME NEW p \in Procs, pc[p] = "done" PROVE Complete(p) /\ Whole(p) /\ summary[p] = "complete"
    <3>1. Progress(p) /\ Summarised(p) BY DEF OutcomeInv
    <3>2. run[p] = "finished" /\ \A s \in Stages : status[p][s] \in Verdicts
      BY <2>2, <3>1 DEF Progress, RowOf
    <3>3. State(p) = "complete" BY <3>2 DEF State, Verdicts, Unresolved
    <3> QED BY <2>2, <3>1, <3>2, <3>3 DEF Complete, Whole, Verdicts, Summarised
  <2>3. ASSUME NEW p \in Procs, pc[p] = "skipped" PROVE summary[found[p]] # "none"
    BY <2>3 DEF OutcomeInv, Finds
  <2> QED BY <2>1, <2>2, <2>3 DEF OutcomeIsTrue, ExitZeroMeansComplete
<1> QED BY <1>1, OutcomeInvariant, PTL

\* The verdict an orchestrator has put on its own run is final: no statement of
\* any other process, and no cleanup of the app, touches it (markRunFailed,
\* reconcileStaleRunsOnStartup and the markers of aborted runs).
THEOREM VerdictsAreFinal == Spec => OwnVerdictIsFinal
<1>1. ASSUME OutcomeInv, [Next]_vars, NEW r \in Procs, ClosedByOwner(r)
      PROVE  status'[r] = status[r] /\ run'[r] = "finished"
  <2>1. Final(r) BY <1>1 DEF ClosedByOwner, Final
  <2> QED BY <1>1, <2>1, FinalStays DEF Final
<1>2. OutcomeInv /\ [Next]_vars
      => [\A r \in Procs : ClosedByOwner(r) => status'[r] = status[r] /\ run'[r] = "finished"]_vars
  BY <1>1
<1> QED BY <1>2, OutcomeInvariant, PTL DEF Spec, OwnVerdictIsFinal

\* A run that reads complete with all its rows reads so for good, whoever closed
\* it and whichever of its orchestrator's statements are still to come
\* (reconcileStaleRunsOnStartup, the markers of aborted runs, run_completeness).
THEOREM CompleteRunsStay == Spec => CompleteStays
<1>1. ASSUME OutcomeInv, [Next]_vars, NEW r \in Procs, Complete(r), Whole(r)
      PROVE  status'[r] = status[r] /\ run'[r] = "finished"
  <2>1. TypeOK /\ Progress(r) BY <1>1 DEF OutcomeInv, IInv
  <2>2. PICK s \in Stages : s \in Enabled(r) BY <2>1, RunsAssumption DEF TypeOK, Enabled
  <2>3. Final(r) BY <1>1, <2>2, WholeIsFinal DEF Whole, Enabled
  <2> QED BY <1>1, <2>3, FinalStays DEF Final
<1>2. OutcomeInv /\ [Next]_vars
      => [\A r \in Procs : Complete(r) /\ Whole(r) => status'[r] = status[r] /\ run'[r] = "finished"]_vars
  BY <1>1
<1> QED BY <1>2, OutcomeInvariant, PTL DEF Spec, CompleteStays
=================================================================================
