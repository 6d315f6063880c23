----------------------------- MODULE PipelineRuns -----------------------------
(***************************************************************************)
(* Analysis runs of one prepared backup: orchestrator processes that create *)
(* a run, take it through its stages and close it, and the desktop app that *)
(* spawns them one at a time and closes what a dead one left open.          *)
(*                                                                         *)
(* One actor per orchestrator process; it creates at most one run, so the   *)
(* process and its run share a name.  A step is one SQL statement, as the   *)
(* orchestrator and the app use no transaction here, or one file written.   *)
(* The evidence and its decrypt are fixed.                                  *)
(***************************************************************************)
EXTENDS Integers, FiniteSets

CONSTANTS
  Procs,       \* orchestrator processes, and the runs they create
  Others,      \* those started from the command line, not by the app
  Orphans,     \* TRUE: a process may outlive the app that spawned it
  Stages,      \* stage orders, 1 .. n
  Inputs,      \* what a stage may read: input id with parser version
  Worlds,      \* what registration may find: stage |-> input or one of the below
  NotAcquired, \* the input is absent, and its absence is a fact
  Missing,     \* the input is absent because the processor has not made it
  Disabled,    \* the stage is disabled
  NoProc

ASSUME RunsAssumption ==
  /\ Others \subseteq Procs /\ NoProc \notin Procs
  /\ Orphans \in BOOLEAN
  /\ Stages \subseteq Nat \ {0} /\ IsFiniteSet(Stages)
  /\ Worlds \subseteq [Stages -> Inputs \cup {NotAcquired, Missing, Disabled}]
  /\ {NotAcquired, Missing, Disabled} \cap Inputs = {}
  /\ NotAcquired # Missing /\ Missing # Disabled /\ NotAcquired # Disabled
  \* Without an enabled stage the orchestrator does not start (main.ts:17).
  /\ \A w \in Worlds : \E s \in Stages : w[s] # Disabled

VARIABLES
  run,      \* run[r]: "none", "open" (finished_at IS NULL) or "finished"
  status,   \* status[r][s]: the stage row's status, "none" while it is not inserted
  summary,  \* summary[r]: the state its run-summary file records, or "none"
  pc,       \* where the orchestrator process is
  plan,     \* plan[p]: what registration found when it started
  at,       \* at[p]: the stage its loop is on
  outcome,  \* outcome[p]: how that stage went
  bad,      \* bad[p]: some stage of its results failed
  found,    \* found[p]: the complete run it skipped for
  did,      \* did[p]: the stages whose process exited 0 for it
  app,      \* "down", "fail_stages", "close_runs" (reconciling) or "up"
  child,    \* runningOrchestratorProcess
  abort     \* abort[p]: the cleanup its close handler started

db == <<run, status, summary>>
orch == <<pc, plan, at, outcome, bad, found, did>>
desk == <<app, child, abort>>
vars == <<db, orch, desk>>

Working == {"check", "create", "insert", "loop", "run", "mark", "export",
            "fail_stages", "close_run", "export_failed", "export_skipped"}
ExitOk == {"done", "skipped"}
ExitBad == {"failed", "killed"}
Statuses == {"none", "pending", "running", "succeeded", "failed", "skipped"}

TypeOK ==
  /\ run \in [Procs -> {"none", "open", "finished"}]
  /\ status \in [Procs -> [Stages -> Statuses]]
  /\ summary \in [Procs -> {"none", "running", "incomplete", "complete"}]
  /\ pc \in [Procs -> {"off"} \cup Working \cup ExitOk \cup ExitBad]
  /\ plan \in [Procs -> Worlds]
  /\ at \in [Procs -> Stages \cup {0}]
  /\ outcome \in [Procs -> {"none", "succeeded", "failed", "skipped"}]
  /\ bad \in [Procs -> BOOLEAN]
  /\ found \in [Procs -> Procs \cup {NoProc}]
  /\ did \in [Procs -> SUBSET Stages]
  /\ app \in {"down", "fail_stages", "close_runs", "up"}
  /\ child \in Procs \cup {NoProc}
  /\ abort \in [Procs -> {"no", "fail_stages", "close_runs", "over"}]

Init ==
  /\ run = [p \in Procs |-> "none"]
  /\ status = [p \in Procs |-> [s \in Stages |-> "none"]]
  /\ summary = [p \in Procs |-> "none"]
  /\ pc = [p \in Procs |-> "off"]
  /\ plan \in [Procs -> Worlds]
  /\ at = [p \in Procs |-> 0]
  /\ outcome = [p \in Procs |-> "none"]
  /\ bad = [p \in Procs |-> FALSE]
  /\ found = [p \in Procs |-> NoProc]
  /\ did = [p \in Procs |-> {}]
  /\ app = "down"
  /\ child = NoProc
  /\ abort = [p \in Procs |-> "no"]

Goto(p, place) == pc' = [pc EXCEPT ![p] = place]
Enabled(p) == {s \in Stages : plan[p][s] # Disabled}

-------------------------------------------------------------------------------
(* The run_completeness view. *)

UnresolvedFailedOnly == {"failed"} \* slip: a stage left pending or running is not counted
Unresolved == {"failed", "pending", "running"}
State(r) ==
  CASE run[r] = "open" -> "running"
    [] run[r] # "open" /\ (\E s \in Stages : status[r][s] \in Unresolved) -> "incomplete"
    [] OTHER -> "complete"
Complete(r) == run[r] = "finished" /\ State(r) = "complete"

-------------------------------------------------------------------------------
(* One orchestrator process on one backup: runPipelineForBackup. *)

StartFromShell(p) ==
  /\ p \in Others
  /\ pc[p] = "off"
  /\ Goto(p, "check")
  /\ UNCHANGED <<db, plan, at, outcome, bad, found, did, desk>>

\* A stage row of run r that does for stage s of p's plan: it succeeded on
\* the input wanted now, or was skipped for the absence seen now.
CoversAnySkip(r, p, s) == \* slip: the recorded reason is not compared
  \/ status[r][s] = "succeeded" /\ plan[r][s] = plan[p][s]
  \/ status[r][s] = "skipped" /\ plan[p][s] = NotAcquired
Covers(r, p, s) ==
  /\ plan[r][s] = plan[p][s]
  /\ \/ status[r][s] = "succeeded"
     \/ status[r][s] = "skipped" /\ plan[p][s] = NotAcquired

CompleteRunsFor(p) == {r \in Procs : Complete(r) /\ \A s \in Enabled(p) : Covers(r, p, s)}

\* findCompleteRunFor: go on to the summary of a run found, or to a new run.
\* Which of several it picks (the latest) is left open.
Check(p) ==
  /\ pc[p] = "check"
  /\ \/ \E r \in CompleteRunsFor(p) :
          /\ found' = [found EXCEPT ![p] = r]
          /\ Goto(p, "export_skipped")
     \/ /\ CompleteRunsFor(p) = {}
        /\ Goto(p, "create")
        /\ UNCHANGED found
  /\ UNCHANGED <<db, plan, at, outcome, bad, did, desk>>

\* What exportRunSummary writes, and what a skip leaves in the file of r.
Exported(r) == State(r)
ExportsNever(r) == summary \* slip: only the run's own process writes its summary
ExportIfMissing(r) == IF summary[r] = "none" THEN [summary EXCEPT ![r] = Exported(r)] ELSE summary
ExportSkipped(p) ==
  /\ pc[p] = "export_skipped"
  /\ summary' = ExportIfMissing(found[p])
  /\ Goto(p, "skipped")
  /\ UNCHANGED <<run, status, plan, at, outcome, bad, found, did, desk>>

\* createRun: the run's row, then one statement per stage row, the enabled
\* stages first.
InsertRun(p) ==
  /\ pc[p] = "create"
  /\ run' = [run EXCEPT ![p] = "open"]
  /\ Goto(p, "insert")
  /\ UNCHANGED <<status, summary, plan, at, outcome, bad, found, did, desk>>

Uninserted(p) == {s \in Stages : status[p][s] = "none"}
InsertsBefore(p, t, s) ==
  \/ t \in Enabled(p) /\ s \notin Enabled(p)
  \/ (t \in Enabled(p) <=> s \in Enabled(p)) /\ t < s
InsertStage(p) ==
  /\ pc[p] = "insert"
  /\ \E s \in Uninserted(p) :
       /\ \A t \in Uninserted(p) \ {s} : ~InsertsBefore(p, t, s)
       /\ status' = [status EXCEPT ![p][s] = IF s \in Enabled(p) THEN "pending" ELSE "skipped"]
  /\ Goto(p, IF Cardinality(Uninserted(p)) = 1 THEN "loop" ELSE "insert")
  /\ UNCHANGED <<run, summary, plan, at, outcome, bad, found, did, desk>>

\* The stage loop: mark running, run it, mark the outcome.
Remaining(p) == {s \in Enabled(p) : s > at[p]}
MarkRunning(p) ==
  /\ pc[p] = "loop"
  /\ \E s \in Remaining(p) :
       /\ \A t \in Remaining(p) : s <= t
       /\ at' = [at EXCEPT ![p] = s]
       /\ status' = [status EXCEPT ![p][s] = "running"]
  /\ Goto(p, "run")
  /\ UNCHANGED <<run, summary, plan, outcome, bad, found, did, desk>>

\* runStage: skipped or failed before it is spawned, or as its process exits.
Outcomes(input) ==
  CASE input = NotAcquired -> {"skipped"}
    [] input = Missing -> {"failed"}
    [] OTHER -> {"succeeded", "failed"}
RunStage(p) ==
  /\ pc[p] = "run"
  /\ \E o \in Outcomes(plan[p][at[p]]) :
       /\ outcome' = [outcome EXCEPT ![p] = o]
       /\ did' = [did EXCEPT ![p] = IF o = "succeeded" THEN @ \cup {at[p]} ELSE @]
       /\ bad' = [bad EXCEPT ![p] = @ \/ o = "failed"]
  /\ Goto(p, "mark")
  /\ UNCHANGED <<db, plan, at, found, desk>>

Mark(p) ==
  /\ pc[p] = "mark"
  /\ status' = [status EXCEPT ![p][at[p]] = outcome[p]]
  /\ outcome' = [outcome EXCEPT ![p] = "none"]
  /\ Goto(p, "loop")
  /\ UNCHANGED <<run, summary, plan, at, bad, found, did, desk>>

\* Every stage has its outcome: the run is closed, then its summary written.
Finish(p) ==
  /\ pc[p] = "loop"
  /\ Remaining(p) = {}
  /\ run' = [run EXCEPT ![p] = "finished"]
  /\ Goto(p, "export")
  /\ UNCHANGED <<status, summary, plan, at, outcome, bad, found, did, desk>>

ExitPlace(p) == IF bad[p] THEN "failed" ELSE "done"
Export(p) ==
  /\ pc[p] = "export"
  /\ summary' = [summary EXCEPT ![p] = Exported(p)]
  /\ Goto(p, ExitPlace(p))
  /\ UNCHANGED <<run, status, plan, at, outcome, bad, found, did, desk>>

\* A statement or a file write raises, or runStage throws; it changed nothing.
\* In the loop the catch block takes over; anywhere else the process reports
\* the backup as failed and leaves the run as it is.
Raises(p) ==
  /\ pc[p] \in Working
  /\ Goto(p, IF pc[p] \in {"loop", "run", "mark"} THEN "fail_stages" ELSE "failed")
  /\ UNCHANGED <<db, plan, at, outcome, bad, found, did, desk>>

\* The catch block: markRunFailed's two statements, the summary, the rethrow.
CatchFailEveryStage(p) == \* slip: the rows are not filtered by their status
  /\ pc[p] = "fail_stages"
  /\ status' = [status EXCEPT ![p] = [s \in Stages |-> "failed"]]
  /\ Goto(p, "close_run")
  /\ UNCHANGED <<run, summary, plan, at, outcome, bad, found, did, desk>>
CatchFailStages(p) ==
  /\ pc[p] = "fail_stages"
  /\ status' = [status EXCEPT ![p] =
                 [s \in Stages |-> IF @[s] \in {"pending", "running"} THEN "failed" ELSE @[s]]]
  /\ Goto(p, "close_run")
  /\ UNCHANGED <<run, summary, plan, at, outcome, bad, found, did, desk>>
CatchCloseRun(p) ==
  /\ pc[p] = "close_run"
  /\ run' = [run EXCEPT ![p] = "finished"]
  /\ Goto(p, "export_failed")
  /\ UNCHANGED <<status, summary, plan, at, outcome, bad, found, did, desk>>
CatchExport(p) ==
  /\ pc[p] = "export_failed"
  /\ summary' = [summary EXCEPT ![p] = Exported(p)]
  /\ Goto(p, "failed")
  /\ UNCHANGED <<run, status, plan, at, outcome, bad, found, did, desk>>

\* Killed, by the app's cancel or timeout or from outside.
Kill(p) ==
  /\ pc[p] \in Working
  /\ Goto(p, "killed")
  /\ UNCHANGED <<db, plan, at, outcome, bad, found, did, desk>>

-------------------------------------------------------------------------------
(* The desktop app. *)

Launch ==
  /\ app = "down"
  /\ app' = "fail_stages"
  /\ UNCHANGED <<db, orch, child, abort>>

\* The statements of reconcileStaleRunsOnStartup, markWorkspaceRunsAborted and
\* markSingleRunAborted: fail the open runs' unresolved stages, then close
\* every run that is open by then.
OpenRuns == {r \in Procs : run[r] = "open"}
StagesFailedAll == \* slip: every stage row of the workspace, not the open runs' unresolved ones
  [r \in Procs |-> [s \in Stages |-> IF status[r][s] # "none" THEN "failed" ELSE "none"]]
StagesFailed ==
  [r \in Procs |-> [s \in Stages |->
     IF r \in OpenRuns /\ status[r][s] \in {"pending", "running"} THEN "failed" ELSE status[r][s]]]
RunsClosedNever == run \* slip: the second statement is never sent
RunsClosed == [r \in Procs |-> IF r \in OpenRuns THEN "finished" ELSE run[r]]

ReconcileStages ==
  /\ app = "fail_stages"
  /\ status' = StagesFailed
  /\ app' = "close_runs"
  /\ UNCHANGED <<run, summary, orch, child, abort>>
ReconcileRuns ==
  /\ app = "close_runs"
  /\ run' = RunsClosed
  /\ app' = "up"
  /\ UNCHANGED <<status, summary, orch, child, abort>>
\* Best effort: the window opens although a statement failed.
ReconcileRaises ==
  /\ app \in {"fail_stages", "close_runs"}
  /\ app' = "up"
  /\ UNCHANGED <<db, orch, child, abort>>

\* startAnalysis and retryRun, behind their common single-flight guard.
MaySpawn == child = NoProc
Spawn(p) ==
  /\ app = "up"
  /\ MaySpawn
  /\ p \notin Others
  /\ pc[p] = "off"
  /\ Goto(p, "check")
  /\ child' = p
  /\ UNCHANGED <<db, plan, at, outcome, bad, found, did, app, abort>>

\* The child's 'close' event: the guard opens at once; unless it exited 0 the
\* cleanup starts, and is not waited for.
ChildClosed ==
  /\ child # NoProc
  /\ pc[child] \in ExitOk \cup ExitBad
  /\ abort' = [abort EXCEPT ![child] = IF pc[child] \in ExitOk THEN "over" ELSE "fail_stages"]
  /\ child' = NoProc
  /\ UNCHANGED <<db, orch, app>>
AbortStages(p) ==
  /\ abort[p] = "fail_stages"
  /\ status' = StagesFailed
  /\ abort' = [abort EXCEPT ![p] = "close_runs"]
  /\ UNCHANGED <<run, summary, orch, app, child>>
AbortRuns(p) ==
  /\ abort[p] = "close_runs"
  /\ run' = RunsClosed
  /\ abort' = [abort EXCEPT ![p] = "over"]
  /\ UNCHANGED <<status, summary, orch, app, child>>
AbortRaises(p) ==
  /\ abort[p] \in {"fail_stages", "close_runs"}
  /\ abort' = [abort EXCEPT ![p] = "over"]
  /\ UNCHANGED <<db, orch, app, child>>

\* The app quits or crashes, and its cleanups with it; nothing stops its child,
\* which may or may not live on.
Quit ==
  /\ app # "down"
  /\ app' = "down"
  /\ child' = NoProc
  /\ abort' = [p \in Procs |-> IF abort[p] = "no" THEN "no" ELSE "over"]
  /\ pc' = [p \in Procs |-> IF p = child /\ pc[p] \in Working /\ ~Orphans THEN "killed" ELSE pc[p]]
  /\ UNCHANGED <<db, plan, at, outcome, bad, found, did>>

-------------------------------------------------------------------------------
Works(p) ==
  \/ Check(p) \/ ExportSkipped(p) \/ InsertRun(p) \/ InsertStage(p)
  \/ MarkRunning(p) \/ RunStage(p) \/ Mark(p) \/ Finish(p) \/ Export(p)
  \/ CatchFailStages(p) \/ CatchCloseRun(p) \/ CatchExport(p)
Cleans(p) == AbortStages(p) \/ AbortRuns(p)

Next ==
  \/ \E p \in Procs : \/ StartFromShell(p) \/ Spawn(p) \/ Works(p) \/ Raises(p) \/ Kill(p)
                      \/ Cleans(p) \/ AbortRaises(p)
  \/ Launch \/ ReconcileStages \/ ReconcileRuns \/ ReconcileRaises \/ ChildClosed \/ Quit

Spec == Init /\ [][Next]_vars

\* Processes go on (stages end: the app's timeout sees to its own), the app
\* is closed and opened again time after time, and its statements do not fail
\* every time they are tried.
FairSpec ==
  /\ Spec
  /\ \A p \in Procs : WF_vars(Works(p)) /\ WF_vars(Cleans(p))
  /\ WF_vars(Launch) /\ WF_vars(Quit)
  /\ SF_vars(ReconcileStages) /\ SF_vars(ReconcileRuns)

-------------------------------------------------------------------------------
(* Properties. *)

\* All the rows createRun inserts are there.
Whole(r) == \A s \in Stages : status[r][s] # "none"
Resolved(r) == \A s \in Enabled(r) : s \in did[r] \/ plan[r][s] = NotAcquired

\* An analysis that skips the backup as already done is right: the run it found
\* ran every stage wanted now, on the input wanted now, to exit 0, or found the
\* same input never acquired (findCompleteRunFor).
SkipIsSound ==
  \A p \in Procs : pc[p] \in {"export_skipped", "skipped"} =>
    \A s \in Enabled(p) :
      LET r == found[p] IN
      plan[r][s] = plan[p][s] /\ (s \in did[r] \/ plan[p][s] = NotAcquired)

\* A run with all its rows reads complete only when every enabled stage did its
\* work or had a fact for not doing it, whoever closed it and when
\* (run_completeness).
CompleteIsEarned == \A r \in Procs : Complete(r) /\ Whole(r) => Resolved(r)

\* An orchestrator that reports success leaves a run that reads complete, and
\* its summary file (runPipelineForBackup's results; EPOCH-409).
ExitZeroMeansComplete ==
  \A p \in Procs :
    /\ pc[p] = "done" => Complete(p) /\ Whole(p) /\ summary[p] = "complete"
    /\ pc[p] = "skipped" => summary[found[p]] # "none"

\* A run-summary file never contradicts the run's state in the database.
SummaryAgrees == \A r \in Procs : summary[r] # "none" => summary[r] = State(r)

\* What a reader of the summary files and of the exit codes is told is so.
OutcomeIsTrue == ExitZeroMeansComplete /\ SummaryAgrees

\* The verdict an orchestrator itself has put on its run stays: nobody's
\* cleanup touches it.
ClosedByOwner(r) == run[r] = "finished" /\ pc[r] \in {"export", "export_failed", "done"}
OwnVerdictIsFinal ==
  [][\A r \in Procs : ClosedByOwner(r) => status'[r] = status[r] /\ run'[r] = "finished"]_vars

\* A run that reads complete with all its rows reads so for good, as whoever skips
\* the backup for it or lists it relies on: also when a reconciliation or a
\* cleanup closed it between its orchestrator's statements, of which some are
\* still to come.
CompleteStays ==
  [][\A r \in Procs : Complete(r) /\ Whole(r) => status'[r] = status[r] /\ run'[r] = "finished"]_vars

\* No run stays open for ever: its process closes it, or the app does when the
\* process failed to or died.
EveryRunCloses == \A r \in Procs : run[r] = "open" ~> run[r] = "finished"
================================================================================
