------------------------------- MODULE Analysis -------------------------------
(***************************************************************************)
(* Analyze and Retry in the app's main process: one orchestrator at a time,    *)
(* its timeout, cancelling it (SIGTERM, then SIGKILL five seconds later), what *)
(* is done once it has gone, and the session the renderer follows.             *)
(*                                                                         *)
(* An orchestrator stands for the process tree pnpm starts: a signal reaches   *)
(* all of it, and its streams end with it.  What it does to its run:           *)
(* PipelineRuns.  A timer's handle is what the code can still clear it by.     *)
(***************************************************************************)
EXTENDS Integers, Sequences, FiniteSets

CONSTANTS
  Labels,      \* backups of the workspace
  Workspace,   \* what an Analyze is of; a Retry is of a run's backup source
  Sources,     \* backup sources of the investigations listed
  MaxAnalyses, \* bound: orchestrators started
  MaxAsks,     \* bound: an examiner cancels while fewer timers are without a handle
  None

ASSUME AnalysisAssumption ==
  Workspace \notin Sources /\ None \notin Sources \cup {Workspace, "cancelled", "timeout"} /\ {MaxAnalyses, MaxAsks} \subseteq Nat

VARIABLES
  orch,        \* orch[g]: the g-th orchestrator started
  tracked,     \* runningOrchestratorProcess, 0 for none
  reason,      \* orchestratorTerminationReason
  timeout,     \* the timeout is armed
  escalations, \* SIGKILL timers: one with the handle, others without
  session,     \* analysisSession
  ending       \* orchestrators gone whose end is still to be told, and as what

analysisVars == <<orch, tracked, reason, timeout, escalations, session, ending>>

Gens == DOMAIN orch
Latest == Len(orch)
Running(g) == orch[g].is \in {"alive", "stopping", "killed"}
InitSession == [gen |-> 0, status |-> "idle", target |-> None, result |-> None]
AnalysisInit ==
  /\ orch = <<>> /\ tracked = 0 /\ reason = None /\ timeout = FALSE
  /\ escalations = [held |-> FALSE, lost |-> 0]
  /\ session = InitSession /\ ending = {}

-------------------------------------------------------------------------------
(* Starting. *)

ResetNever == reason \* slip: the last reason is left
Reset == None
Spawned(target, reads) == [is |-> "alive", code |-> 0, target |-> target, reads |-> reads, asked |-> {}]
Start(target, reads) ==
  /\ tracked = 0 /\ Latest < MaxAnalyses
  /\ orch' = Append(orch, Spawned(target, reads))
  /\ tracked' = Latest + 1 /\ reason' = Reset /\ timeout' = TRUE
  /\ session' = [gen |-> Latest + 1, status |-> "running", target |-> target, result |-> None]
  /\ UNCHANGED <<escalations, ending>>

\* analysisTargets: every backup the page's list, which may be stale, offered must
\* be prepared now, or the whole Analyze is refused.
StartAnalysis(included, prepared) ==
  included # {} /\ included \subseteq prepared /\ Start(Workspace, included)
RetryRun(source) == Start(source, {source})

-------------------------------------------------------------------------------
(* Stopping: killOrchestrator. *)

EscalatesNever == escalations \* slip: SIGTERM is all it gets
Escalates == [held |-> TRUE, lost |-> IF escalations.held THEN escalations.lost + 1 ELSE escalations.lost]
Kill(why) ==
  /\ tracked # 0
  /\ orch' = [orch EXCEPT ![tracked].is = IF @ = "alive" THEN "stopping" ELSE @, ![tracked].asked = @ \cup {why}]
  /\ reason' = why /\ escalations' = Escalates
GuardCleared == 0 \* slip: a cancelled orchestrator counts as gone
GuardKept == tracked
Cancel ==
  /\ Kill("cancelled") /\ tracked' = GuardKept
  /\ escalations'.lost < MaxAsks
  /\ UNCHANGED <<timeout, session, ending>>
TimeoutFires ==
  /\ timeout /\ timeout' = FALSE
  /\ Kill("timeout") \/ (tracked = 0 /\ UNCHANGED <<orch, reason, escalations>>)
  /\ UNCHANGED <<tracked, session, ending>>
\* A timer kills whichever orchestrator is tracked when it fires.
EscalationFires ==
  /\ \/ escalations.held /\ escalations' = [escalations EXCEPT !.held = FALSE]
     \/ escalations.lost > 0 /\ escalations' = [escalations EXCEPT !.lost = @ - 1]
  /\ orch' = IF tracked # 0 /\ orch[tracked].is # "exited"
             THEN [orch EXCEPT ![tracked].is = "killed", ![tracked].asked = @ \cup {"SIGKILL"}] ELSE orch
  /\ UNCHANGED <<tracked, reason, timeout, session, ending>>

-------------------------------------------------------------------------------
(* Going. *)

\* It ends by itself or of a signal, or ignores SIGTERM, hung.
Exits(g, code) ==
  /\ Running(g)
  /\ orch[g].is = "killed" => code # 0
  /\ orch' = [orch EXCEPT ![g].is = "exited", ![g].code = code]
  /\ UNCHANGED <<tracked, reason, timeout, escalations, session, ending>>

\* clearOrchestratorTimers
EscalationCleared == [escalations EXCEPT !.held = FALSE]
Untracked == tracked' = 0 /\ reason' = Reset /\ timeout' = FALSE /\ escalations' = EscalationCleared
Told(g, why) == [gen |-> g, success |-> orch[g].code = 0, cancelled |-> why = "cancelled", timedOut |-> why = "timeout"]
Finished(result) == [session EXCEPT !.status = "finished", !.result = result]
\* A clean end needs no clean-up; a retry's is told at once.
Close(g) ==
  /\ orch[g].is = "exited"
  /\ orch' = [orch EXCEPT ![g].is = "closed"] /\ Untracked
  /\ LET told == Told(g, IF orch[g].code = 0 THEN None ELSE reason)
         next == IF orch[g].code # 0 THEN "abort" ELSE "summary" IN
     IF orch[g].code = 0 /\ orch[g].target # Workspace
     THEN session' = Finished(told) /\ UNCHANGED ending
     ELSE ending' = ending \cup {[next |-> next, told |-> told]} /\ UNCHANGED session
\* markWorkspaceRunsAborted, or that of one run: the database may refuse, it is
\* logged, and the end is told all the same.
Abort(e) ==
  /\ e \in ending /\ e.next = "abort"
  /\ ending' = (ending \ {e}) \cup {[e EXCEPT !.next = "summary"]}
  /\ UNCHANGED <<orch, tracked, reason, timeout, escalations, session>>
\* readAnalysisSummary, then finish.
Finish(e) ==
  /\ e \in ending /\ e.next = "summary"
  /\ ending' = ending \ {e} /\ session' = Finished(e.told)
  /\ UNCHANGED <<orch, tracked, reason, timeout, escalations>>
\* spawn raises 'error' and then 'close', which tells the same end again.
SpawnFails(g) ==
  /\ orch[g].is = "alive" /\ tracked = g /\ orch[g].asked = {}
  /\ orch' = [orch EXCEPT ![g].is = "closed", ![g].code = 1] /\ Untracked
  /\ LET told == [Told(g, reason) EXCEPT !.success = FALSE] IN
     session' = Finished(told) /\ ending' = ending \cup {[next |-> "abort", told |-> told]}

KilledEnds(g) == orch[g].is = "killed" /\ Exits(g, 1)
AnalysisNext ==
  \/ \E included, prepared \in SUBSET Labels : StartAnalysis(included, prepared)
  \/ Cancel \/ TimeoutFires \/ EscalationFires
  \/ \E g \in Gens : Close(g) \/ SpawnFails(g) \/ KilledEnds(g) \/ \E code \in {0, 1} : Exits(g, code)
  \/ \E e \in ending : Abort(e) \/ Finish(e)

\* The app's timers fire, what is killed ends, and the event loop, the database
\* and the file system answer.
AnalysisFair ==
  /\ WF_analysisVars(TimeoutFires \/ EscalationFires)
  /\ WF_analysisVars(\E g \in Gens : Close(g) \/ KilledEnds(g))
  /\ WF_analysisVars(\E e \in ending : Abort(e) \/ Finish(e))

-------------------------------------------------------------------------------
(* Properties. *)

AnalysisTypeOK ==
  /\ \A g \in Gens : /\ orch[g].is \in {"alive", "stopping", "killed", "exited", "closed"}
                     /\ orch[g].code \in {0, 1} /\ orch[g].asked \subseteq {"cancelled", "timeout", "SIGKILL"}
  /\ tracked \in 0 .. Latest /\ reason \in {None, "cancelled", "timeout"} /\ timeout \in BOOLEAN
  /\ escalations \in [held : BOOLEAN, lost : Nat]
  /\ session.gen \in 0 .. Latest /\ session.status \in {"idle", "running", "finished"}
  /\ \A e \in ending : e.next \in {"abort", "summary"} /\ e.told.gen \in Gens

\* No two orchestrators run at once, and one that runs can be cancelled, however
\* starts, cancels, timers and ends interleave.
OneOrchestrator == \A g \in Gens : orch[g].is # "closed" => tracked = g

\* What the session says of an orchestrator is how that one ended: a success only
\* of a clean exit, "cancelled" or "timed out" only of one that was, although
\* reasons and timers are kept for whichever is tracked.
ToldAsItEnded ==
  session.result # None =>
    LET r == session.result o == orch[r.gen] IN
    /\ r.success <=> o.code = 0
    /\ r.cancelled => "cancelled" \in o.asked
    /\ r.timedOut => "timeout" \in o.asked

\* An analysis that is running ends, even a hung one: "the only thing that gets
\* the renderer out of an indefinite spinner" (pipelineHandlers.ts).
AnalysisEnds == session.status = "running" ~> session.status = "finished"

\* One the app itself killed is said to be cancelled or timed out, never to have
\* ended unexpectedly ("can tell those three apart", pipelineHandlers.ts).
KillsAreTold ==
  session.result # None /\ ~session.result.success =>
    LET r == session.result IN "SIGKILL" \in orch[r.gen].asked => r.cancelled \/ r.timedOut
================================================================================
