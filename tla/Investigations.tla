---------------------------- MODULE Investigations ----------------------------
(***************************************************************************)
(* Investigations and Records in the app: the store that outlives the views,   *)
(* and the queries whose answers come in any order, some after another run was *)
(* selected; the poll of runs in progress; and a run retried from there, by an *)
(* orchestrator of Analysis.  What a run does: PipelineRuns.                   *)
(***************************************************************************)
EXTENDS Analysis

CONSTANTS
  Runs,      \* pipeline_runs, those still to be created included
  SourceOf,  \* SourceOf[r]: its backup_source
  Listed,    \* those that ended before, incomplete
  MaxCalls,  \* bound: queries under way
  MaxTurns,  \* bound: selections and sections opened, an orchestrator started counting twice
  MaxErrors  \* bound: queries that fail

ASSUME InvestigationsAssumption ==
  /\ SourceOf \in [Runs -> Sources] /\ Listed \subseteq Runs /\ None \notin Runs
  /\ {MaxCalls, MaxTurns, MaxErrors} \subseteq Nat

VARIABLES
  db,          \* db[r]: run_completeness, "absent" before the run is created
  store,       \* useEpochStore: the list, the selected row, whose stages and records
  section,     \* the section open, its view mounted
  wasRetrying, \* what the retry effect of Investigations saw last
  calls,       \* queries under way, with what they read
  turns, errors

storeVars == <<store, section, wasRetrying, calls, turns, errors>>
investigationVars == <<analysisVars, db, storeVars>>

Ended == {"incomplete", "complete"}
InvestigationsInit ==
  /\ AnalysisInit
  /\ db = [r \in Runs |-> IF r \in Listed THEN "incomplete" ELSE "absent"]
  /\ store = [runs |-> [r \in Runs |-> "absent"], selected |-> None, state |-> None, stages |-> None,
              records |-> None, loaded |-> FALSE]
  /\ section = "runs" /\ wasRetrying = FALSE
  /\ calls = {[kind |-> "load", run |-> None, read |-> None]} /\ turns = 0 /\ errors = 0

-------------------------------------------------------------------------------
(* The database.  An orchestrator creates a run and ends it, or the app does. *)

RunStarts(r) == db[r] = "absent" /\ tracked # 0 /\ orch[tracked].is = "alive" /\ db' = [db EXCEPT ![r] = "running"]
RunEnds(r) == db[r] = "running" /\ \E s \in Ended : db' = [db EXCEPT ![r] = s]
DbStep == (\E r \in Runs : RunStarts(r) \/ RunEnds(r)) /\ UNCHANGED <<analysisVars, storeVars>>

-------------------------------------------------------------------------------
(* Queries: getPipelineRuns by loadRuns, refreshRun or a poll; getStageStatus; *)
(* getForensicRecords.                                                         *)

Call(kind, r) == [kind |-> kind, run |-> r, read |-> None]
Lists(c) == c.kind \in {"load", "refresh", "poll"}
Asks(new) == calls' = calls \cup new /\ Cardinality(calls \cup new) <= MaxCalls
Read(c) ==
  /\ c.read = None /\ Lists(c)
  /\ calls' = (calls \ {c}) \cup {[c EXCEPT !.read = db]}
  /\ UNCHANGED <<store, section, wasRetrying, turns, errors>>

\* refreshRun: the row is refreshed if it is still the one selected.
Refreshes(r, list) ==
  IF store.selected = r /\ list[r] # "absent" THEN [store EXCEPT !.runs = list, !.state = list[r]]
  ELSE [store EXCEPT !.runs = list]
\* Stages and records are set whichever run is selected by then.
Answered(c) ==
  CASE c.kind = "load" -> [store EXCEPT !.runs = c.read]
    [] c.kind \in {"refresh", "poll"} -> Refreshes(c.run, c.read)
    [] c.kind = "stages" -> [store EXCEPT !.stages = c.run]
    [] c.kind = "records" -> [store EXCEPT !.records = c.run, !.loaded = TRUE]
Answer(c) ==
  /\ Lists(c) => c.read # None
  /\ store' = Answered(c)
  \* a poll goes on to the stages
  /\ calls' = (calls \ {c}) \cup (IF c.kind = "poll" THEN {Call("stages", c.run)} ELSE {})
  /\ UNCHANGED <<section, wasRetrying, turns, errors>>
\* It is logged; refreshRun raises nothing, so a poll asks for the stages all the same.
Fails(c) ==
  /\ errors < MaxErrors /\ errors' = errors + 1
  /\ calls' = (calls \ {c}) \cup (IF c.kind = "poll" THEN {Call("stages", c.run)} ELSE {})
  /\ UNCHANGED <<store, section, wasRetrying, turns>>

-------------------------------------------------------------------------------
(* What the examiner does. *)

Turn == turns + 2 * Latest < MaxTurns /\ turns' = turns + 1 /\ UNCHANGED errors
SelectRun(r) ==
  /\ section = "runs" /\ store.runs[r] # "absent" /\ Turn
  /\ store' = [store EXCEPT !.selected = r, !.state = store.runs[r], !.records = None, !.loaded = FALSE]
  /\ Asks({Call("stages", r)}) /\ UNCHANGED <<section, wasRetrying>>
\* Leaving Investigations unmounts it, with what its effects remember.
Open(next) ==
  /\ next # section /\ Turn /\ section' = next
  /\ IF next = "records" /\ store.selected # None /\ ~store.loaded
     THEN Asks({Call("records", store.selected)}) ELSE UNCHANGED calls
  /\ wasRetrying' = FALSE /\ UNCHANGED <<store>>
\* View Investigation, which New Investigation offers once an analysis succeeded.
ViewInvestigations ==
  /\ section = "workspace" /\ Turn /\ section' = "runs" /\ Asks({Call("load", None)})
  /\ session.target = Workspace /\ session.status = "finished" /\ session.result.success
  /\ UNCHANGED <<store, wasRetrying>>

-------------------------------------------------------------------------------
(* RunsView: its poll and its retry. *)

HasInProgressRun == \E r \in Runs : store.runs[r] = "running"
Poll ==
  /\ section = "runs" /\ store.selected # None /\ HasInProgressRun
  /\ Asks({Call("poll", store.selected)})
  /\ UNCHANGED <<store, section, wasRetrying, turns, errors>>

Retrying ==
  /\ session.target \in Sources /\ store.selected # None /\ session.target = SourceOf[store.selected]
  /\ session.status = "running"
\* Retry is offered for an incomplete run, unless it is being retried.
Retry ==
  /\ section = "runs" /\ store.selected # None /\ store.state = "incomplete" /\ ~Retrying
  /\ RetryRun(SourceOf[store.selected])
\* The effect of `retrying`.
ReadsNothing == {} \* slip: the end of a retry is not followed
ReadsAgain == IF store.selected # None THEN {Call("refresh", store.selected), Call("stages", store.selected)} ELSE {}
RetryEffect ==
  /\ section = "runs" /\ wasRetrying # Retrying /\ wasRetrying' = Retrying
  /\ Asks(IF wasRetrying THEN ReadsAgain ELSE {})
  /\ UNCHANGED <<store, section, turns, errors>>

-------------------------------------------------------------------------------
Goes(action) == action /\ UNCHANGED <<analysisVars, db>>
InvestigationsNext ==
  \/ Goes(\/ \E c \in calls : Read(c) \/ Answer(c) \/ Fails(c)
          \/ \E r \in Runs : SelectRun(r)
          \/ \E next \in {"runs", "records", "workspace"} : Open(next)
          \/ ViewInvestigations \/ Poll \/ RetryEffect)
  \/ DbStep
  \/ (Retry \/ AnalysisNext) /\ turns + 2 * Latest' <= MaxTurns /\ UNCHANGED <<db, storeVars>>

InvestigationsSpec == InvestigationsInit /\ [][InvestigationsNext]_investigationVars

\* Queries are answered, the poll goes on, and effects run.
InvestigationsFair ==
  /\ AnalysisFair
  /\ WF_investigationVars(Goes(\E c \in calls : Read(c)))
  /\ \A kind \in {"load", "refresh", "poll", "stages", "records"} :
       WF_investigationVars(Goes(\E c \in calls : c.kind = kind /\ Answer(c)))
  /\ WF_investigationVars(Goes(Poll)) /\ WF_investigationVars(Goes(RetryEffect))

-------------------------------------------------------------------------------
(* Properties. *)

\* A run listed as in progress that has ended is listed as ended while
\* Investigations stays open with a run selected: an answer that is overtaken by a
\* newer one, or fails, does not stop the poll.
EndIsShown ==
  \A r \in Runs \ Listed :
    section = "runs" /\ store.selected # None /\ store.runs[r] = "running" /\ db[r] \in Ended ~>
      store.runs[r] \in Ended \/ section # "runs"

\* The run a retry made is listed once the retry has ended, if Investigations stays
\* open and the list can be read ("when this run's retry ends, read the run and
\* its stages again", RunsView.tsx).
RetryIsListed ==
  \A r \in Runs \ Listed :
    section = "runs" /\ wasRetrying /\ session.status = "finished" /\ db[r] # "absent" ~>
      store.runs[r] # "absent" \/ section # "runs" \/ errors > 0

\* What ends while Investigations is open comes to be listed: by the poll, whose
\* answers may overtake each other or fail, or by the reading after a retry.
EndsAreListed == EndIsShown /\ RetryIsListed
================================================================================
