------------------------------- MODULE IleappRun -------------------------------
(***************************************************************************)
(* One run of iLEAPP by the processor: a process group of its own, its lines,  *)
(* which the processor reads to follow its phases (setup, each module, the     *)
(* report), the limit of one phase, which a new phase restarts, the log, which *)
(* may fail at any time, and the end of it all.  What iLEAPP does to its output *)
(* and its marker is Processor's RunIleapp and IleappFails.                    *)
(*                                                                         *)
(* A line is [is, module]; time goes in ticks, and the processor has read what *)
(* was printed before a tick passes.                                          *)
(***************************************************************************)
EXTENDS Integers, Sequences

CONSTANTS
  N,     \* iLEAPP's modules, 1 .. N
  Limit, \* moduleTimeoutMs, in ticks
  None

ASSUME IleappRunAssumption ==
  /\ {N, Limit} \subseteq Nat \ {0}
  \* None is no number, no reason for a stop and no record of one.
  /\ None \notin Nat /\ None \notin {"limit", "log"}
  /\ None \notin [phase : {"setup", "module", "report", "done"}, after : Nat, waited : BOOLEAN]

VARIABLES
  tool,     \* iLEAPP and what it started: one process group
  pipe,     \* lines printed and not read
  silent,   \* ticks since it printed a line that restarts the limit: now, and the longest
  progress, \* IleappProgress
  run,      \* runIleapp
  written   \* the module timings, once they are on disk

ileappVars == <<tool, pipe, silent, progress, run, written>>

-------------------------------------------------------------------------------
(* iLEAPP.  helpers: the processes it started that still run: those that hold   *)
(* its pipes, and those whose output goes elsewhere.  told: the group was sent   *)
(* the signal that ends the processor, which each of them may handle.           *)

Line(is, module) == [is |-> is, module |-> module]
\* Each step of iLEAPP: the line it prints, and where it is then.
Prints == [setup   |-> {[line |-> Line("started", 1), pc |-> "module", at |-> 1]},
           module  |-> {[line |-> Line("completed", tool.at), pc |-> "between", at |-> tool.at]},
           between |-> IF tool.at < N
                       THEN {[line |-> Line("started", tool.at + 1), pc |-> "module", at |-> tool.at + 1]}
                       ELSE {[line |-> Line("processes", None), pc |-> "report", at |-> N]},
           report  |-> {[line |-> Line("reported", None), pc |-> "exits", at |-> N]}]
Helpers == {"pipes", "own"}
Working == tool.pc \in DOMAIN Prints
ToolStep ==
  /\ Working
  /\ \E p \in Prints[tool.pc] : \E started \in SUBSET (IF p.pc = "between" THEN Helpers ELSE {}) :
       /\ pipe' = Append(pipe, p.line) /\ silent' = [silent EXCEPT !.now = 0]
       /\ tool' = [tool EXCEPT !.pc = p.pc, !.at = p.at, !.helpers = @ \cup started,
                               !.report = IF p.pc = "exits" THEN "whole" ELSE "partial"]
  /\ UNCHANGED <<progress, run, written>>
Exits ==
  /\ tool.pc = "exits" /\ tool' = [tool EXCEPT !.pc = "exited", !.code = 0]
  /\ UNCHANGED <<pipe, silent, progress, run, written>>
Dead == [tool EXCEPT !.pc = "exited", !.code = 1]
\* A process that dies may be in the middle of a line.
Cut == IF Working THEN {pipe} \cup {Append(pipe, p.line) : p \in Prints[tool.pc]} ELSE {pipe}
ToolDies ==
  /\ tool.pc \notin {"none", "exited"} /\ tool' = Dead /\ pipe' \in Cut
  /\ UNCHANGED <<silent, progress, run, written>>
HelperEnds ==
  /\ \E h \in tool.helpers : tool' = [tool EXCEPT !.helpers = @ \ {h}]
  /\ UNCHANGED <<pipe, silent, progress, run, written>>

-------------------------------------------------------------------------------
(* IleappProgress. *)

\* endPhase: a module still running gets this status.
EndPhase(p, status) ==
  LET last == Len(p.modules) IN
  IF p.phase = "module" /\ p.modules[last] = "running" THEN [p EXCEPT !.modules[last] = status] ELSE p
\* Whether a line starts a phase or a wait, which restarts the limit.
StartsPhaseOnly(p, l) == l.is \in {"started", "processes"} \* slip: the waits between are not timed anew
Restarts(p, l) ==
  \/ l.is \in {"started", "processes"}
  \/ l.is = "completed" /\ p.phase = "module" /\ l.module = Len(p.modules)
  \/ l.is = "reported" /\ p.phase = "report"
ReadLine(p, l) ==
  LET ended == EndPhase(p, "completed") IN
  CASE l.is = "started" -> [ended EXCEPT !.phase = "module", !.modules = Append(@, "running")]
    [] l.is = "completed" /\ Restarts(p, l) -> [p EXCEPT !.modules[l.module] = "completed"]
    [] l.is = "processes" -> [ended EXCEPT !.phase = "report"]
    [] l.is = "reported" /\ Restarts(p, l) -> [p EXCEPT !.phase = "done"]
    [] OTHER -> p
Stopped(p) ==
  [EndPhase(p, "stopped") EXCEPT
     !.stopped = [phase |-> p.phase, after |-> Len(p.modules),
                  waited |-> p.phase = "module" /\ p.modules[Len(p.modules)] = "completed"]]
ProgressSummary(p) == EndPhase(p, "unfinished")

-------------------------------------------------------------------------------
(* runIleapp.  left: the limit's timer, None where it is not set. *)

Over == {"ok", "failed", "ended"}
Armed(r, p, l) == IF Restarts(p, l) THEN [r EXCEPT !.left = Limit] ELSE r
Read ==
  /\ run.pc = "running" /\ pipe # <<>> /\ pipe' = Tail(pipe)
  /\ progress' = ReadLine(progress, Head(pipe)) /\ run' = Armed(run, progress, Head(pipe))
  /\ UNCHANGED <<tool, silent, written>>
\* Once only: SIGKILL for the group, with everything iLEAPP started.
LeaderAlone == Dead \* slip: only iLEAPP itself is killed
GroupKilled == [Dead EXCEPT !.helpers = {}]
Stop(r, reason) ==
  IF r.reason # None THEN run' = r /\ UNCHANGED <<tool, pipe>>
  ELSE /\ run' = [r EXCEPT !.reason = reason]
       /\ IF tool.pc = "none" THEN UNCHANGED <<tool, pipe>>
          ELSE tool' = (IF tool.pc = "exited" THEN [GroupKilled EXCEPT !.code = tool.code] ELSE GroupKilled) /\ pipe' \in Cut
Waited(n) == IF n > Limit THEN silent ELSE [now |-> n, longest |-> IF n > silent.longest THEN n ELSE silent.longest]
Tick ==
  /\ run.pc \notin Over /\ run.left # None /\ run.left > 0 /\ pipe = <<>>
  /\ run' = [run EXCEPT !.left = @ - 1] /\ silent' = Waited(silent.now + 1)
  /\ UNCHANGED <<tool, pipe, progress, written>>
TimerFires ==
  /\ run.left = 0 /\ run.pc \notin Over /\ progress' = Stopped(progress)
  /\ Stop([run EXCEPT !.left = None], "limit")
  /\ UNCHANGED <<silent, written>>
\* It fails to open, or the disk fills up; or it is found out by the last flush.
LogFails ==
  /\ run.pc \in {"running", "closing"} /\ run.log = "open"
  /\ Stop([run EXCEPT !.log = "failed"], "log") /\ UNCHANGED <<silent, progress, written>>
SpawnFails ==
  /\ run.pc = "running" /\ tool.pc = "none"
  /\ run' = [run EXCEPT !.pc = "closing", !.left = None, !.tracked = FALSE]
  /\ UNCHANGED <<tool, pipe, silent, progress, written>>
\* "close": iLEAPP and every process with its pipes are gone (one whose output
\* goes elsewhere may live on, untracked), and every whole line was read;
\* what is left of a cut one is read now, after the timer was cleared.
Close ==
  /\ run.pc = "running" /\ tool.pc = "exited" /\ "pipes" \notin tool.helpers
  /\ LET r == [run EXCEPT !.pc = "closing", !.left = None, !.tracked = FALSE,
                          !.good = tool.code = 0 /\ run.reason = None] IN
     \/ pipe = <<>> /\ run' = r /\ UNCHANGED <<pipe, progress>>
     \/ /\ Len(pipe) = 1 /\ tool.code # 0 /\ pipe' = <<>>
        /\ run' = Armed(r, progress, pipe[1]) /\ progress' = ReadLine(progress, pipe[1])
  /\ UNCHANGED <<tool, silent, written>>
\* The log is flushed, the timings written, and the run's outcome is known.
SucceedsAtClose(r) == r.good \* slip: what the flush found is not asked for
Succeeds(r) == r.good /\ r.reason = None /\ tool.report # "absent"
Settle ==
  /\ run.pc = "closing" /\ written' = ProgressSummary(progress)
  /\ run' = [run EXCEPT !.pc = IF Succeeds(run) THEN "ok" ELSE "failed"]
  /\ UNCHANGED <<tool, pipe, silent, progress>>
\* SIGINT, SIGTERM or SIGHUP, sent to the processor: forwarded to the group if it
\* is tracked, then the processor ends as the signal would end it, and waits for
\* nothing.  A process that handles the signal goes on, and prints to nobody.
ForwardsNone == FALSE \* slip: its own handler only
Forwards == run.tracked
Signalled ==
  /\ run.pc \in {"running", "closing"} /\ run' = [run EXCEPT !.pc = "ended", !.left = None]
  /\ tool' = [tool EXCEPT !.told = Forwards]
  /\ UNCHANGED <<pipe, silent, progress, written>>

-------------------------------------------------------------------------------
IleappInit ==
  /\ tool \in {[pc |-> pc, at |-> 0, helpers |-> {}, told |-> FALSE, report |-> "absent", code |-> None] : pc \in {"none", "setup"}}
  /\ pipe = <<>> /\ silent = [now |-> 0, longest |-> 0] /\ written = None
  /\ progress = [phase |-> "setup", modules |-> <<>>, stopped |-> None]
  /\ run = [pc |-> "running", left |-> Limit, reason |-> None, log |-> "open", good |-> FALSE,
            tracked |-> tool.pc # "none"]
Processor == Read \/ TimerFires \/ SpawnFails \/ Close \/ Settle
IleappNext ==
  \/ ToolStep \/ Exits \/ ToolDies \/ HelperEnds
  \/ Processor \/ Tick \/ LogFails \/ Signalled
IleappSpec == IleappInit /\ [][IleappNext]_ileappVars
\* The processor and the clock go on, whatever iLEAPP does.
IleappFairSpec == IleappSpec /\ WF_ileappVars(Processor) /\ WF_ileappVars(Tick)

-------------------------------------------------------------------------------
(* Properties. *)

IleappTypeOK ==
  /\ tool.pc \in {"none", "setup", "module", "between", "report", "exits", "exited"} /\ tool.at \in 0 .. N
  /\ tool.helpers \subseteq Helpers /\ tool.told \in BOOLEAN /\ tool.report \in {"absent", "partial", "whole"} /\ tool.code \in {None, 0, 1}
  /\ Len(pipe) <= 2 * N + 2 /\ silent \in [now : 0 .. Limit, longest : 0 .. Limit]
  /\ progress.phase \in {"setup", "module", "report", "done"} /\ Len(progress.modules) <= N
  /\ run.pc \in Over \cup {"running", "closing"} /\ run.left \in 0 .. Limit \cup {None}
  /\ run.reason \in {None, "limit", "log"} /\ run.log \in {"open", "failed"}

\* A run that succeeds has its whole report, its whole log and every module's
\* timing, also if the log fails after iLEAPP has exited; one that the limit
\* stopped says so in its timings, and no module's stays "running".
EndIsTrue ==
  /\ IleappTypeOK
  /\ run.pc = "ok" =>
       /\ tool.report = "whole" /\ run.log = "open" /\ written.stopped = None
       /\ written.modules = [i \in 1 .. N |-> "completed"]
  /\ run.pc \in {"ok", "failed"} =>
       /\ run.reason = "limit" => written.stopped # None
       /\ \A i \in DOMAIN written.modules : written.modules[i] # "running"

\* "A slow run that keeps moving is never stopped": the limit stops only a run
\* that has begun no phase for that long.
MovingIsNeverStopped == run.reason = "limit" => silent.longest = Limit

\* A run that was stopped, by its limit or by its log, leaves no process behind,
\* also if the log fails only when iLEAPP has exited; one that came to its end
\* has seen iLEAPP exit and its pipes closed; and a processor that was sent a stop
\* has passed it on, unless that end was seen ("would keep writing its output
\* after the processor ended").
NoneLeftBehind ==
  run.pc \in Over =>
    /\ run.reason # None => tool.pc \in {"none", "exited"} /\ tool.helpers = {}
    /\ run.pc # "ended" \/ ~tool.told => tool.pc \in {"none", "exited"} /\ "pipes" \notin tool.helpers

\* The run ends, wherever iLEAPP or a process it started gets stuck.
EveryRunSettles == <>(run.pc \in Over)
================================================================================
