# Verification of Epoch

TLA+ models of the parts of this repository that decide whether evidence can be
trusted: how a backup is pulled from a phone and prepared, how it is registered,
how an analysis run is recorded, how facts and matches get into the database,
and what the app shows of it all. Each model is translated from the source; TLC
checks it on small instances and TLAPS proves the most important theorems for
every instance.

    tlc -config LedgerRace.cfg MCFactLedger.tla
    tlapm FactLedgerProofs.tla

`PROJECT.json` lists the runs, the source lines of every definition, the
hazards and which property watches over each, the findings, and for every
property a *slip*: a plausible bug, written beside the definition it replaces
and marked `\* slip`, under which TLC finds the property violated.

## The system

An examiner pulls a backup from a phone, *prepares* it (hash, decrypt, repair,
iLEAPP, crash logs), *analyzes* it (extractor stages write facts into
PostgreSQL) and reads records, investigations and reports.

| component | state it keeps | operations | meets the others by |
|---|---|---|---|
| device pull (`apps/epoch/.../device-backup`) | a backup folder, crash logs beside it, a pull record, the folders it remembers | pull, cancel, delete an unfinished backup, copy crash logs again | IPC with the panel; the folder the processor reads |
| device tools (`device-backup/ios/toolchain`) | a folder of libraries with its manifest, the record of an unfinished build | check, install system packages, build, resume | the panel, which is there once the tools are found |
| processor (`apps/processor`) | `manifests/`, evidence sidecar, `decrypted/`, `ileapp/`, `crash_reports/`, each with a completion marker | one pass per backup | markers and sidecar that registration trusts; lines and prompts the app reads |
| an iLEAPP run (`processor/utils/ileapp.ts`) | iLEAPP's process group, its phases, the limit of a phase, the log | start, follow, stop, settle | the markers of the processor |
| migration runner (`packages/etl-db-writer/migrate.py`) | `schema_migrations` | bootstrap, apply pending files | everything in the database needs its schema |
| orchestrator: registration | `evidence_items`, `evidence_derivatives`, locations, events, devices, the device secret | verify the workspace, one transaction of upserts | hands evidence and derivative ids to the run |
| orchestrator: runs | `pipeline_runs`, `pipeline_stage_status`, a run-summary file | resume check, create, take stages through, close | spawns one extractor process per stage |
| extractors (`apps/extractors`) | none | parse a derivative file by file; check facts against a set | `db_writer.ingest` |
| fact ledger (`packages/etl-db-writer`) | `ingested_files`, `forensic_records` | `ingest()`: one file, one transaction | views that readers use |
| indicator sets and matching | `indicator_sets`, match units in the ledger | register a set, check the current facts | reads the ledger's views |
| desktop app, main process (`apps/epoch/src/main`) | the running children, session snapshots, timers | prepare, analyze, retry, cancel, reconcile at start | spawns processor and orchestrator, writes to the run tables |
| desktop app, renderer (`apps/epoch/src/renderer`) | what the pages show | pull, prepare, retry, poll, page through records | IPC answers and pushed messages, in whatever order they come |

What is hard in it: several extractors on one database; processes killed by the
app, by a timeout or by the user at any point; an app that quits while its
children live on; statements that belong together outside a transaction; two
registrations, registrars or migration runners at once; directories of files
whose only sign of being whole is a marker; timers that outlive what they were
set for; and pages that come and go while answers to them are on their way.

What makes each part correct:

- *device pull*: evidence is never removed, nothing is removed without a trace,
  and what the panel shows of a pull is so;
- *device tools*: a folder that comes to read as installed is whole, and a build
  is resumed only where it can succeed;
- *processor*: a marker that registration accepts never vouches for less, or for
  other content, than it says; whatever was killed, a later pass puts it right;
- *an iLEAPP run*: only a run that stands still is stopped, nothing of it is left
  running, and its record is true;
- *migrations*: what is on record is in the database, in order;
- *registration*: one evidence item per content, whoever registers first, each
  told of once, and nothing handed to a run that is not there;
- *runs*: "complete" is earned, a skip is justified, every run is closed, once;
- *ledger*: each unit of evidence is read once, in full, by one run, for good;
- *indicators*: every object of a set is accounted for, a match is exact, and no
  "no match" is written without what wasn't checked;
- *app*: never two analyses at once, an end is told as it was, its cleanups touch
  only what is dead, and its pages come to show what is so.

## Modules

| module | models | built on |
|---|---|---|
| `FactLedger` | extractor processes and `ingest()` | |
| `OnceLedger` | what the ledger promises its readers | |
| `PipelineRuns` | orchestrator processes, their runs, and the app that spawns and cleans up | |
| `Processor` | passes of the processor over one backup | |
| `IleappRun` | one run of iLEAPP by the processor: its process group, phases, limit and log | |
| `Preparation` | Prepare Evidence: processor, pipes, session, notifications and page | |
| `DevicePull` | pulls, crash-log copies and deletions in the app's main process | |
| `PullPanel` | the panel that drives them, composed with the main process | `DevicePull` |
| `Toolchain` | the guided setup of the tools a pull needs | |
| `DeviceImport` | the view that shows the setup, then the panel | `PullPanel`, `Toolchain` |
| `Migrations` | the database's first boot and `migrate.py` | |
| `Registration` | orchestrators registering evidence in the schema that `Migrations` builds | `Migrations` |
| `IndicatorSets` | loading and registering indicator sets | |
| `IleappReport` | the `ileapp_bridge` stage reading a report | |
| `IndicatorChecks` | the `indicator_match` stage over both | `IndicatorSets`, `IleappReport` |
| `Analysis` | Analyze, Retry and cancel in the app's main process, their timers and session | |
| `Investigations` | the store, the queries and the poll of the Investigations view, over `Analysis` | `Analysis` |
| `RecordPages` | a walk through one evidence item's records, page by page | |
| `MC...` | small instances for TLC | the module of that name |
| `...Proofs` | theorems about a module | the module of that name; `ProcessorProofs` is about `IleappRun` too, `DeviceImportProofs` about `PullPanel` and `Toolchain`, `InvestigationsProofs` about `Analysis` and `RecordPages`, `IndicatorProofs` about `IndicatorSets`, `IleappReport` and `IndicatorChecks` |

### FactLedger

One actor is one extractor process, identified with its run (the orchestrator
runs a stage's process once per run, and one `source_type` is written by one
stage). `row`, `facts`, `count`, `origin` and `labels` are the committed tables;
an open transaction's work is in the process's own variables until `Commit`,
since no other session can see it under READ COMMITTED. `FastPath` is the
unlocked SELECT, `Upsert` the locking INSERT ... ON CONFLICT with the DELETE of
a stranded row's records, `Write` one record, `Commit` the completion UPDATE,
the label and the COMMIT. `LabelSeen` waits for the row's lock as the UPDATE
does. `ParseError`, `Fault` and `Kill` are the ways out by `rollback`;
`CommitUnacknowledged` is a COMMIT the server applied and the client never heard
of. `Init` lets any of the `Stranded` units hold a committed, incomplete row
with some of its records, which the code that preceded `ingest()` could leave
and migration 0002 keeps.

A unit's identity is evidence, hash and parser version. Two paths may hold the
same bytes (`HashOf`), two evidence items may share a file, and a content may be
readable by one parser version and not by another (`Readable`). `Current` is the
view `current_forensic_records`.

### OnceLedger

The abstract ledger has three variables and two actions: a run publishes an
unpublished unit with all its facts, or is put on the list of a published one.
`FactLedger` implements it (`ImplementsOnce`): what a reader sees of the tables
at every moment is a state of the abstract ledger, and every step is one of its
steps or invisible. `IleappReport` and `IndicatorChecks` rely on that: to them a
unit is filed in one step, or not at all.

### PipelineRuns

One actor is one orchestrator process on one backup; it creates at most one run,
so they share a name. A step is one SQL statement or one file written, since
neither the orchestrator (`db.ts`, `pipeline.ts`) nor the app
(`pipelineHandlers.ts`) uses a transaction there. `plan[p]` is what registration
found for each stage when `p` started: an input (derivative or indicator set,
with the parser version), an absence that is a fact (`NotAcquired`), an input
not yet made (`Missing`), or a disabled stage. `Covers` is the condition of
`findCompleteRunFor`'s inner query. `Raises` lets every statement fail, and goes
where the code goes: to the catch block from inside the `try`, out of the
process from anywhere else, the summary's export after the `try` included.

The app is `down`, in either statement of its start-up reconciliation, or `up`.
Its guard is `child = NoProc`; `ChildClosed` opens it and starts the cleanup,
whose two statements (`AbortStages`, `AbortRuns`) run later, in any order with
the rest. The cleanups of one workspace and of one backup are the same here, as
there is one backup. `Quit` ends the app at any point, and its pending cleanups
with it.

Two constants say who is there: `Others`, the processes started from the command
line, and `Orphans`, whether a child may outlive the app (nothing in the code stops
it). A cleanup may always come late, also after the next process has created its
run: the app does not wait for it.

### Processor

The backup's content is a number, its content root the same number; `dec`, `ile`
and `crash` say what is under each directory, and `decMark`, `ileMark` and
`crashMark` what its marker vouches for. `pc` goes through the pass in the order
of `runBackups`, one step per marker, directory or tool: `ClearStale`,
`WithdrawDec`, `WithdrawIle`, `RemoveDec`, the password loop, the decrypt in two
steps (so that it can be cut short, and the backup change under it), `Recheck`,
`Repair`, `MarkDec`, the iLEAPP steps, then `prepareCrashReports`. `Killed` ends
a pass anywhere, and leaves a directory that was being removed or filled
part-way; with `TornRemoval` the marker in it may outlive other files, as a
recursive removal promises no order. `ile`'s relation to the decrypt it was made
from is `ileOfDec`. `DecryptAccepted` is registration's condition on the marker
and the sidecar.

`MaxVersion` bounds how often the backup changes, `MaxFaults` how many faults,
wrong passwords, kills and changes of the acquired crash logs there are. A
backup that changed never returns to old content: the code compares content
roots and could not tell.

### IleappRun

`tool` is iLEAPP's process group: the process itself, which goes through setup,
its modules and the report, and the `helpers` it started: one that holds the pipes
open, one whose output goes elsewhere, which 'close' does not wait for. `pipe` is what it printed and the processor has not read; `Cut` is a
line cut short by its death, which `lineReader`'s `end` still delivers. `run` is
what the promise of `runIleapp` knows: the phase's time left, the reason of a
stop, whether the log still writes, whether it is `tracked` (so that a signal to
the processor is passed on). `Tick` is time, which does not pass while a printed
line is unread; `Restarts` says which lines give the phase a new limit. `Stop`
kills the group; `Close` is 'close', which comes once nobody holds the pipe;
`Settle` is what follows it. `Signalled` is a signal to the processor: it is passed
on to a group that is tracked (`told`) and the processor ends without waiting for
it, so that a process which handles the signal goes on. `silent` is history: how long the tool had printed
nothing that begins a phase.

### Preparation

The processor prints lines on two pipes and waits where it asks for a password;
the main process reads them in any order between the pipes, folds them into the
session (`ApplyLine`), forwards each line and, through a trailing notifier
(`soon`), its state. The page mounts and unmounts, asks once for a snapshot, and
merges it with what was pushed meanwhile; lines are batched and flushed
(`useRunState`, `useLineBatch`). `summary` is the file the processor leaves for
the app, which may be one of an earlier run.

The password loop is the code's: a wrong password and any other failure of the
decrypt prompt again until the attempts are used up, the other failure with an error
line and the backup counted as failed (`Blamed`), so that the same backup may be
decrypted after its error. A prompt that fails (`PromptRaises`) leaves the backup
uncounted; the next prompt of that pass waits for an input that has ended, and Node
then ends the processor with code 0 (`deaf`, `ends`). iLEAPP's output that is there
may be removed and made again (`ClearIleapp`), by force or because iLEAPP changed, and
that run may fail. Lines of progress inside a step are left out, and so is "try
again" after an attempt: no page depends on them.

### DevicePull and PullPanel

`DevicePull` has three jobs that await between their steps and share the folder
and the app's guards: `job` (`pullDeviceBackup` and `pullBackup`, one step per
await, from the folder's creation through the backup tool, its verification, the
crash logs and the record to the clean-up of a failed pull), `copy` (crash logs
again) and `del` (an unfinished backup deleted). `disk[k]` is one pull folder:
whether the device's folder in it is bare, unfinished or finished, the crash
logs and their record, and the lines of the pull record. `PullPanel` adds the
hook and the panel: what it shows, the calls of earlier clicks that have not
settled and who still owns the screen (`owner`), and everything the examiner
may click at that moment. Requests, events and answers travel in order. A copy of
crash logs that the pull record cannot account for is removed (`Discarded`), its
record first; the removal may fail at either, and a copy left whole because of that
is marked `kept`, which is history. What nothing reads is left out: the text of an
error, the path shown of a pull, and whether its record says failed or cancelled.

### Toolchain and DeviceImport

`Toolchain` is the setup's main-process side: `builder` is the one run
(`runGuided`), which installs the system packages or builds the pinned libraries
in order (`Check`, then `Compile`, `Install` and `RecordBuilt` for each, then
`VerifyRuns`, which writes the manifest). `made[c]` is what the library in the
folder was built of: the releases of those before it, and its own; `entries` are
the pkg-config entries, by which alone the code tells whether a library is there.
`Interrupted` is the app's end in the middle of any step, of the removal at the
start of a build too (`CutShort`); between runs the app is updated to other pins,
the folder is deleted, or the temporary files are cleaned.

`DeviceImport` adds the view (`checkTool` in its two reads, `runSetup`,
`ToolSetup`'s buttons), which may be left and opened at any time while a run goes
on, and `PullPanel` once the tools are found.

### Migrations and Registration

A file's schema has three states: not begun, begun, whole. The container's first
boot runs statements one by one (`BootStep`) and may be cut short for good
(`BootEnds`); `migrate.py` looks for the newest file that started (`Scan`, one
query each), judges whether it finished (`Judge`), lists and applies. `Drops`
says which later file removes the objects an earlier one is recognised by.

`Registration` is one orchestrator process: `Verify`, `Link` and `Read` (the
device secret), then one action per statement of `registerEvidence`'s
transaction. Its own rows are in `tx` until `Commit`; an insert of a key that
another open transaction holds waits for it (`Waits`). It starts only in a
database whose ledger names every file, as the orchestrator's check does.

### IndicatorSets, IleappReport and IndicatorChecks

A text is abstracted to its kind, its labels and its `form`, the ways its
spelling differs from the normal one; `Normalize` forgets the differences the
code forgets for that type and refuses what it refuses. `Fate` is the loader's
decision on an object, `FileReport` its account of a file, `CountUnsupported`
the sum over its reasons. A registrar goes through `FindSet`, `InsertContents`
(its files still to insert are `todo`, of which it takes the least hash, so that
two cannot wait for each other), `InsertSet`, `InsertFiles`, `InsertIndicators`, `Commit`, and looks
again where it lost (`Refind`).

`IleappReport` reads a manifest, then opens a database, which may be those of
two reports if the processor replaced the report in between; `TablesAgree` is
the check that notices. An artifact is planned (`Planned`, `Scanned`), its
values corrected by what its parser version knows of the tool's defects
(`Effective`), and filed as one unit.

`IndicatorChecks` chooses a set, reads the facts current then (`ReadFacts`), and
files the matches later as one unit named by the set and the facts (`Identity`).
`Reading` says how one source of a type reads one of a fact's fields, `MatchesOf`
what one indicator matches through one source.

### Analysis, Investigations and RecordPages

`orch[g]` is the g-th orchestrator the app started; `tracked` the one the guard
knows, `reason` why the app is killing it, `timeout` and `escalations` its
timers. A second `Kill` overwrites the handle of the first SIGKILL timer, which
is then `lost`: it still fires, at whichever orchestrator is tracked then.
`Close` is the close handler; what it starts (`Abort`, `Finish`) awaits the
database. `Investigations` is the store behind the views: queries under way
(`calls`), read in the database at one moment and answered at another, in any
order, and what an answer does (`Answered`). `RecordPages` is independent of
both and runs beside them: `GetForensicRecords` is one page.

## What is checked

| run | instance | shows |
|---|---|---|
| `ledger_race` | 2 processes, at parser versions 1 and 2; 2 evidence items that share a file, 3 files of which 2 are the same, one empty and unreadable at version 1; up to 2 records a file; a stranded row | `OneReading`, `NeverDoneUnread`, `ReparseNeverHides`, `SuccessMeansIngested`, `CompletedIsFinal`, `ImplementsOnce`, and `EveryRunEnds` under fairness |
| `runs_any_order` | the app's process and one from the command line, 2 stages, the second with its input, never acquired or disabled for each; children may be orphaned, cleanups slow | `SkipIsSound`, `CompleteIsEarned`, `OutcomeIsTrue` (the exit code and the summary agree with the run's row), `OwnVerdictIsFinal`, `CompleteStays` (a run that reads complete goes on reading so) |
| `runs_app_alone` | two processes of the app, one stage, its input there, not yet made or never acquired; a child ends with the app | `EveryRunCloses` under fairness |
| `processor_crashes` | 2 contents, 2 iLEAPP commits, 3 faults, torn removals | `MarkersAreTrue`, `SuccessMeansPrepared`, and `AlwaysRecovers` under fairness |
| `ileapp_run` | 3 modules, a limit of 2 ticks; a helper with the pipes and one without, a failing log, a signal to the processor | `EndIsTrue`, `MovingIsNeverStopped`, `NoneLeftBehind`, and `EveryRunSettles` under fairness |
| `preparation` | 2 backups, 2 lines kept, 2 password attempts, 2 preparations, 2 mounts, not all of them at their most in one behaviour (`MaxWork`) | `PageIsCurrent`, `PromptIsShown`, `ToldIsTrue` |
| `device_import` | 3 libraries and an update of one of them; 2 pull folders, one destination, 2 clicks under way; one fault or restart | `SetupIsSound` (a build goes on only where it can succeed), `InstalledIsWhole`, `PanelIsTrue`, `EvidenceIsKept`, and `CancelledPullEnds` under fairness |
| `evidence_db` | 4 migration files, of which later ones drop markers of earlier ones, 2 runners, the container's boot cut anywhere; 2 orchestrators, 5 backups of one phone, 3 registrations, one loss of the secret | `SchemaIsTrue`, `RegistrationIsSound`, `OneDevicePerPhone`, and `EveryRegistrationEnds` under fairness |
| `indicators` | 3 reports, the last by an iLEAPP that gets the times right, 4 artifacts and tables, 2 parser versions, one replacement; 3 STIX files in 3 sets, 2 registrars, 2 runs; symmetric registrars and runs; TLC evaluates `OnlyDefectiveToolsErr` for it | `ReportIsRead`, `RegistryIsSound`, `ChecksAreSound` |
| `investigations` | 2 orchestrators, cancelled and timed out, 2 runs of one backup source, 2 queries under way, one of them failing; beside them a walk through 4 records of 3 units | `OneOrchestrator`, `ToldAsItEnded`, `WalkIsWhole`, and `AnalysisEnds`, `EndsAreListed` under fairness |
| `processor_prompts_again` | as `processor_crashes` | a finding, below |
| `next_one_killed` | as `investigations`, with a second cancel | a finding, below |

Some properties are conjunctions, named in their module: `MarkersAreTrue` is
`Processor`'s types, `AcceptedIsWhole` and `IleappIsOfTheDecrypt`;
`RegistrationIsSound` is `Registration`'s types, `NothingBeforeSchema`,
`EachToldOnce` and `HandedOverIsThere`; and so on.

Why the bounds are enough. A race on a unit is between two transactions, and
what a third does is one of the two roles; duplicated content inside one
derivative is what makes one process meet its own unit. A skip needs one earlier
run and one process; an interference needs one process and one cleanup, and the
app's reconciliation is one more actor. Two stages give a first and a last, and
a partial list of rows. A stale derivative needs two contents; the longest
interesting sequence of faults is a kill after a kill, with one more. A second
pull is what a folder, an answer or a click of the first can be mistaken for,
and two clicks are an attempt and the one that supersedes it. Three libraries, the
second updated, leave a record that agrees with the new pins in its first entry
only, one library to replace and one built on it. Four migration
files give a marker dropped by a later file, a file of one step, and one after
them; three registrations give two that race and one that finds their rows. Two
registrars whose sets share two files are what could wait for each other in a
circle; a report replaced once is read half and half. Three modules give a
first, a last and one between; a limit of two ticks tells "no line since" from
"a line, then none". A walk of four records in three units has a page boundary
inside one millisecond, with an untimed record after it, and a unit that is
superseded while it lasts.

Fairness. A live process goes on (`WF` on its work): the database answers and the
app's timeout ends a hung stage. No fairness makes a fault happen or not happen.

- `PipelineRuns`: the app is closed and opened time after time (`WF` on `Launch`
  and `Quit`) and its reconciliation does not fail every time it is tried (`SF`
  on both statements; in the code a failure is logged and left to the next
  start).
- `Processor`: the examiner runs one pass after another; the faults are bounded,
  so from some moment on passes go well.
- `PullPanel`: the app's own steps go on, each of which ends or has a time limit;
  a backup tool that was cancelled ends, by SIGINT or by SIGKILL after the grace
  period. Nothing makes the device finish a backup, or the examiner click.
- `Registration`: a transaction takes its next statement once no other holds its
  key.
- `IleappRun`: time passes and the processor reads and fires its timer. iLEAPP
  itself may hang.
- `Analysis`: timers fire, a killed orchestrator is gone and its 'close' comes,
  the database answers. `Investigations`: queries are read and answered, the poll
  comes round, effects run. Nothing makes a run end or a query succeed.

### Findings

Two runs are expected to be violated: each states what a comment of the
repository says, and TLC's trace shows the code doing otherwise.

- `processor_prompts_again`: a decrypt that failed for another reason than the
  password prompts again, up to three times, and decrypts into a folder that may
  not be empty (`main.ts:221`; the comments are at `main.ts:37-39` and
  `:162-163`).
- `next_one_killed`: two kills of one orchestrator, a cancel and then the timeout
  or a second cancel, leave the first SIGKILL timer without a handle; it kills
  the orchestrator started within the next five seconds, which is told as
  "exited unexpectedly" (`pipelineHandlers.ts:295`; the comment is at
  `:101-104`).

### Disagreements

Met while modelling and either outside what a run states, or shown by the
models without a run of its own.

Runs and sessions:

- A run whose orchestrator outlived the app is closed by the next start of the
  app while it works, and its stages are written afterwards
  (`docs/evidence-model.md:167`, `pipelineHandlers.ts:39-51`). The same happens to one
  from the command line, and to one whose run is created before a slow cleanup of
  the orchestrator before it has reached the database (`:230`). So a finished run
  that reads incomplete may still change. Nothing promises the contrary;
  what stays is a verdict its own orchestrator gave (`OwnVerdictIsFinal`) and
  one that reads complete (`CompleteStays`).
- A failure inside `createRun`, then the app's cleanup, gives a run with a
  partial list of stage rows, which `run_completeness` may call complete
  (`0005_run_registration.sql:14`); `CompleteIsEarned` is about runs with all
  their rows. `SkipIsSound` holds all the same, since `findCompleteRunFor` asks
  for each stage's row.
- `registered_at` is the transaction's start, so the newest registration by that
  column need not be the last to commit.
- An analysis's cleanup awaits the database before it finishes the session
  (`pipelineHandlers.ts:442`, `:459`); if another analysis has started by then,
  the session says "finished", with the earlier orchestrator's result, while the
  later one runs (`pipelineSessions.ts:149`). `ToldAsItEnded` is about the result
  it names. A database that never answers there leaves the session running.
- While a retry runs, `getAnalysisRunStatus` calls the run it retries
  interrupted.
- `close` waits for every holder of the pipes: a descendant of a killed pnpm that
  keeps them open keeps the guard held. In `Analysis` a kill reaches the tree.
- `selectRun` and `loadRecords` (`App.tsx`) do not compare an answer with the
  selection of the moment: records or stages of the run selected before can fill
  the page of the one selected now. A new run is not listed until the list is
  loaded again. The polling properties are about the rows of the list.

Processor:

- A kill while a stale decrypt is being cleared leaves the old crash-log copy,
  which no later pass removes when the backup has no acquired crash logs now;
  registration refuses the backup and says to re-run the processor, which does
  not help (`registration.ts:379`).
- The same removal, cut short, may leave the crash-log marker before part of the
  copy (`crashReports.ts:58`); for registration to be misled the folder must be
  reused under the same content root. `MarkersAreTrue` leaves that marker out.
- A password prompt that fails leaves the backup undecrypted and the pass
  successful (`main.ts:225`); `SuccessMeansPrepared` excepts it.
- `prepareProgress` does not know the line of a backup given up after the last
  wrong password, and reads stderr's lines in whatever order they come relative
  to stdout's: the steps of a backup may be shown out of step, though never as
  done (`ToldIsTrue`).
- Prepare and Analyze are guarded apart: a derivative may be replaced while an
  analysis reads it.
- The start line of a module read after the limit has stopped the run leaves that
  module "unfinished", where `ileapp.ts:86` says the stopped one is marked; a
  completed line read then overwrites "stopped"; the timer may fire again after a
  stop or a log failure and overwrite `progress.stopped`; a cut phase line read
  at the close arms the timer again after it was cleared (`ileapp.ts:341`).
- SIGKILL of the processor leaves iLEAPP running: no handler can pass it on. A signal
  that is passed on need not end what gets it: a process of the group that
  handles it lives on and goes on writing after the processor has ended
  (`processGroup.ts:14-25`; the comment at `:2-7` says the forwarding is there
  so that nothing does). `NoneLeftBehind` says that it was passed on, not what became of it.
- A process iLEAPP started whose output goes elsewhere outlives 'close', from when it
  is not tracked: neither a stop nor the end of the run reaches it
  (`ileapp.ts:338-345`). One that left the group (`setsid`) is out of reach of any
  stop, and not modelled.
- A later prompt of a pass in which reading a password failed ends the processor
  with code 0 and no summary: the app calls the preparation a success
  (`prompt.ts:17-38`, `main.ts:442`; in `Preparation`, `ToldIsTrue` is about what a
  summary of this pass says).

Device pull, database, indicators:

- A setup page opened or checked while a build runs offers another, with a status
  from before it ended; started, it removes a finished installation first. Killed
  in that removal, the app may leave the manifest and not the libraries
  (`build.ts:106`; `manifest.ts:6-8` says a half-finished install never reads as
  installed), and the page then offers no repair. `InstalledIsWhole` is therefore
  about the step that installs, and about every step but that removal. A build so
  started may also run beside a pull; the model bounds that out.
- Between the two reads of `checkTool` a finished build leaves a page that offers
  nothing, until it is left.
- A `make` that outlives the app is not modelled: the tools end with it.
- A pull refused inside `pullBackup` leaves the empty dated folder it had
  registered, and one whose folder cannot be made ends without an event on the
  progress channel. If the app crashes, `idevicebackup2` may go on writing; the
  model takes it to end with the app.
- Where neither the pull record nor the removal of an unrecorded copy of crash logs
  succeeds (`iosBackupSource.ts:214-220`), copy and record stand, while the panel
  goes on showing the logs as not copied; another copy is refused.
  `LogsShownAreThere` excepts it (`kept`). A record of the logs whose own write fails
  half-way (`crashReports.ts:190`) is not modelled.
- An examiner's deletion of an unfinished backup is recorded after it
  (`iosBackupSource.ts:159-166`), so a crash in between leaves no trace of it.
  `NothingRemovedUntraced` is about the folders that a failed pull removes.
- The panel can be shown as pulling for a pull that another panel's click began,
  and a result card of a pull is cleared by a click that is then refused.
- `migrate.py` says "only partly applied" where a second runner, between the
  first one's queries, is applying the newest file; running it again helps.
- A unit's identity leaves out iLEAPP's version (`lava.py:389-408`): rows first
  filed from a version that no defect is registered of are not filed again, and
  so not corrected, where a defective version gives the same rows under the same
  parser version. `OnlyDefectiveToolsErr` is about the rows of the first.
- Plugin errors that a check reports are those of the reports its facts come
  from, which may be an older derivative than the run's.

## What is proved

From each module's named assumptions (`LedgerAssumption`, `RunsAssumption` and so
on), for any sets and bounds. The assumptions are about constants: parser
versions have a greatest value (the column is an INTEGER), the stages are finitely
many and every registration enables one of them (`main.ts:17` refuses a run with
none), a preparation's backups are different ones (they are named by their
folders), a table and a STIX file are finite, a correction multiplies
(`ScaleCorrection`), the crash stage's unit is none of iLEAPP's, only an e-mail
source is read as `email_only` (`indicator_field_map.json`), `None` is no value
of the code's. Two theorems about the setup and one about reports have a
hypothesis of their own, given with their argument below.

| module | theorem | statement |
|---|---|---|
| `FactLedgerProofs` | `InductiveInvariant` | `Spec => []IInv` |
| | `TypeCorrect` | `Spec => []TypeOK` |
| | `OneReadingHolds` | `Spec => []OneReading` |
| | `NeverDoneUnreadHolds` | `Spec => []NeverDoneUnread` |
| | `SuccessMeansIngestedHolds` | `Spec => []SuccessMeansIngested` |
| | `CompletedIsFinalHolds` | `Spec => CompletedIsFinal` |
| | `ReparseNeverHidesHolds` | `Spec => []ReparseNeverHides` |
| | `RefinesOnceLedger` | `Spec => ImplementsOnce` |
| `PipelineRunsProofs` | `TypeCorrect` | `Spec => []TypeOK` |
| | `SkipsAreSound` | `Spec => []SkipIsSound` |
| | `CompleteIsAlwaysEarned` | `Spec => []CompleteIsEarned` |
| | `OutcomesAreTrue` | `Spec => []OutcomeIsTrue` |
| | `VerdictsAreFinal` | `Spec => OwnVerdictIsFinal` |
| | `CompleteRunsStay` | `Spec => CompleteStays` |
| `ProcessorProofs` | `MarkersNeverLie` | `Spec => []MarkersAreTrue` |
| | `SuccessIsPrepared` | `Spec => []SuccessMeansPrepared` |
| | `NothingOutlivesTheRun` | `IleappSpec => []NoneLeftBehind` |
| | `SlowIsNotStopped` | `IleappSpec => []MovingIsNeverStopped` |
| | `TimingsAreTrue` | `IleappSpec => []EndIsTrue` |
| `PreparationProofs` | `PromptIsShownHolds` | `PrepSpec => []PromptIsShown` |
| | `ToldIsTrueHolds` | `PrepSpec => []ToldIsTrue` |
| | `PageIsCurrentHolds` | `PrepSpec => []PageIsCurrent` |
| `DeviceImportProofs` | `EvidenceStays` | `Spec => EvidenceIsKept` |
| | `EvidenceStaysInTheApp` | `ImportSpec => EvidenceIsKept` |
| | `PanelTellsTheTruth` | `Spec => []PanelIsTrue` |
| | `PanelTellsTheTruthInTheApp` | `ImportSpec => []PanelIsTrue` |
| | `ResumedBuildsSucceed` | `NoneComesBack`: `ImportSpec => []SetupIsSound` |
| | `InstalledMeansWhole` | `NoneComesBack`: `ImportSpec => InstalledIsWhole` |
| `IndicatorProofs` | `RowsAreKept` | `Spec => [](NothingLeftOut /\ ToolValuesKept)` |
| | `ReportIsReadHolds` | `OnlyDefectiveToolsErr`: `Spec => []ReportIsRead` |
| | `RegistryIsSoundHolds` | `Spec => []RegistryIsSound` |
| | `ChecksAreSoundHolds` | `Spec => []ChecksAreSound` |
| `InvestigationsProofs` | `OneAtATime` | `Spec => []OneOrchestrator` |
| | `EndsAreToldTruly` | `Spec => []ToldAsItEnded` |
| | `PagesAreWhole` | `PagesSpec => []WalkIsWhole` |
| `RegistrationProofs` | `SchemaIsWhatItSays` | `Spec => []SchemaIsTrue` |
| | `RegistrationsAreSound` | `Spec => []RegistrationIsSound` |
| | `OneDeviceHolds` | `Spec => []OneDevicePerPhone` |

*FactLedger.* `OneReading` is not inductive: that a commit publishes all of a
unit's facts and no others rests on what the transaction wrote, on who holds the
lock, and on what the process saw when it took it. `IInv` adds these. `Holding`:
a process past its upsert holds its unit's row, what it read there is still
true, and if the row was complete it has written nothing. `LockHeld`: a row is
locked by no one else. `Visited`: a file a process has left behind is counted as
failed, or complete and labelled with its run. `Read` and `Unfinished`: a
complete row holds one run's reading of a readable content, an incomplete one
names no run. Most steps change one process and at most one row; the lemma
`Frame` says once why all other processes keep their part of the invariant, and
each action has a lemma that names what it disturbs. The refinement maps
`Commit` of a fresh unit to `Publish`, any other labelling to `See`, and
everything else to a stutter. `ReparseNeverHides` follows from the types alone,
but needs that of the complete versions of a content one is the greatest: the
lemma `Greatest` gets it from well-founded descent below `MaxVersion`.

*PipelineRuns.* A verdict is a row; what earns it is spread over the process that
writes it and the rows before. `Underway` says of a process about to mark a stage
that the outcome it holds was earned by what it did or by its plan; `Row` says
the same of every row, whoever reads it later; and `Skips` keeps, for a process
that skips, the run whose rows it saw: one with the same plan that did each
enabled stage. What was done is never taken back, so no cleanup can undo it.
`OutcomeInv` adds what an exit code and a summary file rest on: `Progress`, which
rows an orchestrator has closed at each place, and which run it has; `Final`, a
finished run whose process is past its rows or has none left to write;
`Summarised`, that a summary is of a final run and says its state; and `Finds`,
that a run found complete is final. Cleanups close open runs and unresolved rows,
of which a final run has none that an owner still writes; so its verdict stays.
So does that of a run that reads complete, whoever closed it (`WholeIsFinal`): its
rows are all there with a verdict, so its process is past its loop, or in it with
nothing left to mark. Of other finished runs this is false (see Disagreements).

*Processor.* A marker is written long after the directory it speaks of was
filled, and both survive kills. `RootKnown` says which content the pass's root
is of at each place; `DecKnown` and `IleKnown` say of the decrypt and of the
iLEAPP output what is under them at each place, so that a marker is written only
over what it names and withdrawn before that is touched. The invariant holds
for torn removals, since the markers that count are withdrawn first. `PassKnown`
adds what this pass did: from a place on, sidecar, decrypt and iLEAPP output are
of the root it hashed, or the backup is recorded as failed.

*Preparation.* The invariant has two halves. `SessionInv` is about the processor and
the session. That a backup called done is prepared is said when a line is read,
long after it was written, and of the backup the progress then has at hand:
`LinesKnown` says of every unread line of stdout which backup it will be about
(`About`: that of the last start before it), and that whoever a line ending a
backup is about is prepared and not to be done again; stderr's lines can fail a
backup and never finish one. `Prompted` keeps a prompt that waits at the end of
stdout until it is heard, and `SummaryKnown` which preparation a summary is of.
`PageInv` is about the messages on their way. It has a ghost, the number `t[i]` of
the last line heard of once `i` of them are delivered: the lines on their way are
numbered by it (`LinesAre`), no state is older than those before it, none that
shows an end has lines after it, and the last is the session's own unless the
notifier is still to fire (`StatesAre`); the page's one snapshot has just the
lines sent before it (`SnapshotsAre`). `Shows` says what a page that has its
snapshot then shows: the last lines kept up to some line, and in its batch every
line from there to `t[0]`; or, of a preparation that is over, that the next one's
first state comes before its first line. `HeardEarly` says of a page that waits for
its snapshot that the lines it holds end with the last one heard, so that the
snapshot has them all: with messages in order, `useRunState`'s buffer of early
lines never adds one. A preparation starts only where a page shows the end of
the last (`StartsWhenOver`), which needs all of this, and on which the session's
half rests: neither half is inductive alone.

*IleappRun.* `Reached` relates the tool's process group and the promise: while the
run goes on, a tool that was started is tracked, so that a signal is passed on to it;
one that never started has no helper; after a stop the group is empty and stays
so; and once 'close' was seen iLEAPP has exited and no helper holds its pipes. The other two theorems
are about lines that were printed and not yet read. `Flows` places them: the lines
in the pipe are those between what the processor has heard and what the tool has
printed. `Timed` says that the timer never runs ahead of the silence it times,
`Records` what each module's timing may be before and after a stop, and `Ends`
what the outcome rests on; so a run that succeeds has heard every line.

*PullPanel.* `JobKnown` says that a pull whose tool has not begun has no device
folder to lose, and that a failed pull is cleared away only with its outcome on
record; `DeleteKnown` that what is about to be deleted is unfinished and no tool
writes to it. The setup and the view around the panel write to none of this.

`PanelIsTrue` is about what is shown; what makes it so is on its way in the two
queues, so each part says something of every request and message in them. `Tokens`
is the protocol: each call and each copy, and the one question a new panel
asks, is somewhere once, as a request, a job or an answer. `DiskKnown` and
`CopyKnown` say that a pull is recorded as completed only over a finished backup,
that crash logs with a record are whole, and that only a copy touches them
afterwards. `ToldTruly` says of each message on its way what `ShownTruly` says of the
panel: a backup that is told as done is on record, its logs are as told, a copy
whose removal failed apart, and no
copy of the logs of a pull is asked for while its end is on its way, which would make
that end stale. `PanelKnown` adds that a panel that does not know its devices yet
offers nothing and owns no call, which is why the answer about a running pull cannot
undo what was clicked since.

That the panel lets go (`PanelLetsGo`) is a promise about the future turned into an
invariant, `EndIsDue`: while a pull is shown, an end is *due*: a pull runs that
has not told its end, or one is asked for, or an end is on its way. Each message
that will make the panel show a pull must itself have an end after it. The
difficult messages are the answers about encryption, since the panel then shows the
pull that the main process is asked for next: on an encrypting device the
request is on its way behind it; on another, consent is asked for first, and the
invariant (`ConsentDue`, `AskedDue`) says that no pull runs or is asked for by then. A
pull whose folder could not be made has no end on the channel and is excepted.

*Toolchain.* A build trusts its record and the pkg-config entries; neither says
what a library was built with. `RecordKnown` is what makes the record good
enough: it disagrees with the pins from its first entry on, or the folder is
empty, or every library it names is there and, as far as the record agrees with
the pins, built of just those. `BuildKnown` says the same of what the build under
way has done, and that where the record goes on it disagrees; so a library that is
being replaced is never one the record vouches for. `ManifestKnown` says that
beside a valid manifest a record can only be of all of it, so a build never begins
to replace libraries in a folder that reads as installed. An update keeps all of
this provided that a record or a manifest that agrees with the new pins agreed
with those before: `NoneComesBack`, no release pinned again after another replaced
it. The pins of this repository only go forward. Where one does come back, TLC
finds a removal cut short under the version in between whose remains the older
one's pins then vouch for: the properties are false there.

*IndicatorSets.* `RegInv` says where each registrar stands: the contents it has
yet to insert come after those it locks in the order of their hashes, and from
`InsertSet` to `Commit` it holds its set's row and no set of that hash is
committed. So no two sets share a hash; and whoever holds the greatest content
that is awaited has only greater ones left to insert, which nobody awaits, so it
can go on, as can whoever holds an awaited set. That a file's report adds up is about
cardinalities: each indicator object has one fate, each unsupported one a reason
(`ReportAddsUp`, `SumOfCounts`).

*IleappReport.* `BridgeInv` says that each artifact of the manifest is still to be
read, failed, or filed at the stage's version, and of each unit (`UnitOK`) that
its facts are `Records` of its table under the defects registered of the tool
that made the report it names. `CorrectionsReplace` holds
under `OnlyDefectiveToolsErr`: the defects are registered of every tool version
that has them, as far as the tables read show. A unit's identity leaves the tool
version out, so without it rows first filed under a version not registered as
defective would stand uncorrected (see Disagreements). What was left out and what
was kept does not need it, and has a theorem of its own (`RowsAreKept`).

*IndicatorChecks.* What a run read is named by keys, and the facts are looked up
again when its check is filed and whenever it is shown. `ChecksInv` keeps, for each
check, that its matches and its summary are those of its set and its facts, and
each run that succeeded has one; this is inductive because a key's facts never
change (`FactsStay`): units are only added, one for each identity (`UnitsApart`),
as sets are, one for each hash (`SetStays`). `MatchesAreExact` is then about
names alone: a name has another as its ending if it is that name or is under it
(`EndingIsParent`), and the readings of a source keep the names of a domain or a
URL's host.

*Investigations.* `OneOrchestrator` needs that what is tracked is open
(`TrackedIsOpen`); `ToldAsItEnded` that a reason was set for the tracked
orchestrator (`ReasonIsOfTracked`), and that what a pending cleanup will tell is
already true (`EndsAreTrue`).

*RecordPages.* `WalkKnown` says that the cursor is the last row's, and that what was
there all along and is not yet taken comes after it. That the order of a page and
the one its cursor asks for are one order, which puts every row before or after
every other (`BeforeIs`, `OrderIs`), is where the microseconds, the untimed facts
and the ties matter. That a page can be sorted at all is a theorem too
(`SortsExist`): a row's place is the number of rows up to it, which is a different
one for each, so no induction is needed. Ids are finitely many.

*Registration.* The schema's part rests on `RunnersKnown`: a runner that applies
files has every file that is not on record before it, so the first of them has
only whole ones before it, and what it finds begun it refuses. Of an open
transaction `GoodTx` says that each row it wrote is locked, and that it tells of
just those whose keys nobody has committed; `FoundIn` that what it has seen to is
there for it, among what is committed and what it wrote. Two facts about tables
carry the argument: an upsert takes nothing away from the transaction that makes
it (`PutFinds`), and a commit takes nothing away from another that waited for
none of its keys (`CommitFinds`). At its commit, then, what is told and what is
there agree (`ToldIn`), and what it hands over is committed. `KeyInv` adds that,
while the secret is kept, every device and item, committed or not, is named by
it; so the item a transaction found or wrote names the very device it upserted.
The assumption behind that is that one content is one phone's
(`RegistrationAssumption`): the phone is read from `Info.plist`, which the
content root covers.

Only model-checked: liveness, which the prover does not treat. Every invariant and
every action property of a passing run has a theorem. The types of `FactLedger` and
`PipelineRuns` are proved and no longer part of a run.

What proving changed in the models: a `CASE` whose arms overlap says nothing of which one
is meant, so `HearPull` and `Trouble` now state the order in which the code asks;
`PanelLetsGo` now excepts the cancelling, too, of a pull without a folder, where it
was false with more clicks than the instance has, and no longer asks that no call is
under way; the bounds on clicks and folders (`Bound`) say which slot is taken.

## What is not modelled

- *What a parser extracts*, the report's wording, the SQL of read-only queries
  other than the ones named above: data the properties do not tell apart.
- *The Windows steps of the device tools, discovery, command lines, views of reports and
  indicators, scripts*: sequential, or pure input and output.
- *A stage's process outliving its orchestrator*, and *a derivative replaced while
  an analysis reads it*, end to end: `PipelineRuns` does not hold the stage's
  process, and `Processor`, `PipelineRuns` and `FactLedger` together are past
  what TLC explores. What the bridge makes of a report replaced under it is
  `ReportIsRead`; two extractors on one unit are `FactLedger`.
- *A process that cannot be spawned* is one that dies at once.

## Plan

1. A composition of abstractions of `Processor`, `PipelineRuns` and `FactLedger`:
   a stage that outlives its orchestrator, and a pass beside an analysis.
2. The report views and the reporting stage.
