----------------------------- MODULE Preparation -----------------------------
(***************************************************************************)
(* Prepare Evidence in the app: the processor, a child process whose lines and *)
(* password prompts the main process reads from two pipes; the session the     *)
(* main process keeps of it; and the page, which comes and goes, and follows   *)
(* the session by one read and the changes sent after it.  What the app and    *)
(* its page exchange arrives in the order it was sent.                         *)
(*                                                                         *)
(* A line is what it says (start, done, skipped, error, prompt or other), of    *)
(* which step, and the backup a start or a prompt names.                       *)
(***************************************************************************)
EXTENDS Integers, Sequences, FiniteSets

CONSTANTS
  Labels,          \* backups, in the processor's order
  Kept,            \* KEPT_LOG_LINES, MAX_LINES
  MaxAttempts,     \* MAX_PASSWORD_ATTEMPTS
  MaxPreparations, \* bound: preparations started
  MaxMounts,       \* bound: times the page mounts
  MaxWork,         \* bound: mounts, and twice the preparations and their backups
  MaxUnread,       \* bound: lines waiting in the pipes
  MaxSent,         \* bound: messages on their way to the page
  None

Elems(s) == {s[i] : i \in DOMAIN s}

ASSUME PreparationAssumption ==
  /\ Labels \in Seq(Elems(Labels)) /\ Labels # <<>>
  /\ \A i, j \in DOMAIN Labels : Labels[i] = Labels[j] => i = j
  /\ {Kept, MaxAttempts, MaxPreparations, MaxMounts, MaxWork, MaxUnread, MaxSent} \subseteq Nat \ {0}

VARIABLES
  processor, \* the child process
  pipes,     \* its stdout and stderr, unread
  onDisk,    \* backup -> absent, partial or prepared, as its markers say
  summary,   \* summary.json: whose it is, and who failed
  child,     \* runningProcessor, and whether a password can be passed on
  prep,      \* prepareSession
  sent,      \* messages on their way to the page
  page       \* New Investigation

prepVars == <<processor, pipes, onDisk, summary, child, prep, sent, page>>

LastOf(s, n) == SubSeq(s, IF Len(s) > n THEN Len(s) - n + 1 ELSE 1, Len(s))
Steps == <<"hash", "decrypt", "repair", "ileapp">>
Line(is, step, label) == [is |-> is, step |-> step, label |-> label]

-------------------------------------------------------------------------------
(* The processor, as its lines show it (its files: Processor). *)

NoProcessor == [gen |-> 0, pc |-> "exited", todo |-> <<>>, ran |-> FALSE,
                attempt |-> 0, deaf |-> FALSE, failed |-> {}, code |-> 0, done |-> FALSE]
Writes(pipe, line) == pipes' = [pipes EXCEPT ![pipe] = Append(@, line)]
Becomes(p) == processor' = p
Name == Head(processor.todo)
\* The next backup, or the end.
Onward(p) ==
  LET left == Tail(p.todo) IN
  [p EXCEPT !.todo = left, !.pc = IF left = <<>> THEN "summary" ELSE "start", !.ran = FALSE, !.attempt = 0]
Blamed(p) == [p EXCEPT !.failed = @ \cup {Name}]
GivenUp(p) == Onward(Blamed(p))
SummaryStays == UNCHANGED summary
FilesStay == UNCHANGED onDisk /\ SummaryStays

BackupStarts ==
  /\ processor.pc = "start" /\ Writes("out", Line("start", None, Name))
  /\ Becomes([processor EXCEPT !.pc = "hash"]) /\ FilesStay
Hash ==
  /\ processor.pc = "hash" /\ FilesStay
  /\ \/ Writes("out", Line("done", "hash", None)) /\ Becomes([processor EXCEPT !.pc = "decrypt"])
     \/ Writes("err", Line("error", "hash", None)) /\ Becomes(GivenUp(processor))
\* A decrypt that is there is kept, unless it is forced or the backup changed:
\* either may be so.
SkipDecrypt ==
  /\ processor.pc = "decrypt" /\ onDisk[Name] # "absent" /\ FilesStay
  /\ Writes("out", Line("skipped", "decrypt", None)) /\ Becomes([processor EXCEPT !.pc = "repair"])
\* A processor whose stdin has failed has nothing left to wait for: Node ends it.
Prompt ==
  /\ processor.pc = "decrypt"
  /\ onDisk' = [onDisk EXCEPT ![Name] = "absent"] /\ SummaryStays
  /\ Writes("out", Line("prompt", None, Name))
  /\ Becomes([processor EXCEPT !.pc = IF processor.deaf THEN "ends" ELSE "waits", !.attempt = @ + 1])
\* Reading the password fails: the backup is left, and not counted as failed.
PromptRaises ==
  /\ processor.pc = "waits" /\ FilesStay
  /\ Writes("err", Line("error", "decrypt", None)) /\ Becomes([Onward(processor) EXCEPT !.deaf = TRUE])
Decrypt ==
  /\ processor.pc = "decrypting" /\ FilesStay
  /\ \/ Writes("out", Line("done", "decrypt", None))
        /\ Becomes([processor EXCEPT !.pc = "repair", !.ran = TRUE])
     \/ /\ processor.attempt < MaxAttempts \* a wrong password
        /\ Writes("err", Line("other", "decrypt", None)) /\ Becomes([processor EXCEPT !.pc = "decrypt"])
     \/ /\ processor.attempt < MaxAttempts \* any other failure of the tool
        /\ Writes("err", Line("error", "decrypt", None)) /\ Becomes([Blamed(processor) EXCEPT !.pc = "decrypt"])
     \* The last attempt failed, or the backup changed while it was decrypted.
     \/ /\ \/ processor.attempt = MaxAttempts /\ Writes("err", Line("other", "decrypt", None))
           \/ Writes("err", Line("error", "decrypt", None))
        /\ Becomes(GivenUp(processor))
Repair ==
  /\ processor.pc = "repair" /\ SummaryStays
  /\ \/ /\ Writes("out", Line(IF processor.ran THEN "done" ELSE "skipped", "repair", None))
        /\ Becomes([processor EXCEPT !.pc = "ileapp"])
        /\ onDisk' = IF processor.ran THEN [onDisk EXCEPT ![Name] = "partial"] ELSE onDisk
     \/ /\ processor.ran /\ Writes("err", Line("error", "repair", None)) /\ Becomes(GivenUp(processor))
        /\ UNCHANGED onDisk
\* The crash logs come after it: if copying them fails, or repair left databases
\* unrecovered, the backup counts as failed, in lines that end no step.
AfterIleapp == Becomes(Onward(processor)) \/ Becomes(GivenUp(processor))
\* Output that is there is kept, unless it was made by another iLEAPP or must be
\* made again: either may be so, and it is removed first, with its marker.
SkipIleapp ==
  /\ processor.pc = "ileapp" /\ onDisk[Name] = "prepared"
  /\ Writes("out", Line("skipped", "ileapp", None)) /\ AfterIleapp /\ FilesStay
ClearIleapp ==
  /\ processor.pc = "ileapp" /\ onDisk[Name] = "prepared"
  /\ onDisk' = [onDisk EXCEPT ![Name] = "partial"] /\ SummaryStays /\ UNCHANGED <<processor, pipes>>
Ileapp ==
  /\ processor.pc = "ileapp" /\ onDisk[Name] # "prepared" /\ SummaryStays
  /\ \/ /\ Writes("out", Line("done", "ileapp", None)) /\ AfterIleapp
        /\ onDisk' = [onDisk EXCEPT ![Name] = "prepared"]
     \/ /\ Writes("err", Line("error", "ileapp", None)) /\ Becomes(GivenUp(processor)) /\ UNCHANGED onDisk
WriteSummary ==
  /\ processor.pc = "summary"
  /\ summary' = [gen |-> processor.gen, failed |-> processor.failed]
  /\ Becomes([processor EXCEPT !.pc = "exited", !.done = TRUE, !.code = IF processor.failed = {} THEN 0 ELSE 1])
  /\ UNCHANGED <<pipes, onDisk>>
\* One that cannot be spawned dies at once.
ProcessorDies ==
  /\ processor.pc # "exited"
  /\ Becomes([processor EXCEPT !.pc = "exited", !.code = IF processor.pc = "ends" THEN 0 ELSE 1])
  /\ UNCHANGED <<pipes, onDisk, summary>>
ProcessorStep ==
  /\ Len(pipes.out) + Len(pipes.err) < MaxUnread
  /\ \/ BackupStarts \/ Hash \/ SkipDecrypt \/ Prompt \/ PromptRaises \/ Decrypt \/ Repair
     \/ SkipIleapp \/ ClearIleapp \/ Ileapp \/ WriteSummary \/ ProcessorDies
  /\ UNCHANGED <<child, prep, sent, page>>

-------------------------------------------------------------------------------
(* Progress: applyPrepareLogLine. *)

Queued == [overall |-> "queued", steps |-> [s \in Elems(Steps) |-> "pending"]]
InitProgress(labels) == [current |-> None, by |-> [l \in labels |-> Queued]]
After(step) == {Steps[i + 1] : i \in {i \in 1 .. 3 : Steps[i] = step}}
Overall(step, overall) == IF step = "ileapp" /\ overall # "failed" THEN "done" ELSE overall
ApplyLine(progress, line) ==
  LET at == progress.current b == progress.by[at] IN
  CASE line.is = "start" /\ line.label \in DOMAIN progress.by ->
         [current |-> line.label,
          by |-> [progress.by EXCEPT ![line.label] =
                    [overall |-> "running", steps |-> [@.steps EXCEPT !["hash"] = "running"]]]]
    [] line.is = "error" /\ at # None ->
         [progress EXCEPT !.by[at] = [overall |-> "failed", steps |-> [b.steps EXCEPT ![line.step] = "error"]]]
    [] line.is \in {"done", "skipped"} /\ at # None ->
         [progress EXCEPT !.by[at] =
            [overall |-> Overall(line.step, b.overall),
             steps |-> [s \in DOMAIN b.steps |-> IF s = line.step THEN line.is
                                                ELSE IF s \in After(line.step) THEN "running" ELSE b.steps[s]]]]
    [] OTHER -> progress

-------------------------------------------------------------------------------
(* The main process: the session and its notifications. *)

Idle == [gen |-> 0, status |-> "idle", progress |-> InitProgress({}), passwordFor |-> None, result |-> None,
         from |-> 1, to |-> 0, soon |-> FALSE]
State(p) == [gen |-> p.gen, status |-> p.status, progress |-> p.progress, passwordFor |-> p.passwordFor,
             result |-> p.result]
Log(p) == LastOf([i \in 1 .. p.to - p.from + 1 |-> p.from + i - 1], Kept)
StateMessage(p) == [is |-> "state", state |-> State(p)]
\* now() sends the state, soon() lets a timer send it.
Now(p) == prep' = [p EXCEPT !.soon = FALSE] /\ sent' = Append(sent, StateMessage(p))
NotifierFires == prep.soon /\ Now(prep) /\ UNCHANGED <<processor, pipes, onDisk, summary, child, page>>

WithLine(line) == [prep EXCEPT !.to = @ + 1, !.progress = ApplyLine(@, line)]
LineMessage(p) == [is |-> "line", seq |-> p.to]
ReadLine(pipe) ==
  /\ pipes[pipe] # <<>> /\ pipes' = [pipes EXCEPT ![pipe] = Tail(@)]
  /\ LET line == Head(pipes[pipe]) p == WithLine(line) asked == [p EXCEPT !.passwordFor = line.label] IN
     \/ line.is # "prompt" /\ prep' = [p EXCEPT !.soon = TRUE] /\ sent' = Append(sent, LineMessage(p)) /\ UNCHANGED child
     \/ /\ line.is = "prompt" /\ child' = [child EXCEPT !.answer = TRUE]
        /\ prep' = [asked EXCEPT !.soon = FALSE]
        /\ sent' = sent \o <<LineMessage(p), StateMessage(asked)>>
  /\ UNCHANGED <<processor, onDisk, summary, page>>

\* Every stream has ended; then the summary is read, and the session finished.
Close ==
  /\ processor.pc = "exited" /\ pipes = [out |-> <<>>, err |-> <<>>] /\ child.running
  /\ child' = [running |-> FALSE, answer |-> FALSE, ends |-> TRUE]
  /\ UNCHANGED <<processor, pipes, onDisk, summary, prep, sent, page>>
AnySummary == summary.failed \* slip: one that an earlier run left is read too
SummaryOfThisRun == IF summary.gen = prep.gen THEN summary.failed ELSE None
StillAsking(p) == p \* slip: the prompt is left as it is
NobodyAsks(p) == [p EXCEPT !.passwordFor = None]
Finish ==
  /\ child.ends /\ child' = [child EXCEPT !.ends = FALSE]
  /\ Now(NobodyAsks([prep EXCEPT !.status = "finished",
                                 !.result = [success |-> processor.code = 0, failed |-> SummaryOfThisRun]]))
  /\ UNCHANGED <<processor, pipes, onDisk, summary, page>>

-------------------------------------------------------------------------------
(* The page: useRunState, and what it asks the main process for. *)

Away == [mount |-> 0, on |-> FALSE, asks |-> FALSE, loaded |-> FALSE, starting |-> 0, gen |-> 0, last |-> 0,
         early |-> <<>>, batch |-> <<>>, log |-> <<>>, state |-> None]
Page(p) == page' = p /\ UNCHANGED <<processor, pipes, onDisk, summary, child, prep>>

Mount ==
  /\ ~page.on /\ page.mount < MaxMounts /\ UNCHANGED sent
  /\ page.mount + 2 * (prep.gen + Cardinality(DOMAIN prep.progress.by)) < MaxWork
  /\ Page([Away EXCEPT !.mount = page.mount + 1, !.on = TRUE, !.asks = TRUE])
Unmount == page.on /\ UNCHANGED sent /\ Page([Away EXCEPT !.mount = page.mount])
AnswerRead ==
  /\ page.asks /\ Page([page EXCEPT !.asks = FALSE])
  /\ sent' = Append(sent, [is |-> "snapshot", for |-> page.mount, state |-> State(prep), log |-> Log(prep)])

OnLine(seq) ==
  IF ~page.loaded THEN [page EXCEPT !.early = Append(@, seq)]
  ELSE IF seq <= page.last THEN page
  ELSE [page EXCEPT !.last = seq, !.batch = Append(@, seq)]
BatchLeft(p) == [p EXCEPT !.log = <<>>] \* slip: lines of the last run may still come
Cleared(p) == [p EXCEPT !.batch = <<>>, !.log = <<>>]
OnState(state) ==
  LET p == [page EXCEPT !.state = state] IN
  IF page.loaded /\ state.gen # page.gen THEN Cleared([p EXCEPT !.gen = state.gen]) ELSE p
\* Early lines come in order: those the snapshot does not have are the last ones.
Later(early, last) ==
  SubSeq(early, Cardinality({i \in DOMAIN early : early[i] <= last}) + 1, Len(early))
OnSnapshot(m) ==
  LET last == IF m.log = <<>> THEN 0 ELSE m.log[Len(m.log)]
      later == Later(page.early, last) IN
  [page EXCEPT !.loaded = TRUE, !.gen = m.state.gen, !.early = <<>>, !.state = m.state,
               !.last = IF later = <<>> THEN last ELSE later[Len(later)],
               !.log = LastOf(m.log \o later, Kept)]
Deliver ==
  LET m == Head(sent) IN
  /\ sent # <<>> /\ sent' = Tail(sent)
  /\ Page(IF ~page.on THEN page
          ELSE CASE m.is = "line" -> OnLine(m.seq)
                 [] m.is = "state" -> OnState(m.state)
                 [] m.is = "snapshot" -> IF m.for = page.mount THEN OnSnapshot(m) ELSE page)
Flush ==
  /\ page.batch # <<>> /\ UNCHANGED sent
  /\ Page([page EXCEPT !.batch = <<>>, !.log = LastOf(@ \o page.batch, Kept)])

\* handleStartPipeline: a page offers it unless it shows a run or is starting one;
\* what it started shows before its call returns.  The selection is kept in the
\* backups' order.  Bound: the first n.
StartPipeline(n) ==
  LET todo == SubSeq(Labels, 1, n) labels == Elems(todo) IN
  /\ page.loaded /\ page.state.status # "running" /\ page.state.gen >= page.starting /\ ~child.running
  /\ prep.gen < MaxPreparations
  /\ page.mount + 2 * (prep.gen + Cardinality(labels \cup DOMAIN prep.progress.by)) < MaxWork - 1
  /\ processor' = [NoProcessor EXCEPT !.gen = prep.gen + 1, !.pc = "start",
                                      !.todo = todo]
  /\ child' = [running |-> TRUE, answer |-> FALSE, ends |-> child.ends]
  /\ Now([Idle EXCEPT !.gen = prep.gen + 1, !.status = "running", !.progress = InitProgress(labels),
                      !.from = prep.to + 1, !.to = prep.to])
  /\ page' = [page EXCEPT !.starting = prep.gen + 1]
  /\ UNCHANGED <<pipes, onDisk, summary>>
SubmitPassword ==
  /\ page.on /\ page.state # None /\ page.state.passwordFor # None
  /\ child.running /\ child.answer /\ child' = [child EXCEPT !.answer = FALSE]
  /\ Becomes(IF processor.pc = "waits" THEN [processor EXCEPT !.pc = "decrypting"] ELSE processor)
  /\ Now([prep EXCEPT !.passwordFor = None])
  /\ UNCHANGED <<pipes, onDisk, summary, page>>

-------------------------------------------------------------------------------
PrepInit ==
  /\ processor = NoProcessor /\ pipes = [out |-> <<>>, err |-> <<>>]
  /\ \E ready \in {{}, {Labels[1]}} : onDisk = [l \in Elems(Labels) |-> IF l \in ready THEN "prepared" ELSE "absent"]
  /\ summary = [gen |-> 0, failed |-> {}]
  /\ child = [running |-> FALSE, answer |-> FALSE, ends |-> FALSE]
  /\ prep = Idle /\ sent = <<>> /\ page = Away
MainStep ==
  /\ Len(sent) < MaxSent
  /\ \/ NotifierFires \/ ReadLine("out") \/ ReadLine("err") \/ Close \/ Finish \/ AnswerRead \/ SubmitPassword
     \/ \E n \in 1 .. Len(Labels) : StartPipeline(n)
PrepNext == ProcessorStep \/ MainStep \/ Mount \/ Unmount \/ Deliver \/ Flush

PrepSpec == PrepInit /\ [][PrepNext]_prepVars

-------------------------------------------------------------------------------
(* Properties. *)

TypeOK ==
  /\ processor.gen \in 0 .. prep.gen /\ processor.attempt \in 0 .. MaxAttempts /\ processor.code \in {0, 1}
  /\ processor.failed \subseteq Elems(Labels) /\ Elems(processor.todo) \subseteq Elems(Labels)
  /\ \A l \in DOMAIN onDisk : onDisk[l] \in {"absent", "partial", "prepared"}
  /\ child \in [running : BOOLEAN, answer : BOOLEAN, ends : BOOLEAN]
  /\ prep.status \in {"idle", "running", "finished"} /\ prep.passwordFor \in Elems(Labels) \cup {None}
  /\ Len(page.log) <= Kept /\ page.gen \in 0 .. prep.gen

\* A page that has nothing more to receive shows the session's state and its
\* latest lines, each once and in order, whenever it mounted and whatever was on
\* its way: "neither lost nor shown twice" (useRunState).
PageIsCurrent ==
  page.loaded /\ sent = <<>> /\ page.batch = <<>> /\ ~prep.soon =>
    page.state = State(prep) /\ page.log = Log(prep)

\* A processor that waits for a password, its prompt read, can be given one, and
\* the page is asked for it; a preparation that is over asks for none.
PromptIsShown ==
  /\ processor.pc = "waits" /\ pipes.out = <<>> => prep.passwordFor = Name /\ child.answer
  /\ prep.status # "running" => prep.passwordFor = None

\* What a finished preparation says of its backups is what this pass wrote, even
\* if it died and an earlier pass left a summary ("one left by an earlier run is
\* ignored", readPreparationSummary).
ResultIsOfThisPass ==
  prep.status = "finished" /\ prep.result.failed # None =>
    processor.done /\ prep.result.failed = processor.failed

\* A backup the progress calls done is prepared, although stderr's lines may be
\* read after later lines of stdout.
DoneIsPrepared ==
  \A l \in DOMAIN prep.progress.by : prep.progress.by[l].overall = "done" => onDisk[l] = "prepared"

\* What the app tells of a preparation is true of the backups: its result is this
\* pass's, and a backup it calls done is prepared.
ToldIsTrue == TypeOK /\ ResultIsOfThisPass /\ DoneIsPrepared
================================================================================
