------------------------------ MODULE FactLedger ------------------------------
(***************************************************************************)
(* The fact ledger: extractor processes writing units of evidence through   *)
(* db_writer.ingest() into ingested_files and forensic_records.             *)
(*                                                                         *)
(* One actor is one extractor process, the one its run spawned for a stage; *)
(* it visits every file of its evidence and ingests each in a transaction   *)
(* of its own.  The variables row, facts, count, origin and labels are the  *)
(* committed tables; what a transaction did and has not committed is in the *)
(* process's own variables, as no other session can see it (READ            *)
(* COMMITTED).                                                              *)
(***************************************************************************)
EXTENDS Integers, FiniteSets

CONSTANTS
  Runs,       \* run ids; one extractor process each
  Evidence,   \* evidence ids
  Files,      \* files of a derivative, by path
  Hashes,     \* sha256 values of files
  Versions,   \* parser versions
  MaxVersion, \* the greatest that parser_version, an INTEGER of at least 1, holds
  FilesOf,    \* FilesOf[e]: the files of e's derivative
  HashOf,     \* HashOf[f]: two paths may hold the same bytes
  FactCount,  \* FactCount[h]: records the parser makes of content h
  MaxFacts,   \* a bound on FactCount
  Readable,   \* <<h, v>>: version v can parse content h
  Stranded,   \* units an old, non-atomic writer may have left incomplete
  Legacy,     \* the run that left them
  NoRun, NoFile

\* A unit's identity in ingested_files (one source_type).
Keys == [ev : Evidence, hash : Hashes, ver : Versions]

ASSUME LedgerAssumption ==
  /\ MaxVersion \in Nat /\ Versions \subseteq 1 .. MaxVersion
  /\ MaxFacts \in Nat
  /\ FilesOf \in [Evidence -> SUBSET Files]
  /\ HashOf \in [Files -> Hashes]
  /\ FactCount \in [Hashes -> 0 .. MaxFacts]
  /\ Readable \subseteq Hashes \X Versions
  /\ Stranded \subseteq Keys
  /\ Legacy \notin Runs /\ NoRun \notin Runs /\ NoFile \notin Files

VARIABLES
  row,      \* row[k]: "absent", "stranded" (committed, incomplete) or "complete"
  facts,    \* facts[k]: the committed forensic_records of k, as <<run, n>>
  count,    \* count[k]: record_count
  origin,   \* origin[k]: the run whose derivative, path and payload the row holds
  labels,   \* labels[k]: produced_by_runs
  lock,     \* lock[k]: the run whose transaction holds the row
  ctx,      \* ctx[r]: the IngestContext, fixed when r is spawned
  pc,       \* where the extractor process is
  todo,     \* files it has not visited
  file,     \* the file it is on
  already,  \* unit.already_ingested, once the row is locked
  written,  \* records inserted in its open transaction
  failed    \* ETLRunResult.failed > 0

tables == <<row, facts, count, origin, labels>>
vars == <<tables, lock, ctx, pc, todo, file, already, written, failed>>

\* slip: the evidence is left out of the unit's identity
KeyOfBytes(r, f) == [ev |-> CHOOSE e \in Evidence : TRUE, hash |-> HashOf[f], ver |-> ctx[r].ver]
KeyOf(r, f) == [ev |-> ctx[r].ev, hash |-> HashOf[f], ver |-> ctx[r].ver]
Unit(r) == KeyOf(r, file[r])

Ended == {"succeeded", "failed", "killed"}
Live == {"next", "seen", "miss", "open"}
Writers == Runs \cup {Legacy}

TypeOK ==
  /\ row \in [Keys -> {"absent", "stranded", "complete"}]
  /\ facts \in [Keys -> SUBSET (Writers \X (1 .. MaxFacts + 1))]
  /\ count \in [Keys -> 0 .. MaxFacts]
  /\ origin \in [Keys -> Writers \cup {NoRun}]
  /\ labels \in [Keys -> SUBSET Writers]
  /\ lock \in [Keys -> Runs \cup {NoRun}]
  /\ ctx \in [Runs -> [ev : Evidence, ver : Versions]]
  /\ pc \in [Runs -> {"off"} \cup Live \cup Ended]
  /\ todo \in [Runs -> SUBSET Files]
  /\ file \in [Runs -> Files \cup {NoFile}]
  /\ already \in [Runs -> BOOLEAN]
  /\ written \in [Runs -> 0 .. MaxFacts]
  /\ failed \in [Runs -> BOOLEAN]

\* Rows an earlier writer stranded hold some of their records; everything
\* else is empty.
Init ==
  \E S \in SUBSET Stranded :
    /\ row = [k \in Keys |-> IF k \in S THEN "stranded" ELSE "absent"]
    /\ facts = [k \in Keys |-> IF k \in S THEN {<<Legacy, 1>>} ELSE {}]
    /\ count = [k \in Keys |-> 0]
    /\ origin = [k \in Keys |-> IF k \in S THEN Legacy ELSE NoRun]
    /\ labels = [k \in Keys |-> IF k \in S THEN {Legacy} ELSE {}]
    /\ lock = [k \in Keys |-> NoRun]
    /\ ctx \in [Runs -> [ev : Evidence, ver : Versions]]
    /\ pc = [r \in Runs |-> "off"]
    /\ todo = [r \in Runs |-> {}]
    /\ file = [r \in Runs |-> NoFile]
    /\ already = [r \in Runs |-> FALSE]
    /\ written = [r \in Runs |-> 0]
    /\ failed = [r \in Runs |-> FALSE]

-------------------------------------------------------------------------------
(* The stage's loop over its files. *)

\* The orchestrator spawns the stage; it lists its derivative's files.
Spawn(r) ==
  /\ pc[r] = "off"
  /\ pc' = [pc EXCEPT ![r] = "next"]
  /\ todo' = [todo EXCEPT ![r] = FilesOf[ctx[r].ev]]
  /\ UNCHANGED <<tables, lock, ctx, file, already, written, failed>>

\* The process leaves file[r] with the given pc, its failure counted or not.
LeaveFile(r, bad) ==
  /\ pc' = [pc EXCEPT ![r] = "next"]
  /\ todo' = [todo EXCEPT ![r] = @ \ {file[r]}]
  /\ failed' = [failed EXCEPT ![r] = @ \/ bad]

\* The exit code: 0 only when no file failed.
ExitStatus(r) == IF failed[r] THEN "failed" ELSE "succeeded"
Exit(r) ==
  /\ pc[r] = "next"
  /\ todo[r] = {}
  /\ pc' = [pc EXCEPT ![r] = ExitStatus(r)]
  /\ UNCHANGED <<tables, lock, ctx, todo, file, already, written, failed>>

-------------------------------------------------------------------------------
(* ingest(): one file, one transaction. *)

\* The unlocked read that starts every ingest: a complete row is a dedup hit,
\* anything else, stale or not, goes on to the locking upsert.
FastPath(r) ==
  /\ pc[r] = "next"
  /\ \E f \in todo[r] :
       /\ file' = [file EXCEPT ![r] = f]
       /\ pc' = [pc EXCEPT ![r] = IF row[KeyOf(r, f)] = "complete" THEN "seen" ELSE "miss"]
  /\ UNCHANGED <<tables, lock, ctx, todo, already, written, failed>>

\* A dedup hit: the caller writes nothing; the run is labelled and committed.
\* The label's UPDATE waits for any transaction that holds the row.
LabelSeen(r) ==
  /\ pc[r] = "seen"
  /\ lock[Unit(r)] = NoRun
  /\ labels' = [labels EXCEPT ![Unit(r)] = @ \cup {r}]
  /\ LeaveFile(r, FALSE)
  /\ UNCHANGED <<row, facts, count, origin, lock, ctx, file, already, written>>

\* INSERT ... ON CONFLICT DO UPDATE ... RETURNING ingest_complete: it waits for
\* the row, locks it, and reads whether it was completed in the meantime.
RowNotLocked(k) == TRUE \* slip: a plain SELECT in place of the upsert
RowIsFree(k) == lock[k] = NoRun
Upsert(r) ==
  /\ pc[r] = "miss"
  /\ RowIsFree(Unit(r))
  /\ lock' = [lock EXCEPT ![Unit(r)] = r]
  /\ already' = [already EXCEPT ![r] = row[Unit(r)] = "complete"]
  /\ written' = [written EXCEPT ![r] = 0]
  /\ pc' = [pc EXCEPT ![r] = "open"]
  /\ UNCHANGED <<tables, ctx, todo, file, failed>>

\* unit.write: one record more in the open transaction.
CanParse(r) == <<HashOf[file[r]], ctx[r].ver>> \in Readable
MoreToWrite(r) == written[r] < FactCount[HashOf[file[r]]]
Write(r) ==
  /\ pc[r] = "open"
  /\ ~already[r]
  /\ CanParse(r)
  /\ MoreToWrite(r)
  /\ written' = [written EXCEPT ![r] = @ + 1]
  /\ UNCHANGED <<tables, lock, ctx, pc, todo, file, already, failed>>

\* The records the transaction left in place: none of an incomplete row's.
KeptFactsAll(r) == facts[Unit(r)] \* slip: the DELETE is dropped
KeptFacts(r) == IF already[r] THEN facts[Unit(r)] ELSE {}
\* The run whose columns the row holds: a complete row keeps its own.
KeptOriginNone(r) == r \* slip: the CASE WHEN ingest_complete is dropped
KeptOrigin(r) == IF already[r] THEN origin[Unit(r)] ELSE r

\* The COMMIT as the server applies it.
Applied(r) ==
  LET k == Unit(r) IN
  /\ row' = [row EXCEPT ![k] = "complete"]
  /\ facts' = [facts EXCEPT ![k] = KeptFacts(r) \cup ({r} \X (1 .. written[r]))]
  /\ count' = [count EXCEPT ![k] = IF already[r] THEN @ ELSE written[r]]
  /\ origin' = [origin EXCEPT ![k] = KeptOrigin(r)]
  /\ labels' = [labels EXCEPT ![k] = @ \cup {r}]
  /\ lock' = [lock EXCEPT ![k] = NoRun]
  /\ written' = [written EXCEPT ![r] = 0]
  /\ already' = [already EXCEPT ![r] = FALSE]

\* The body of the with block is done: every record is in, or none is wanted.
BodyDoneUnparsed(r) == already[r] \/ ~CanParse(r) \/ ~MoreToWrite(r) \* slip: the error is logged, not raised
BodyDone(r) == already[r] \/ (CanParse(r) /\ ~MoreToWrite(r))

Commit(r) ==
  /\ pc[r] = "open"
  /\ BodyDone(r)
  /\ Applied(r)
  /\ LeaveFile(r, FALSE)
  /\ UNCHANGED <<ctx, file>>

\* The server commits and the connection is lost before the client hears it:
\* commit() raises, and the file is counted as failed though it is ingested.
CommitUnacknowledged(r) ==
  /\ pc[r] = "open"
  /\ BodyDone(r)
  /\ Applied(r)
  /\ LeaveFile(r, TRUE)
  /\ UNCHANGED <<ctx, file>>

\* What rollback undoes: the open transaction's records and its lock.
UnlockedNever(r) == [k \in Keys |-> lock[k]] \* slip: no rollback in the except
Unlocked(r) == [k \in Keys |-> IF lock[k] = r THEN NoRun ELSE lock[k]]
Rollback(r) ==
  /\ lock' = Unlocked(r)
  /\ written' = [written EXCEPT ![r] = 0]
  /\ already' = [already EXCEPT ![r] = FALSE]
  /\ UNCHANGED tables

\* A file this parser version cannot read raises inside the with block.
ParseError(r) ==
  /\ pc[r] = "open"
  /\ ~already[r] /\ ~CanParse(r)
  /\ Rollback(r)
  /\ LeaveFile(r, TRUE)
  /\ UNCHANGED <<ctx, file>>

\* Any other exception on the way: a lost connection, a failed statement.
Fault(r) ==
  /\ pc[r] \in {"seen", "miss", "open"}
  /\ Rollback(r)
  /\ LeaveFile(r, TRUE)
  /\ UNCHANGED <<ctx, file>>

\* The process is killed; the server rolls its transaction back.
Kill(r) ==
  /\ pc[r] \in Live
  /\ Rollback(r)
  /\ pc' = [pc EXCEPT ![r] = "killed"]
  /\ UNCHANGED <<ctx, todo, file, failed>>

-------------------------------------------------------------------------------
\* Every run has ended: the system may stop.
AllEnded == (\A r \in Runs : pc[r] \in Ended) /\ UNCHANGED vars

\* What a process does when nothing goes wrong around it.
Work(r) ==
  \/ FastPath(r) \/ LabelSeen(r) \/ Upsert(r) \/ Write(r)
  \/ Commit(r) \/ ParseError(r) \/ Exit(r)

Next ==
  \/ \E r \in Runs : \/ Spawn(r) \/ Work(r)
                     \/ CommitUnacknowledged(r) \/ Fault(r) \/ Kill(r)
  \/ AllEnded

Spec == Init /\ [][Next]_vars

\* A spawned process keeps running and the database keeps answering: no
\* fairness for spawning, faults or kills.
FairSpec == Spec /\ \A r \in Runs : WF_vars(Work(r))

-------------------------------------------------------------------------------
(* What readers see: the views of migration 0004. *)

Newer(k) == {n \in Keys : n.ev = k.ev /\ n.hash = k.hash /\ n.ver > k.ver}
CurrentByRow == \* slip: newer.ingest_complete is dropped
  {k \in Keys : row[k] = "complete" /\ \A n \in Newer(k) : row[n] = "absent"}
\* The units behind current_forensic_records: complete, with no newer complete one.
Current == {k \in Keys : row[k] = "complete" /\ \A n \in Newer(k) : row[n] # "complete"}

-------------------------------------------------------------------------------
(* Properties. *)

\* A complete unit holds the facts of exactly one run's reading of it, all of
\* them and no other's: a retry over a stranded row never counts a fact twice,
\* and two processes racing on a unit never both write (ingest()'s guarantees).
OneReading ==
  \A k \in Keys : row[k] = "complete" =>
    /\ origin[k] \in Runs
    /\ facts[k] = {origin[k]} \X (1 .. FactCount[k.hash])
    /\ count[k] = FactCount[k.hash]

\* A unit no parser could read is never on record as done, so it is retried
\* instead of being skipped (crash/main.py run, parse failures).
NeverDoneUnread ==
  \A k \in Keys : row[k] = "complete" => <<k.hash, k.ver>> \in Readable

\* A stage that exits 0 leaves every file of its derivative ingested at its
\* parser version, under its own evidence, and its run named on each: the
\* orchestrator's skip of a complete run rests on this.
SuccessMeansIngested ==
  \A r \in Runs : pc[r] = "succeeded" =>
    \A f \in FilesOf[ctx[r].ev] :
      LET k == [ev |-> ctx[r].ev, hash |-> HashOf[f], ver |-> ctx[r].ver]
      IN  row[k] = "complete" /\ r \in labels[k]

\* Whatever was ever complete stays readable, at its version or a newer
\* complete one: an unfinished re-parse never hides finished facts
\* (current_forensic_records).
ReparseNeverHides ==
  \A k \in Keys : row[k] = "complete" =>
    \E n \in Current : n.ev = k.ev /\ n.hash = k.hash /\ n.ver >= k.ver

\* A step never changes what a completed unit holds or where it came from, and
\* never takes a run off its list (a finished ingest is immutable audit data).
KeepsCompleted ==
  \A k \in Keys : row[k] = "complete" =>
    /\ row'[k] = "complete"
    /\ facts'[k] = facts[k] /\ count'[k] = count[k] /\ origin'[k] = origin[k]
    /\ labels[k] \subseteq labels'[k]
CompletedIsFinal == [][KeepsCompleted]_vars

\* Every spawned extractor comes to an end: no wait for a row's lock lasts for
\* ever, whatever fails or is killed while holding it.
EveryRunEnds == \A r \in Runs : (pc[r] # "off") ~> (pc[r] \in Ended)

\* The ledger implements the once-only ledger: readers see each unit published
\* in one step, by one run, and for good.
Once == INSTANCE OnceLedger WITH
  Units <- Keys,
  Size <- [k \in Keys |-> FactCount[k.hash]],
  published <- {k \in Keys : row[k] = "complete"},
  content <- [k \in Keys |-> IF row[k] = "complete" THEN facts[k] ELSE {}],
  seenBy <- [k \in Keys |-> IF row[k] = "complete" THEN labels[k] \cap Runs ELSE {}]
ImplementsOnce == Once!Spec
================================================================================
