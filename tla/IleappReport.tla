----------------------------- MODULE IleappReport -----------------------------
(***************************************************************************)
(* The ileapp_bridge stage: it reads one iLEAPP report, a manifest that        *)
(* describes tables and a database that holds them, and files each artifact as *)
(* one unit of facts.  Meanwhile the processor may put another report in the   *)
(* report's place, the stage may be killed, and later runs may read it again   *)
(* with a newer parser version.  A unit is filed at once or not at all, and    *)
(* once (OnceLedger, which db_writer's ingest implements: FactLedger).         *)
(*                                                                         *)
(* A value is a record whose "is" names its kind; "time" is an instant in the  *)
(* tool's unit, "null" is no value.                                            *)
(***************************************************************************)
EXTENDS Integers, Sequences, FiniteSets

CONSTANTS
  Reports,     \* what the report directory may hold, by a number
  Artifacts,   \* what a manifest may describe, by a number
  Tables,      \* what a database may hold, by a number
  Defects,     \* parser version -> the tool defects it corrects
  DeviceEra,   \* no device time is before it
  Now,         \* the time of the runs
  MaxStages,   \* bound: runs of this stage
  MaxReplaced, \* bound: times the processor replaces the report
  NoValue

Versions == DOMAIN Defects

\* A report: its faults as a whole, its tool version, the artifacts its manifest
\* describes, the tables its database holds by name, and the plugins that
\* errored.  An artifact's headers are its columns' original names, its times
\* its declared datetime columns in order.
ASSUME IleappReportAssumption ==
  /\ \A r \in DOMAIN Reports :
       /\ {"faults", "tool", "artifacts", "tables", "errored"} = DOMAIN Reports[r]
       /\ Reports[r].artifacts \subseteq DOMAIN Artifacts
       /\ \A t \in DOMAIN Reports[r].tables : Reports[r].tables[t] \in DOMAIN Tables
  /\ \A a \in DOMAIN Artifacts :
       {"name", "module", "table", "count", "headers", "times", "source"} = DOMAIN Artifacts[a]
  /\ Versions \subseteq Nat /\ MaxStages \in Nat /\ MaxReplaced \in Nat /\ DeviceEra <= Now
\* A table is finite, an instant a number; a correction scales up (ScaleCorrection).
ASSUME TablesAssumption ==
  \A t \in DOMAIN Tables :
    /\ IsFiniteSet(Tables[t].columns)
    /\ Tables[t].rows \in Seq({Tables[t].rows[i] : i \in DOMAIN Tables[t].rows})
    /\ \A i \in DOMAIN Tables[t].rows : \A c \in Tables[t].columns :
         Tables[t].rows[i][c].is = "time" => Tables[t].rows[i][c] \in [is : {"time"}, at : Int]
ASSUME DefectsAssumption ==
  \A v \in Versions : \A d \in Defects[v] : d.below \in Nat /\ d.factor \in Nat /\ d.factor > 1

VARIABLES
  disk,    \* the report in the directory
  replaced,
  units,   \* the ledger's complete units: [content, ver, facts, of], of the report it names
  stage,   \* the stage's process
  stages   \* how many have run

bridgeVars == <<disk, replaced, units, stage, stages>>

NoStage == [pc |-> "off", ver |-> 0, read |-> NoValue, db |-> NoValue, left |-> {}, failed |-> {}]

-------------------------------------------------------------------------------
(* The report as a whole: read_manifest, open_database, check_tables. *)

Described(r) == {Artifacts[a].table : a \in Reports[r].artifacts} \ {NoValue}
SharesTable(r) ==
  \E a, b \in Reports[r].artifacts :
    a # b /\ Artifacts[a].table # NoValue /\ Artifacts[a].table = Artifacts[b].table
ManifestReads(r) == "manifest" \notin Reports[r].faults /\ Reports[r].tool # NoValue /\ ~SharesTable(r)
DatabaseOpens(r) == "database" \notin Reports[r].faults \* there, and in its final state
OnlyMissing(read, db) == Described(read) \subseteq DOMAIN Reports[db].tables \* slip: an unlisted table is passed over
TablesAgree(read, db) == Described(read) = DOMAIN Reports[db].tables

-------------------------------------------------------------------------------
(* One artifact: _plan, _read_row, scan_artifact, evidence_relative. *)

SeqRange(s) == {s[i] : i \in DOMAIN s}
\* The registered defects of this version, artifact and module.
Fixes(a, ver, tool) ==
  {d \in Defects[ver] : tool \in d.tools /\ d.module = a.module /\ d.artifact = a.name}
MetadataKeys == {"engine", "source_artifact", "source_path", "corrections", "time_review"}
\* Its source file, where it names one, is a file inside the evidence.
SourceIsInside(a) == a.source # "outside"
Planned(a, table, fixes) ==
  /\ a.table # NoValue /\ a.count # NoValue
  /\ table.columns \subseteq DOMAIN a.headers
  /\ LET headers == {a.headers[c] : c \in table.columns} IN
       /\ Cardinality(headers) = Cardinality(table.columns)
       /\ headers \cap MetadataKeys = {}
       /\ \A d \in fixes : d.column \in headers
  /\ a.times # <<>> => a.times[1] \in table.columns
  /\ SourceIsInside(a)
Scanned(a, table, fixes) == Planned(a, table, fixes) /\ Len(table.rows) = a.count

\* ScaleCorrection: values below the limit, and no others.
Applies(d, value) == value.is = "time" /\ 0 < value.at /\ value.at < d.below
Corrected(d, value) == [value EXCEPT !.at = @ * d.factor]
FixOf(a, column, fixes) == {d \in fixes : d.column = a.headers[column]}
Effective(a, column, value, fixes) ==
  IF \E d \in FixOf(a, column, fixes) : Applies(d, value)
  THEN Corrected(CHOOSE d \in FixOf(a, column, fixes) : Applies(d, value), value)
  ELSE value

\* A record: the row under its headers as iLEAPP gave it, the time its first
\* declared datetime gives, what was corrected, and the times to review.
Kept(a, table, row, fixes) ==
  [h \in {a.headers[c] : c \in table.columns} |-> row[CHOOSE c \in table.columns : a.headers[c] = h]]
UnixUtc(value) == IF value.is = "time" THEN value.at ELSE NoValue
Record(a, table, row, fixes) ==
  LET now(c) == Effective(a, c, row[c], fixes)
      times == SeqRange(a.times) \cap table.columns IN
  [origin |-> a.name, fields |-> Kept(a, table, row, fixes),
   time |-> IF a.times = <<>> THEN NoValue ELSE UnixUtc(now(a.times[1])),
   corrected |-> {c \in table.columns : now(c) # row[c]},
   review |-> {c \in times : now(c).is = "time" /\ (now(c).at < DeviceEra \/ now(c).at > Now)}]
Records(a, table, fixes) == [i \in DOMAIN table.rows |-> Record(a, table, table.rows[i], fixes)]

\* The unit's identity: the artifact's metadata, columns and rows as iLEAPP gave
\* them, so that a correction reaches it by a newer parser version.
Content(a, t, fixes) == [artifact |-> a, table |-> t]

-------------------------------------------------------------------------------
(* The stage. *)

BridgeInit ==
  /\ disk \in DOMAIN Reports /\ replaced = 0 /\ units = {} /\ stage = NoStage /\ stages = 0

Resting == {"off", "done", "failed"}
Filed(content, ver) == {u \in units : u.content = content /\ u.ver = ver}

Failed == [NoStage EXCEPT !.pc = "failed", !.ver = stage.ver]
StartStage(v) ==
  /\ stage.pc \in Resting /\ stages < MaxStages /\ stages' = stages + 1
  /\ v \in Versions /\ v >= stage.ver
  /\ stage' = [NoStage EXCEPT !.pc = "manifest", !.ver = v]
  /\ UNCHANGED <<disk, replaced, units>>
ReadManifest ==
  /\ stage.pc = "manifest"
  /\ stage' = IF ManifestReads(disk) THEN [stage EXCEPT !.pc = "open", !.read = disk]
              ELSE Failed
  /\ UNCHANGED <<disk, replaced, units, stages>>
\* The database that is in the directory now; the open file stays, whatever
\* becomes of the directory.
Open ==
  /\ stage.pc = "open"
  /\ stage' = IF DatabaseOpens(disk) /\ TablesAgree(stage.read, disk)
              THEN [stage EXCEPT !.pc = "artifacts", !.db = disk, !.left = Reports[stage.read].artifacts]
              ELSE Failed
  /\ UNCHANGED <<disk, replaced, units, stages>>
\* Both passes read the same immutable file.  An artifact that can't be read
\* fails only itself.
TableOf(a) == Reports[stage.db].tables[Artifacts[a].table]
FixesOf(a) == Fixes(Artifacts[a], stage.ver, Reports[stage.read].tool)
IngestArtifact ==
  /\ stage.pc = "artifacts"
  /\ \E a \in stage.left :
       LET art == Artifacts[a] table == Tables[TableOf(a)]
           rest == [stage EXCEPT !.left = @ \ {a}]
           content == Content(a, TableOf(a), FixesOf(a)) IN
       \/ /\ art.table # NoValue /\ Scanned(art, table, FixesOf(a))
          /\ stage' = rest
          /\ units' = IF Filed(content, stage.ver) # {} THEN units
                      ELSE units \cup {[content |-> content, ver |-> stage.ver, of |-> stage.read,
                                        facts |-> Records(art, table, FixesOf(a))]}
       \/ /\ art.table = NoValue \/ ~Scanned(art, table, FixesOf(a))
          /\ stage' = [rest EXCEPT !.failed = @ \cup {a}] /\ UNCHANGED units
  /\ UNCHANGED <<disk, replaced, stages>>
EndStage ==
  /\ stage.pc = "artifacts" /\ stage.left = {}
  /\ stage' = [stage EXCEPT !.pc = "done"]
  /\ UNCHANGED <<disk, replaced, units, stages>>
\* Killed, or the database goes away: the unit under way rolls back.
StageDies ==
  /\ stage.pc \notin Resting /\ stage' = Failed
  /\ UNCHANGED <<disk, replaced, units, stages>>
\* Bound: only while the stage has yet to read some of it.
ReplaceReport ==
  /\ stage.pc \in {"manifest", "open"}
  /\ replaced < MaxReplaced /\ replaced' = replaced + 1
  /\ disk' \in DOMAIN Reports \ {disk}
  /\ UNCHANGED <<units, stage, stages>>

BridgeNext ==
  \/ \E v \in Versions : StartStage(v)
  \/ ReadManifest \/ Open \/ IngestArtifact \/ EndStage \/ StageDies \/ ReplaceReport

\* current_forensic_records: no newer parser version has the same content.
Current == {u \in units : ~\E v \in units : v.content = u.content /\ v.ver > u.ver}

-------------------------------------------------------------------------------
(* Properties. *)

\* When the stage says it is done, every row of every table of the database it
\* opened is a fact of one unit, or its artifact is named as failed: no table is
\* left out because the manifest, which may be another report's, is silent.
NothingLeftOut ==
  stage.pc = "done" =>
    \A t \in DOMAIN Reports[stage.db].tables : \E a \in Reports[stage.read].artifacts :
      LET table == Tables[Reports[stage.db].tables[t]] IN
      /\ Artifacts[a].table = t
      /\ \/ a \in stage.failed
         \/ \E u \in units :
              /\ u.ver = stage.ver /\ u.content.artifact = a
              /\ Len(u.facts) = Len(table.rows)
              /\ \A i \in DOMAIN u.facts : \A c \in table.columns :
                   u.facts[i].fields[Artifacts[a].headers[c]] = table.rows[i][c]

\* The defects are registered of every tool version that has them: what another
\* version gave, in a table its manifest reads, needs no correction.
OnlyDefectiveToolsErr ==
  \A r, p \in DOMAIN Reports : TablesAgree(r, p) => \A a \in Reports[r].artifacts : \A v \in Versions :
    LET art == Artifacts[a] table == Tables[Reports[p].tables[art.table]] IN
    art.table # NoValue /\ Scanned(art, table, Fixes(art, v, Reports[r].tool)) =>
      \A d \in Defects[v] : d.module = art.module /\ d.artifact = art.name /\ Reports[r].tool \notin d.tools =>
        \A i \in DOMAIN table.rows : \A c \in table.columns :
          art.headers[c] = d.column => ~Applies(d, table.rows[i][c])

\* A correction supersedes: once the stage has read a report with a parser
\* version that corrects a defect, no current fact of these rows has the wrong
\* time ("a corrected re-ingest at a newer parser version supersedes the
\* uncorrected facts", scan_artifact).
CorrectionsReplace ==
  stage.pc = "done" =>
    \A a \in Reports[stage.read].artifacts \ stage.failed : \A d \in FixesOf(a) :
      \A u \in Current : u.content.artifact = a /\ u.content.table = TableOf(a) =>
        \A i \in DOMAIN u.facts : \A c \in Tables[TableOf(a)].columns :
          Artifacts[a].headers[c] = d.column /\ Applies(d, u.facts[i].fields[d.column])
            => c \in u.facts[i].corrected

\* What iLEAPP gave can be read back from every fact, and a fact's time follows
\* from that and the registered corrections alone ("the row keeps iLEAPP's
\* value under its header").
ToolValuesKept ==
  \A u \in units : \A i \in DOMAIN u.facts :
    LET a == Artifacts[u.content.artifact] table == Tables[u.content.table] f == u.facts[i] IN
    /\ \A c \in table.columns : f.fields[a.headers[c]] = table.rows[i][c]
    /\ f.time # NoValue =>
         LET header == a.headers[a.times[1]] given == f.fields[header].at IN
         IF a.times[1] \notin f.corrected THEN f.time = given
         ELSE \E d \in Defects[u.ver] :
                /\ d.module = a.module /\ d.artifact = a.name /\ d.column = header
                /\ 0 < given /\ given < d.below /\ f.time = given * d.factor

\* The facts the examiner sees of a report are the report's: complete, corrected
\* where the parser corrects, and with what iLEAPP gave still to be read.
ReportIsRead == NothingLeftOut /\ CorrectionsReplace /\ ToolValuesKept
===============================================================================
