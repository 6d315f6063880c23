------------------------------ MODULE Migrations ------------------------------
(***************************************************************************)
(* The schema of the evidence database: the container's first boot runs every *)
(* migration file statement by statement and never again (initdb); migrate.py *)
(* reconciles its ledger with what it finds and applies the rest, each file in *)
(* one transaction.  Two people, or a person and bootstrap-dev.sh, may run     *)
(* migrate.py at once.                                                        *)
(*                                                                         *)
(* A file's schema is 0 (not begun), 1 (its first object is there) or 2 (its   *)
(* last statement has run).                                                   *)
(***************************************************************************)
EXTENDS Integers

CONSTANTS
  N,       \* migration files 1 .. N, in filename order
  OneStep, \* files whose first statement with an effect is their last
  Drops,   \* file -> earlier files whose marker objects it removes
  Runners  \* processes of migrate.py

Files == 1 .. N

ASSUME MigrationsAssumption ==
  /\ N \in Nat \ {0} /\ OneStep \subseteq Files
  /\ Drops \in [Files -> SUBSET Files] /\ \A f \in Files : \A g \in Drops[f] : g < f

VARIABLES
  schema, \* file -> how much of it the database has
  booted, \* the last file the first boot still has to run, 0 once it is over
  ledger, \* schema_migrations; {} also stands for no such table
  runner  \* runner -> [pc, at, newest, pending]

migVars == <<schema, booted, ledger, runner>>

NotRunning == [pc |-> "off", at |-> 0, newest |-> 0, pending |-> {}]
Ended == {"off", "partial"}

MigTypeOK ==
  /\ schema \in [Files -> 0 .. 2] /\ booted \in 0 .. N /\ ledger \subseteq Files
  /\ runner \in [Runners -> [pc : Ended \cup {"scan", "judge", "list", "apply"}, at : 0 .. N + 1,
                             newest : 0 .. N, pending : SUBSET Files]]

\* A database of its own (booted = 0), or one made by the container, of this
\* code's files or of the fewer files of an older one.
MigInit ==
  /\ schema = [f \in Files |-> 0] /\ booted \in 0 .. N
  /\ ledger = {} /\ runner = [r \in Runners |-> NotRunning]

-------------------------------------------------------------------------------
(* The first boot.  A stop, of the container or at an error, ends it for good. *)

Whole(f) == schema[f] = 2
BootStep ==
  /\ booted # 0
  /\ \E f \in 1 .. booted :
       /\ ~Whole(f) /\ \A g \in 1 .. f - 1 : Whole(g)
       /\ schema' = [schema EXCEPT ![f] = IF f \in OneStep THEN 2 ELSE @ + 1]
  /\ UNCHANGED <<booted, ledger, runner>>
BootEnds == booted # 0 /\ booted' = 0 /\ UNCHANGED <<schema, ledger, runner>>

-------------------------------------------------------------------------------
(* migrate.py.  Each query of bootstrap_if_needed sees what is committed then. *)

\* APPLIED_MARKERS: a file's first and its last object, unless a later file has
\* removed them.
Removed(f) == \E g \in Files : f \in Drops[g] /\ Whole(g)
Started(f) == schema[f] > 0 /\ ~Removed(f)
Finished(f) == Whole(f) /\ ~Removed(f)

Becomes(r, state) == runner' = [runner EXCEPT ![r] = state]
SchemaStays == UNCHANGED <<schema, booted>>

\* Bound: migrate.py is not run again once nothing is pending.
Run(r) ==
  /\ runner[r].pc \in Ended /\ booted = 0 /\ ledger # Files
  /\ Becomes(r, [NotRunning EXCEPT !.pc = "scan", !.at = 1])
  /\ SchemaStays /\ UNCHANGED ledger
\* The newest migration that started, one query for each file.
Scan(r) ==
  LET s == runner[r] IN
  /\ s.pc = "scan"
  /\ Becomes(r, [s EXCEPT !.newest = IF Started(s.at) THEN s.at ELSE @, !.at = @ + 1,
                          !.pc = IF s.at = N THEN "judge" ELSE @])
  /\ SchemaStays /\ UNCHANGED ledger
\* If it finished, it and every earlier one go on record.
FinishedOrNot(f) == TRUE \* slip: the last statement's effect is not looked for
JudgedFinished(f) == Finished(f)
Judge(r) ==
  LET s == runner[r] IN
  /\ s.pc = "judge" /\ SchemaStays
  /\ CASE s.newest = 0 -> Becomes(r, [s EXCEPT !.pc = "list"]) /\ UNCHANGED ledger
       [] s.newest # 0 /\ JudgedFinished(s.newest) ->
            Becomes(r, [s EXCEPT !.pc = "list"]) /\ ledger' = ledger \cup 1 .. s.newest
       [] OTHER -> Becomes(r, [NotRunning EXCEPT !.pc = "partial"]) /\ UNCHANGED ledger
List(r) ==
  LET s == runner[r] IN
  /\ s.pc = "list"
  /\ Becomes(r, IF ledger = Files THEN NotRunning ELSE [s EXCEPT !.pc = "apply", !.pending = Files \ ledger])
  /\ SchemaStays /\ UNCHANGED ledger
\* The pending files in order, a file and its ledger row in one transaction.  Run
\* twice it fails, on an object that exists or on the ledger's key, and nothing
\* after it is tried.
Apply(r) ==
  LET s == runner[r] IN
  /\ s.pc = "apply" /\ UNCHANGED booted
  /\ \/ \E f \in s.pending :
          /\ \A g \in s.pending : f <= g
          /\ schema[f] = 0 /\ f \notin ledger
          /\ schema' = [schema EXCEPT ![f] = 2] /\ ledger' = ledger \cup {f}
          /\ Becomes(r, [s EXCEPT !.pending = @ \ {f}])
     \/ Becomes(r, NotRunning) /\ UNCHANGED <<schema, ledger>>
\* Killed, or the connection is lost.
RunnerDies(r) ==
  /\ runner[r].pc \notin Ended /\ Becomes(r, NotRunning)
  /\ SchemaStays /\ UNCHANGED ledger

MigNext ==
  \/ BootStep \/ BootEnds
  \/ \E r \in Runners : Run(r) \/ Scan(r) \/ Judge(r) \/ List(r) \/ Apply(r) \/ RunnerDies(r)

-------------------------------------------------------------------------------
\* A migration is on record only if all of it is in the database, however the
\* database came to be ("recorded only when its LAST statement's effect is
\* present", bootstrap_if_needed).
LedgerIsTrue == \A f \in ledger : Whole(f)

\* Migrations apply in order: no file is begun before every earlier one is whole
\* (the marker test rests on it: "if it finished, every earlier one did too").
InOrder == \A f \in Files : schema[f] > 0 => \A g \in 1 .. f - 1 : Whole(g)

\* What the ledger and the order of the files say of the schema is so, whichever
\* runners apply them at once and wherever one, or the boot of an empty cluster,
\* is interrupted.
SchemaIsTrue == LedgerIsTrue /\ InOrder
================================================================================
