--------------------------- MODULE IndicatorChecks ---------------------------
(***************************************************************************)
(* The indicator_match stage: it checks an evidence's current facts, a crash   *)
(* report's and an iLEAPP report's, against the set its run chose, and files   *)
(* the whole check as one unit.  Sets are registered and reports are read      *)
(* meanwhile.  A unit is filed at once, and once for one identity (OnceLedger).  *)
(***************************************************************************)
EXTENDS IndicatorSets, IleappReport

CONSTANTS
  CrashUnit, \* the unit of facts the crash stage filed
  Runs       \* runs of the orchestrator

\* A value is a text or a blob, an instant, or none.  The crash stage's unit is no
\* artifact of iLEAPP's; only an e-mail source is read as "email_only".
Values == Texts \cup [is : {"null", "binary"}] \cup [is : {"time"}, at : Int]
ASSUME ChecksAssumption ==
  /\ \A t \in DOMAIN Tables : \A i \in DOMAIN Tables[t].rows : \A c \in Tables[t].columns :
       Tables[t].rows[i][c] \in Values
  /\ CrashUnit.facts \in Seq(SeqRange(CrashUnit.facts))
  /\ \A f \in SeqRange(CrashUnit.facts) : \A h \in DOMAIN f.fields : f.fields[h] \in Values
  /\ \A a \in DOMAIN Artifacts, t \in DOMAIN Tables : CrashUnit.content # Content(a, t, {})
  /\ None \notin {"exact", "subdomain"}
  /\ \A type \in {"domain", "url"} : \A s \in FieldMap.types[type].sources : s.extract # "email_only"

VARIABLES
  checks, \* complete indicator_match units
  run     \* run -> its stage row and process

checkVars == <<checks, run>>
vars == <<bridgeVars, setVars, checkVars>>

NoRun == [pc |-> "off", set |-> None, units |-> {}]

-------------------------------------------------------------------------------
(* Matching: facts are read through the field map only. *)

MatchedTypes == {"domain", "url", "process_name", "bundle_id", "email"}
\* A type's sources; a URL's host is also a domain.
Sources == [type \in MatchedTypes |->
  LET of(t, host) == {[origin |-> s.origin, column |-> s.column, extract |-> s.extract, host |-> host] :
                        s \in FieldMap.types[t].sources} IN
  of(type, FALSE) \cup (IF FieldMap.types[type].from_url THEN of("url", TRUE) ELSE {})]

HostOf(text) == [text EXCEPT !.is = "domain", !.rest = "", !.form = @ \cap {"upper", "dot", "bad"}]
Holds(source, fact) ==
  /\ fact.origin = source.origin /\ source.column \in DOMAIN fact.fields
  /\ fact.fields[source.column].is # "null"
\* What a source holds, read as the type: a normal value, or why not.
Reading(type, source, text) ==
  IF text.is \in {"binary", "time"} \/ (source.host /\ text.is # "url") THEN "unreadable"
  ELSE LET plain == IF source.host THEN HostOf(text)
                    ELSE IF source.extract = "cookie_host" THEN [text EXCEPT !.form = @ \ {"leading"}] ELSE text IN
       IF source.extract = "email_only" /\ plain.is # "email" THEN "not_email"
       ELSE IF Normalize(type, plain) = None THEN "unreadable" ELSE "value"
ValueOf(type, source, text) ==
  Normalize(type, IF source.host THEN HostOf(text)
                  ELSE IF source.extract = "cookie_host" THEN [text EXCEPT !.form = @ \ {"leading"}] ELSE text)
Counted(type, source, facts, reading) ==
  Cardinality({f \in facts : Holds(source, f) /\ Reading(type, source, f.fields[source.column]) = reading})
SourceCounts(type, facts) ==
  {[source |-> s, values |-> Counted(type, s, facts, "value"), unreadable |-> Counted(type, s, facts, "unreadable"),
    not_email |-> Counted(type, s, facts, "not_email")] : s \in Sources[type]}

\* An indicator's value is the fact's, or a domain that the fact's is under.
Under(name, parent) == \E i \in 2 .. Len(name) : parent = SubSeq(name, i, Len(name))
Mode(type, value, ind) ==
  CASE value = ind.normal -> "exact"
    [] type = "domain" /\ value.form = ind.normal.form /\ Under(value.name, ind.normal.name) -> "subdomain"
    [] OTHER -> None
MatchesOf(ind, source, facts) ==
  LET mode(f) == Mode(ind.type, ValueOf(ind.type, source, f.fields[source.column]), ind) IN
  {[ind |-> ind, fact |-> f, source |-> source, mode |-> mode(f)] :
     f \in {f \in facts : /\ Holds(source, f) /\ Reading(ind.type, source, f.fields[source.column]) = "value"
                          /\ mode(f) # None}}
Matches(facts, indicators) ==
  UNION {UNION {MatchesOf(i, s, facts) : s \in Sources[i.type]} : i \in {i \in indicators : i.type \in MatchedTypes}}

Status(counts) == IF \E c \in counts : c.values > 0 THEN "checked" ELSE "no_facts"
Summary(facts, indicators) ==
  [t \in {i.type : i \in indicators} |->
     IF t \in MatchedTypes
     THEN LET counts == SourceCounts(t, facts) IN [status |-> Status(counts), sources |-> counts]
     ELSE [status |-> "no_source", sources |-> {}]]

-------------------------------------------------------------------------------
(* The stage. *)

Key(u) == <<u.content, u.ver>>
FactsOf(keys) == UNION {SeqRange(u.facts) : u \in {u \in units \cup {CrashUnit} : Key(u) \in keys}}
\* The units some mapped source can read a fact of.
Mapped == UNION {{s.origin : s \in FieldMap.types[t].sources} : t \in DOMAIN FieldMap.types}
ReadFrom == {u \in Current \cup {CrashUnit} : \E f \in SeqRange(u.facts) : f.origin \in Mapped}
\* The plugins that errored in the reports those facts are from.
ErrorsOf(keys) == UNION {Reports[u.of].errored : u \in {u \in units : Key(u) \in keys}}

ChecksInit == checks = {} /\ run = [m \in Runs |-> NoRun]
Goes(m, s) == run' = [run EXCEPT ![m] = s]

\* selectIndicatorSet: the newest registered set, unless one was chosen by its
\* hash; without any the stage is skipped.
Newest == {set \in registry : \A other \in registry : other.at <= set.at}
Choose(m) ==
  /\ run[m].pc = "off" /\ UNCHANGED checks
  /\ \/ registry = {} /\ Goes(m, [NoRun EXCEPT !.pc = "skipped"])
     \/ \E set \in Newest : Goes(m, [NoRun EXCEPT !.pc = "read", !.set = set.hash])
ChooseByHash(m) ==
  /\ run[m].pc = "off" /\ UNCHANGED checks
  /\ \E set \in registry : Goes(m, [NoRun EXCEPT !.pc = "read", !.set = set.hash])
\* One query reads the facts; their units and reports are read after it.
ReadFacts(m) ==
  /\ run[m].pc = "read" /\ UNCHANGED checks
  /\ Goes(m, [run[m] EXCEPT !.pc = "ingest", !.units = {Key(u) : u \in ReadFrom}])
SetAlone(hash, keys) == <<hash>> \* slip: the facts are not part of the identity
Identity(hash, keys) == <<hash, keys>>
SetOf(hash) == CHOOSE set \in registry : set.hash = hash
AlreadyDone(m) == {c \in checks : c.id = Identity(run[m].set, run[m].units)}
Ingest(m) ==
  LET s == run[m] facts == FactsOf(s.units) indicators == SetOf(s.set).indicators IN
  /\ s.pc = "ingest" /\ Goes(m, [s EXCEPT !.pc = "succeeded"])
  /\ checks' =
       IF AlreadyDone(m) # {}
       THEN {IF c \in AlreadyDone(m) THEN [c EXCEPT !.runs = @ \cup {m}] ELSE c : c \in checks}
       ELSE checks \cup {[id |-> Identity(s.set, s.units), set |-> s.set, runs |-> {m},
                          matches |-> Matches(facts, indicators), types |-> Summary(facts, indicators),
                          errors |-> ErrorsOf(s.units)]}
\* Nothing is filed; another run may take the failed one's place.
StageFails(m) ==
  /\ run[m].pc \in {"read", "ingest"} /\ Goes(m, NoRun) /\ UNCHANGED checks

\* Bound: one run is under way at a time (for two at once see FactLedger).
OneUnderWay(m) == \A n \in Runs \ {m} : run[n].pc \notin {"read", "ingest"}
ChecksNext ==
  \E m \in Runs : /\ OneUnderWay(m)
                  /\ Choose(m) \/ ChooseByHash(m) \/ ReadFacts(m) \/ Ingest(m) \/ StageFails(m)

-------------------------------------------------------------------------------
Init == BridgeInit /\ RegisterInit /\ ChecksInit
\* Bound: the sets are registered first, as the rest sees nothing of them before
\* they commit.
NoneRegistering == \A r \in Registrars : reg[r].pc = "off"
NothingBegun == stages = 0 /\ \A m \in Runs : run[m].pc = "off"
Next ==
  \/ BridgeNext /\ NoneRegistering /\ UNCHANGED <<setVars, checkVars>>
  \/ NothingBegun /\ RegisterNext /\ UNCHANGED <<bridgeVars, checkVars>>
  \/ ChecksNext /\ NoneRegistering /\ UNCHANGED <<bridgeVars, setVars>>
Spec == Init /\ [][Next]_vars

-------------------------------------------------------------------------------
(* Properties. *)

\* Types; and two transactions never hold the same new row.
TypeOK ==
  /\ disk \in DOMAIN Reports /\ replaced \in 0 .. MaxReplaced /\ stages \in 0 .. MaxStages
  /\ stage.pc \in Resting \cup {"manifest", "open", "artifacts"}
  /\ clock \in 0 .. MaxRegistered /\ contents \subseteq DOMAIN Files
  /\ \A r \in Registrars :
       /\ reg[r].pc \in InRegistration \cup {"off", "registered", "already", "neither"}
       /\ \A q \in Registrars \ {r} : reg[r].locks \cap reg[q].locks = {}
  /\ \A m \in Runs : run[m].pc \in {"off", "skipped", "read", "ingest", "succeeded"}

\* The view indicator_checks: the unit of this run and set.
Shown(m) == {c \in checks : m \in c.runs /\ c.set = run[m].set}

\* A run that succeeded shows one check: of its set, against the facts that were
\* current when it read them, also when another run's check was already there.
RunShowsItsCheck ==
  \A m \in Runs : run[m].pc = "succeeded" =>
    \E c \in checks : /\ Shown(m) = {c}
                      /\ c.matches = Matches(FactsOf(run[m].units), SetOf(run[m].set).indicators)

\* Whatever spelling, an indicator's domain or a domain under it in any mapped
\* fact that a check read is a match, and nothing else is: of names, not of their
\* endings ("notevil.example doesn't").
MatchesAreExact ==
  \A m \in Runs : run[m].pc = "succeeded" =>
    \A c \in Shown(m) : \A f \in FactsOf(run[m].units) : \A ind \in SetOf(run[m].set).indicators :
      ind.type = "domain" =>
        LET names(s, t) == /\ t.is = (IF s.host THEN "url" ELSE "domain") /\ "bad" \notin t.form
                           /\ "leading" \in t.form => s.host \/ s.extract = "cookie_host"
            hit(s) == LET t == f.fields[s.column] n == t.name k == Len(ind.normal.name) IN
                        names(s, t) /\ Len(n) >= k /\ SubSeq(n, Len(n) - k + 1, Len(n)) = ind.normal.name IN
        (\E s \in Sources["domain"] : Holds(s, f) /\ hit(s)) <=> \E x \in c.matches : x.ind = ind /\ x.fact = f

\* No check says that a type was not checked while a fact it read held a value
\* of that type, and none is silent on a type of its set: "no match" is never
\* written without what wasn't checked.
NoSilentNoMatch ==
  \A m \in Runs : run[m].pc = "succeeded" =>
    \A c \in Shown(m) : \A ind \in SetOf(run[m].set).indicators :
      /\ ind.type \in DOMAIN c.types
      /\ c.types[ind.type].status = "checked" <=>
           ind.type \in MatchedTypes /\
             \E f \in FactsOf(run[m].units) : \E s \in Sources[ind.type] :
               Holds(s, f) /\ Reading(ind.type, s, f.fields[s.column]) = "value"
      /\ c.types[ind.type].status # "checked" => ~\E x \in c.matches : x.ind.type = ind.type

\* A check can be relied on, whatever reports were read and read again, and
\* corrected, between one and the next.
ChecksAreSound == TypeOK /\ RunShowsItsCheck /\ MatchesAreExact /\ NoSilentNoMatch
===============================================================================
