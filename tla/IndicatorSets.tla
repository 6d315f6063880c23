---------------------------- MODULE IndicatorSets ----------------------------
(***************************************************************************)
(* Indicator sets: the loader, which accounts for every indicator object of a  *)
(* set's STIX files or rejects the set, and the registry, in which a set is one *)
(* transaction.  Several register.py may run at once; a row another            *)
(* transaction has inserted makes an insert of its key wait.                  *)
(*                                                                         *)
(* A text is its kind, a sequence of labels (a domain's, or one label), the    *)
(* rest (a URL's path, an address's local part), and its form: the ways its    *)
(* spelling differs from the normal one.                                      *)
(***************************************************************************)
EXTENDS Integers, Sequences, FiniteSetsExt

CONSTANTS
  Files,        \* content hash -> what the file holds
  Given,        \* what register.py may be given
  FieldMap,     \* indicator_field_map.json
  Registrars,   \* processes of register.py
  MaxRegistered, \* bound: registrations begun
  None

\* Files are ordered as their hashes.  Given names a set, lists its files in path
\* order, and says where they came from and whether the directory is as it should be.
ASSUME IndicatorSetsAssumption ==
  /\ DOMAIN Files \subseteq Nat /\ IsFiniteSet(DOMAIN Files) /\ MaxRegistered \in Nat
  /\ \A g \in Given :
       {"name", "files", "from", "tidy"} = DOMAIN g /\ g.files \in Seq(DOMAIN Files) /\ g.files # <<>>
\* FieldMap._every_type_accounted_for.
ASSUME EveryTypeAccountedFor ==
  /\ DOMAIN FieldMap.types \cap FieldMap.no_source = {}
  /\ \A p \in DOMAIN FieldMap.paths :
       FieldMap.paths[p] \in DOMAIN FieldMap.types \cup FieldMap.no_source

VARIABLES
  registry, \* the committed sets: [hash, name, at, files, indicators]
  contents, \* the committed files, by hash
  clock,    \* transactions begun
  reg       \* registrar -> its registration

setVars == <<registry, contents, clock, reg>>

-------------------------------------------------------------------------------
(* One normalization for indicators and facts. *)

SupportedTypes == {"domain", "url", "ip", "process_name", "bundle_id", "email", "file_hash", "file_path", "file_name"}
Exact == {"process_name", "file_path", "file_name"}
\* The kinds of text a type reads, and the differences its normal form forgets.
Reads == [type \in SupportedTypes |->
  CASE type \in {"domain", "url", "email", "ip", "file_hash"} -> {type}
    [] OTHER -> {"domain", "url", "email", "ip", "file_hash", "name"}]
Forgets == [type \in SupportedTypes |->
  CASE type \in Exact -> {}
    [] type = "url" -> {"upper", "dot", "port", "fragment", "escape"} \* the path's case is kept
    [] type \in {"domain", "email"} -> {"upper", "dot"}
    [] OTHER -> {"upper"}]
Breaks == [type \in SupportedTypes |-> IF type \in Exact THEN {} ELSE {"bad", "leading"}]
\* What there is to read: only a URL has a port, a fragment or escapes.
Texts ==
  [is : {"domain"}, name : Seq(STRING) \ {<<>>}, rest : {""}, form : SUBSET {"upper", "dot", "leading", "bad"}]
    \cup [is : {"url", "ip", "email", "file_hash", "name"}, name : Seq(STRING) \ {<<>>}, rest : STRING,
          form : SUBSET {"upper", "dot", "port", "fragment", "escape", "leading", "bad"}]
Normalize(type, text) ==
  IF text.is \in Reads[type] /\ text.form \cap Breaks[type] = {}
  THEN [text EXCEPT !.form = @ \ Forgets[type]] ELSE None

-------------------------------------------------------------------------------
(* The loader.  An object is loaded, revoked, or unsupported for one reason; one *)
(* that is not STIX 2.1, or a pattern that does not parse, rejects the set.      *)

Rejects(obj) == obj.bad = "object" \/ (obj.bad = "pattern" /\ ~obj.revoked /\ obj.stix)
FileLoads(f) ==
  /\ Files[f].bundle
  /\ \A a, b \in Files[f].objects : a.id = b.id => a = b
  /\ ~\E obj \in Files[f].objects : Rejects(obj)

TypeOf(path) == IF path \in DOMAIN FieldMap.paths THEN FieldMap.paths[path] ELSE None
Trouble(test) ==
  CASE TypeOf(test.path) = None -> "object_path"
    [] TypeOf(test.path) \notin SupportedTypes \cup {None} -> "indicator_type"
    [] TypeOf(test.path) \in SupportedTypes /\ Normalize(TypeOf(test.path), test.text) = None -> "value"
    [] OTHER -> None
\* All of a pattern or none of it.
PatternReason(obj) ==
  LET wrong == {i \in DOMAIN obj.tests : Trouble(obj.tests[i]) # None} IN
  IF obj.odd # None THEN obj.odd
  ELSE IF wrong = {} THEN None ELSE Trouble(obj.tests[Min(wrong)])
Reason(obj) == IF ~obj.stix THEN "pattern_type" ELSE PatternReason(obj)
Fate(obj) == IF obj.revoked THEN "revoked" ELSE IF Reason(obj) = None THEN "loaded" ELSE "unsupported"

Of(f, fate) == {obj \in Files[f].objects : Fate(obj) = fate}
Loaded == [f \in DOMAIN Files |-> Of(f, "loaded")]
Reasons ==
  {"pattern_type", "operator", "comparison_and", "observation_and", "observation_or", "followedby", "qualifier",
   "object_path", "indicator_type", "value"}
\* An object's pattern is odd in one way or none; one that parses compares something.
ASSUME FilesAssumption ==
  /\ None \notin Reasons \cup Texts
  /\ \A f \in DOMAIN Files : IsFiniteSet(Files[f].objects) /\ \A obj \in Files[f].objects :
       /\ obj.odd \in {None} \cup Reasons /\ obj.tests \in Seq([path : STRING, text : Texts])
       /\ obj.bad \in {"no", "object", "pattern"}
       /\ obj.bad = "no" /\ obj.stix /\ obj.odd = None => obj.tests # <<>>
FileReport(f) ==
  [objects |-> Cardinality(Files[f].objects), loaded |-> Cardinality(Of(f, "loaded")),
   revoked |-> Cardinality(Of(f, "revoked")),
   unsupported |-> [r \in Reasons |-> Cardinality({obj \in Of(f, "unsupported") : Reason(obj) = r})]]
\* One row for each value a loaded object tests for.
AllOfIt(f) == UNION {{obj} \X DOMAIN obj.tests : obj \in Of(f, "loaded")}
Indicators(f) ==
  {LET obj == v[1] test == v[1].tests[v[2]] IN
   [file |-> f, id |-> obj.id, path |-> test.path, type |-> TypeOf(test.path),
    normal |-> Normalize(TypeOf(test.path), test.text), expired |-> obj.expired] : v \in AllOfIt(f)}

FilesOf(g) == {g.files[i] : i \in DOMAIN g.files}
SetLoads(g) == g.tidy /\ g.name # None /\ \A f \in FilesOf(g) : FileLoads(f)
\* Paths, contents and provenance; the name is a label.
SetHash(g) == <<g.files, g.from>>

-------------------------------------------------------------------------------
(* register_set: one transaction, or the set found there already. *)

NotRegistering == [pc |-> "off", given |-> None, at |-> 0, todo |-> {}, locks |-> {}]
InRegistration == {"find", "contents", "set", "files", "indicators", "commit", "refind"}
RegisterInit ==
  /\ registry = {} /\ contents = {} /\ clock = 0
  /\ reg = [r \in Registrars |-> NotRegistering]

Becomes(r, s) == reg' = [reg EXCEPT ![r] = s]
NothingStored == UNCHANGED <<registry, contents>>
HashOf(r) == SetHash(reg[r].given)
IsThere(r) == \E set \in registry : set.hash = HashOf(r)
Waits(r, key) == \E q \in Registrars \ {r} : key \in reg[q].locks

Load(r, g) ==
  /\ reg[r].pc = "off" /\ clock < MaxRegistered /\ SetLoads(g) /\ clock' = clock + 1
  /\ Becomes(r, [NotRegistering EXCEPT !.pc = "find", !.given = g, !.at = clock'])
  /\ NothingStored
FindSet(r) ==
  /\ reg[r].pc = "find" /\ NothingStored /\ UNCHANGED clock
  /\ Becomes(r, IF IsThere(r) THEN [NotRegistering EXCEPT !.pc = "already", !.given = reg[r].given]
                ELSE [reg[r] EXCEPT !.pc = "contents", !.todo = FilesOf(reg[r].given)])
\* ON CONFLICT DO NOTHING, row by row, in the order of the hashes.
InsertContents(r) ==
  LET s == reg[r] IN
  /\ s.pc = "contents" /\ NothingStored /\ UNCHANGED clock
  /\ IF s.todo = {} THEN Becomes(r, [s EXCEPT !.pc = "set"])
     ELSE LET f == Min(s.todo) IN
          /\ ~Waits(r, <<"content", f>>)
          /\ Becomes(r, [s EXCEPT !.todo = @ \ {f},
                                  !.locks = IF f \in contents THEN @ ELSE @ \cup {<<"content", f>>}])
\* Registered meanwhile: the transaction is rolled back.
InsertSet(r) ==
  LET s == reg[r] key == <<"set", HashOf(r)>> IN
  /\ s.pc = "set" /\ ~Waits(r, key) /\ NothingStored /\ UNCHANGED clock
  /\ Becomes(r, IF IsThere(r) THEN [s EXCEPT !.pc = "refind", !.locks = {}]
                ELSE [s EXCEPT !.pc = "files", !.locks = @ \cup {key}])
InsertFiles(r) ==
  /\ reg[r].pc = "files" /\ Becomes(r, [reg[r] EXCEPT !.pc = "indicators"])
  /\ NothingStored /\ UNCHANGED clock
InsertIndicators(r) ==
  /\ reg[r].pc = "indicators" /\ Becomes(r, [reg[r] EXCEPT !.pc = "commit"])
  /\ NothingStored /\ UNCHANGED clock
\* registered_at is the transaction's start.
Row(r) ==
  LET g == reg[r].given IN
  [hash |-> HashOf(r), name |-> g.name, at |-> reg[r].at,
   files |-> [f \in FilesOf(g) |-> FileReport(f)], indicators |-> UNION {Indicators(f) : f \in FilesOf(g)}]
Commit(r) ==
  /\ reg[r].pc = "commit" /\ UNCHANGED clock
  /\ registry' = registry \cup {Row(r)} /\ contents' = contents \cup FilesOf(reg[r].given)
  /\ Becomes(r, [NotRegistering EXCEPT !.pc = "registered", !.given = reg[r].given])
GivesUp(r) == "neither" \* slip: the one that lost does not look again
Refound(r) == IF IsThere(r) THEN "already" ELSE "neither"
Refind(r) ==
  /\ reg[r].pc = "refind" /\ NothingStored /\ UNCHANGED clock
  /\ Becomes(r, [NotRegistering EXCEPT !.pc = Refound(r), !.given = reg[r].given])
\* register.py prints which it was, and exits.
Exit(r) ==
  /\ reg[r].pc \in {"registered", "already", "neither"} /\ Becomes(r, NotRegistering)
  /\ NothingStored /\ UNCHANGED clock
RegistrationFails(r) ==
  /\ reg[r].pc \in InRegistration /\ Becomes(r, NotRegistering) /\ NothingStored /\ UNCHANGED clock

RegisterStep(r) ==
  \/ FindSet(r) \/ InsertContents(r) \/ InsertSet(r) \/ InsertFiles(r) \/ InsertIndicators(r)
  \/ Commit(r) \/ Refind(r) \/ Exit(r)
RegisterNext == \E r \in Registrars : (\E g \in Given : Load(r, g)) \/ RegisterStep(r) \/ RegistrationFails(r)

-------------------------------------------------------------------------------
(* Properties. *)

\* Register.py tells the truth: a set it says is registered, now or already, is
\* there, once, under this hash, with its files' bytes.
RegisteredIsThere ==
  \A r \in Registrars :
    /\ reg[r].pc # "neither"
    /\ reg[r].pc \in {"registered", "already"} =>
         /\ Cardinality({set \in registry : set.hash = HashOf(r)}) = 1
         /\ FilesOf(reg[r].given) \subseteq contents

CountUnsupported(report) == MapThenSumSet(LAMBDA x : report.unsupported[x], Reasons)
\* Every indicator object of a registered file is accounted for once, and what
\* is stored is every value of the objects that count as loaded, and no other's.
EveryObjectAccountedFor ==
  \A set \in registry : \A f \in DOMAIN set.files :
    LET report == set.files[f] IN
    /\ report.loaded + report.revoked + CountUnsupported(report) = report.objects
    /\ {i.id : i \in {i \in set.indicators : i.file = f}} = {obj.id : obj \in Loaded[f]}
    /\ \A obj \in Loaded[f] : \A i \in DOMAIN obj.tests :
         \E ind \in set.indicators : ind.id = obj.id /\ ind.path = obj.tests[i].path

\* Registrations of sets that share files do not end up waiting for each other:
\* of those under way, one can go on.
Blocked(r) ==
  \/ reg[r].pc = "contents" /\ reg[r].todo # {} /\ Waits(r, <<"content", Min(reg[r].todo)>>)
  \/ reg[r].pc = "set" /\ Waits(r, <<"set", HashOf(r)>>)
SomeRegistrationGoesOn ==
  LET underWay == {r \in Registrars : reg[r].pc \in InRegistration} IN
  underWay # {} => \E r \in underWay : ~Blocked(r)

\* Whoever registers what, at once or again: what is called registered is there,
\* each set accounts for its files, and no two registrations stand in each
\* other's way.
RegistryIsSound == RegisteredIsThere /\ EveryObjectAccountedFor /\ SomeRegistrationGoesOn
===============================================================================
