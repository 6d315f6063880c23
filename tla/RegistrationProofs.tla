-------------------------- MODULE RegistrationProofs --------------------------
(***************************************************************************)
(* For any number of migration files, runners, orchestrators and backups: the  *)
(* schema is what its ledger says (SchemaIsTrue), registrations are sound      *)
(* (RegistrationIsSound), and a phone is one device (OneDevicePerPhone).       *)
(***************************************************************************)
EXTENDS Registration, TLAPS

-------------------------------------------------------------------------------
(* The schema.  A runner that applies files has every file that is not on       *)
(* record before it, so the first of them has only recorded ones before it.    *)

RunnerType == [pc : Ended \cup {"scan", "judge", "list", "apply"}, at : 0 .. N + 1, newest : 0 .. N,
               pending : SUBSET Files]
RunnersKnown ==
  \A r \in Runners :
    /\ runner[r].pc = "scan" => runner[r].at \in Files
    /\ runner[r].pc = "apply" => Files \ ledger \subseteq runner[r].pending
SchemaInv == MigTypeOK /\ LedgerIsTrue /\ InOrder /\ RunnersKnown

\* What a runner is, field by field.
LEMMA RunnerFields ==
  ASSUME MigTypeOK, NEW r \in Runners
  PROVE  /\ runner[r] \in RunnerType /\ runner[r].at \in 0 .. N + 1 /\ runner[r].newest \in 0 .. N
         /\ runner[r].pending \subseteq Files
         /\ NotRunning \in RunnerType
BY MigrationsAssumption DEF MigTypeOK, NotRunning, Ended, Files, RunnerType

\* Nothing is on record at first, and nothing is begun.
LEMMA SchemaInit == MigInit => SchemaInv
<1> SUFFICES ASSUME MigInit PROVE SchemaInv OBVIOUS
<1>1. MigTypeOK BY MigrationsAssumption DEF MigInit, MigTypeOK, NotRunning, Ended, Files
<1> QED BY <1>1 DEF MigInit, SchemaInv, LedgerIsTrue, InOrder, NotRunning, RunnersKnown

\* A runner's step disturbs no other runner: the record only grows.
LEMMA RunnerMoves ==
  ASSUME SchemaInv, NEW r \in Runners, NEW s \in RunnerType, runner' = [runner EXCEPT ![r] = s],
         booted' = booted, schema' \in [Files -> 0 .. 2], ledger \subseteq ledger', ledger' \subseteq Files,
         s.pc = "scan" => s.at \in Files, s.pc = "apply" => Files \ ledger' \subseteq s.pending
  PROVE  MigTypeOK' /\ RunnersKnown'
<1>1. runner \in [Runners -> RunnerType] BY DEF SchemaInv, MigTypeOK, RunnerType
<1>2. runner' \in [Runners -> RunnerType] BY <1>1
<1>3. MigTypeOK' BY <1>2 DEF SchemaInv, MigTypeOK, RunnerType
<1>4. \A q \in Runners \ {r} : runner'[q] = runner[q] BY <1>1
<1>5. runner'[r] = s BY <1>1
<1> QED BY <1>3, <1>4, <1>5 DEF SchemaInv, RunnersKnown

\* The first boot goes file by file.
LEMMA BootKeeps == ASSUME SchemaInv, BootStep \/ BootEnds PROVE SchemaInv' /\ ledger' = ledger
<1> USE DEF SchemaInv
<1>1. CASE BootStep
  <2>1. PICK f \in 1 .. booted : /\ ~Whole(f) /\ \A g \in 1 .. f - 1 : Whole(g)
                                 /\ schema' = [schema EXCEPT ![f] = IF f \in OneStep THEN 2 ELSE @ + 1]
    BY <1>1 DEF BootStep
  <2>2. f \in Files /\ schema[f] \in {0, 1} BY <2>1, MigrationsAssumption DEF MigTypeOK, Files, Whole
  <2>3. schema' \in [Files -> 0 .. 2] /\ \A g \in Files \ {f} : schema'[g] = schema[g]
    BY <2>1, <2>2 DEF MigTypeOK
  <2>4. UNCHANGED <<booted, ledger, runner>> BY <1>1 DEF BootStep
  <2>5. MigTypeOK' /\ RunnersKnown' BY <2>3, <2>4 DEF MigTypeOK, RunnersKnown
  <2>6. LedgerIsTrue' BY <2>1, <2>3, <2>4 DEF LedgerIsTrue, Whole, MigTypeOK
  <2>7. \A h \in Files : f \in 1 .. h - 1 => schema[h] = 0
    BY <2>1, <2>2 DEF InOrder, MigTypeOK
  <2>8. InOrder' BY <2>1, <2>2, <2>3, <2>7, MigrationsAssumption DEF InOrder, Whole, Files
  <2> QED BY <2>4, <2>5, <2>6, <2>8
<1>2. CASE BootEnds
  BY <1>2, MigrationsAssumption DEF BootEnds, MigTypeOK, LedgerIsTrue, InOrder, Whole, RunnersKnown
<1> QED BY <1>1, <1>2

\* A runner that judges: the newest file that started, and finished, has only
\* whole files before it.
LEMMA JudgeKeeps == ASSUME SchemaInv, NEW r \in Runners, Judge(r) PROVE SchemaInv' /\ ledger \subseteq ledger'
<1> USE DEF SchemaInv
<1>1. UNCHANGED <<schema, booted>> BY DEF Judge, SchemaStays
<1>2. ledger \subseteq ledger' /\ ledger' \subseteq Files /\ \A f \in ledger' : Whole(f)
  <2>1. CASE /\ runner[r].newest # 0 /\ JudgedFinished(runner[r].newest)
             /\ ledger' = ledger \cup 1 .. runner[r].newest
    <3>1. runner[r].newest \in Files BY <2>1, RunnerFields, MigrationsAssumption DEF Files
    <3>2. Whole(runner[r].newest) BY <2>1 DEF JudgedFinished, Finished
    <3>3. \A g \in 1 .. runner[r].newest : Whole(g) BY <3>1, <3>2 DEF InOrder, Whole, Files
    <3>4. 1 .. runner[r].newest \subseteq Files BY <3>1, MigrationsAssumption DEF Files
    <3>5. ledger \subseteq Files BY DEF MigTypeOK
    <3> QED BY <2>1, <3>3, <3>4, <3>5 DEF LedgerIsTrue
  <2>2. CASE UNCHANGED ledger BY <2>2 DEF LedgerIsTrue, MigTypeOK
  <2> QED BY <2>1, <2>2 DEF Judge
<1>3. PICK s \in RunnerType : s.pc \in {"list", "partial"} /\ runner' = [runner EXCEPT ![r] = s]
  <2>1. CASE runner' = [runner EXCEPT ![r] = [runner[r] EXCEPT !.pc = "list"]]
    BY <2>1, RunnerFields DEF RunnerType
  <2>2. CASE runner' = [runner EXCEPT ![r] = [NotRunning EXCEPT !.pc = "partial"]]
    BY <2>2, RunnerFields DEF RunnerType, Ended
  <2> QED BY <2>1, <2>2 DEF Judge, Becomes
<1>4. MigTypeOK' /\ RunnersKnown' BY <1>1, <1>2, <1>3, RunnerMoves DEF MigTypeOK
<1>5. LedgerIsTrue' /\ InOrder' BY <1>1, <1>2 DEF LedgerIsTrue, InOrder, Whole
<1> QED BY <1>2, <1>4, <1>5

\* A runner applies its first pending file: what is before it is on record.
LEMMA ApplyKeeps == ASSUME SchemaInv, NEW r \in Runners, Apply(r) PROVE SchemaInv' /\ ledger \subseteq ledger'
<1> USE DEF SchemaInv
<1>0. runner[r].pc = "apply" /\ booted' = booted BY DEF Apply
<1>1. ASSUME NEW f \in runner[r].pending, \A g \in runner[r].pending : f <= g, schema[f] = 0, f \notin ledger,
             schema' = [schema EXCEPT ![f] = 2], ledger' = ledger \cup {f},
             runner' = [runner EXCEPT ![r] = [runner[r] EXCEPT !.pending = @ \ {f}]]
      PROVE  SchemaInv' /\ ledger \subseteq ledger'
  <2>1. f \in Files BY <1>1, RunnerFields
  <2>2. \A g \in 1 .. f - 1 : Whole(g)
    <3>1. SUFFICES ASSUME NEW g \in 1 .. f - 1 PROVE Whole(g) OBVIOUS
    <3>2. g \in Files /\ ~(f <= g) BY <2>1, MigrationsAssumption DEF Files
    <3>3. g \in ledger BY <1>0, <1>1, <3>2 DEF RunnersKnown
    <3> QED BY <3>3 DEF LedgerIsTrue
  <2>3. \A h \in Files : f \in 1 .. h - 1 => schema[h] = 0 BY <1>1 DEF InOrder, Whole, MigTypeOK
  <2>4. schema' \in [Files -> 0 .. 2] /\ schema'[f] = 2 /\ \A g \in Files \ {f} : schema'[g] = schema[g]
    BY <1>1, <2>1 DEF MigTypeOK
  <2>5. [runner[r] EXCEPT !.pending = @ \ {f}] \in RunnerType BY RunnerFields DEF RunnerType
  <2>6. Files \ ledger' \subseteq runner[r].pending \ {f} BY <1>0, <1>1 DEF RunnersKnown
  <2>7. MigTypeOK' /\ RunnersKnown'
    <3> DEFINE s == [runner[r] EXCEPT !.pending = @ \ {f}]
    <3>1. s.pc = "apply" /\ s.pending = runner[r].pending \ {f} BY <1>0, RunnerFields DEF RunnerType
    <3>2. ledger \subseteq ledger' /\ ledger' \subseteq Files BY <1>1, <2>1 DEF MigTypeOK
    <3>3. s \in RunnerType /\ runner' = [runner EXCEPT ![r] = s] BY <1>1, <2>5
    <3> HIDE DEF s
    <3> QED BY <1>0, <2>4, <2>6, <3>1, <3>2, <3>3, RunnerMoves
  <2>8. LedgerIsTrue' BY <1>1, <2>1, <2>4 DEF LedgerIsTrue, Whole, MigTypeOK
  <2>9. InOrder' BY <2>1, <2>2, <2>3, <2>4, MigrationsAssumption DEF InOrder, Whole, Files
  <2> QED BY <1>1, <2>7, <2>8, <2>9
<1>2. CASE runner' = [runner EXCEPT ![r] = NotRunning] /\ UNCHANGED <<schema, ledger>>
  <2>1. NotRunning.pc = "off" BY DEF NotRunning
  <2>2. MigTypeOK' /\ RunnersKnown' BY <1>0, <1>2, <2>1, RunnerFields, RunnerMoves DEF MigTypeOK
  <2> QED BY <1>2, <2>2 DEF LedgerIsTrue, InOrder, Whole
<1> QED BY <1>1, <1>2 DEF Apply, Becomes

\* The other steps of a runner write nothing to the database.
LEMMA LooksKeep ==
  ASSUME SchemaInv, NEW r \in Runners, Run(r) \/ Scan(r) \/ List(r) \/ RunnerDies(r)
  PROVE  SchemaInv' /\ ledger' = ledger
<1> USE DEF SchemaInv
<1>1. UNCHANGED <<schema, booted, ledger>> BY DEF Run, Scan, List, RunnerDies, SchemaStays
<1>2. PICK s \in RunnerType :
        /\ runner' = [runner EXCEPT ![r] = s]
        /\ s.pc = "scan" => s.at \in Files
        /\ s.pc = "apply" => Files \ ledger \subseteq s.pending
  <2>1. CASE Run(r)
    <3>0. 1 \in Files /\ 1 \in 0 .. N + 1 BY MigrationsAssumption DEF Files
    <3>1. [NotRunning EXCEPT !.pc = "scan", !.at = 1] \in RunnerType BY <3>0, RunnerFields DEF RunnerType
    <3> QED BY <2>1, <3>0, <3>1 DEF Run, Becomes, NotRunning
  <2>2. CASE Scan(r)
    <3> DEFINE newest == IF Started(runner[r].at) THEN runner[r].at ELSE runner[r].newest
               pc == IF runner[r].at = N THEN "judge" ELSE runner[r].pc
               s == [runner[r] EXCEPT !.newest = newest, !.at = @ + 1, !.pc = pc]
    <3>1. runner[r].pc = "scan" /\ runner[r].at \in 1 .. N BY <2>2 DEF Scan, RunnersKnown, Files
    <3>7. newest \in 0 .. N /\ runner[r].at + 1 \in 0 .. N + 1 BY <3>1, RunnerFields, MigrationsAssumption
    <3>8. pc \in {"judge", "scan"} BY <3>1
    <3>2. s \in RunnerType BY <3>7, <3>8, RunnerFields DEF RunnerType
    <3>3. s.pc = pc /\ s.at = runner[r].at + 1 BY RunnerFields DEF RunnerType
    <3>4. runner' = [runner EXCEPT ![r] = s] BY <2>2 DEF Scan, Becomes
    <3>5. s.pc = "scan" => s.at \in Files BY <3>1, <3>3, MigrationsAssumption DEF Files
    <3>6. s.pc # "apply" BY <3>8, <3>3
    <3> HIDE DEF s
    <3> QED BY <3>2, <3>4, <3>5, <3>6
  <2>3. CASE List(r)
    <3>1. CASE ledger = Files BY <2>3, <3>1, RunnerFields DEF List, Becomes, NotRunning
    <3>2. CASE ledger # Files
      <4>1. [runner[r] EXCEPT !.pc = "apply", !.pending = Files \ ledger] \in RunnerType
        BY RunnerFields DEF RunnerType
      <4> QED BY <2>3, <3>2, <4>1, RunnerFields DEF List, Becomes, RunnerType
    <3> QED BY <3>1, <3>2
  <2>4. CASE RunnerDies(r) BY <2>4, RunnerFields DEF RunnerDies, Becomes, NotRunning
  <2> QED BY <2>1, <2>2, <2>3, <2>4
<1>3. MigTypeOK' /\ RunnersKnown' BY <1>1, <1>2, RunnerMoves DEF MigTypeOK
<1>4. LedgerIsTrue' /\ InOrder' BY <1>1 DEF LedgerIsTrue, InOrder, Whole
<1> QED BY <1>1, <1>3, <1>4

\* Every step keeps the schema's invariant, and what is on record stays there.
LEMMA SchemaStep == ASSUME SchemaInv, [Next]_vars PROVE SchemaInv' /\ ledger \subseteq ledger'
<1>1. CASE MigNext BY <1>1, BootKeeps, JudgeKeeps, ApplyKeeps, LooksKeep DEF MigNext
<1>2. CASE UNCHANGED migVars
  BY <1>2 DEF migVars, SchemaInv, MigTypeOK, LedgerIsTrue, InOrder, Whole, RunnersKnown
<1> QED BY <1>1, <1>2 DEF Next, vars

\* Whichever runners apply the migrations, and wherever one of them or the first
\* boot of the container's database is cut short: what is on record is in the
\* schema, whole, and no file is begun before the earlier ones are whole.
THEOREM SchemaIsWhatItSays == Spec => []SchemaIsTrue
<1>1. Init => SchemaInv BY SchemaInit DEF Init
<1>2. SchemaInv /\ [Next]_vars => SchemaInv' BY SchemaStep
<1>3. SchemaInv => SchemaIsTrue BY DEF SchemaInv, SchemaIsTrue
<1> QED BY <1>1, <1>2, <1>3, PTL DEF Spec

-------------------------------------------------------------------------------
(* A transaction: its rows hide the committed ones of their keys.  What holds    *)
(* of any committed rows R and any open transactions t and u.                  *)

SeenIn(R, t) == {row \in R : \A new \in t.new : new.key # row.key} \cup t.new
FindIn(R, t, key) == {row \in SeenIn(R, t) : row.key = key}
HasIn(R, t, key) == \E row \in SeenIn(R, t) : row.key = key

GoodRows(R) == (\A row \in R : row = Row(row.key, row.val)) /\ (\A a, b \in R : a.key = b.key => a = b)
\* Its rows are locked, one for a key; it tells of those, and no others, that
\* nobody has committed; an item it has written nobody has committed.
GoodTx(R, t, n) ==
  /\ \A row \in t.new : row = Row(row.key, row.val) /\ row.key \in t.locks
  /\ \A a, b \in t.new : a.key = b.key => a = b
  /\ \A e \in t.said :
       /\ e = [about |-> e.about, by |-> n] /\ e.about[1] # "device"
       /\ \E row \in t.new : row.key = e.about
       /\ \A row \in R : row.key # e.about
  /\ \A row \in t.new :
       /\ row.key[1] # "device" => (\E old \in R : old.key = row.key) \/ [about |-> row.key, by |-> n] \in t.said
       /\ row.key[1] = "item" => [about |-> row.key, by |-> n] \in t.said
\* The custody log and the rows tell of the same, once.
ToldIn(R, E) ==
  /\ \A row \in R : row.key[1] # "device" => \E e \in E : e.about = row.key
  /\ \A e \in E : \E row \in R : row.key = e.about /\ row.key[1] # "device"
  /\ \A d, e \in E : d.about = e.about => d = e

LEMMA Empty == ASSUME NEW R, NEW n PROVE GoodTx(R, NoTx, n) /\ SeenIn(R, NoTx) = R
BY DEF GoodTx, SeenIn, NoTx

\* What an upsert leaves to be found.
Found(R, t, u, key, val) ==
  /\ FindIn(R, u, key) = {Row(key, val)}
  /\ \A k : k # key => FindIn(R, u, k) = FindIn(R, t, k)
  /\ \A k : HasIn(R, t, k) => HasIn(R, u, k)
LEMMA PutFinds ==
  ASSUME NEW R, NEW t, NEW u, NEW key, NEW val, u.new = {old \in t.new : old.key # key} \cup {Row(key, val)}
  PROVE  Found(R, t, u, key, val)
<1>0. Row(key, val).key = key BY DEF Row
<1>1. FindIn(R, u, key) = {Row(key, val)} BY <1>0 DEF FindIn, SeenIn
<1>2. ASSUME NEW k, k # key PROVE FindIn(R, u, k) = FindIn(R, t, k)
  <2>1. ASSUME NEW row, row.key = k PROVE row \in SeenIn(R, u) <=> row \in SeenIn(R, t)
    BY <1>0, <1>2, <2>1 DEF SeenIn
  <2> QED BY <2>1 DEF FindIn
<1>3. \A k : HasIn(R, t, k) => HasIn(R, u, k) BY <1>0 DEF HasIn, SeenIn
<1> QED BY <1>1, <1>2, <1>3 DEF Found

\* An upsert that tells of its key where it is new keeps a transaction good.
LEMMA PutGood ==
  ASSUME NEW R, NEW t, NEW u, NEW n, NEW key, NEW val, NEW said, GoodTx(R, t, n),
         u.locks = t.locks \cup {key}, u.new = {old \in t.new : old.key # key} \cup {Row(key, val)},
         u.said = t.said \cup said, said \subseteq {[about |-> key, by |-> n]},
         said # {} => key[1] # "device" /\ ~HasIn(R, t, key),
         key[1] # "device" => HasIn(R, t, key) \/ said # {},
         key[1] = "item" => said # {}
  PROVE  GoodTx(R, u, n)
<1>0. Row(key, val).key = key /\ Row(key, val) = Row(Row(key, val).key, Row(key, val).val) BY DEF Row
<1> DEFINE ev == [about |-> key, by |-> n]
<1>E. ev.about = key /\ ev = [about |-> ev.about, by |-> n] OBVIOUS
<1>S. (said = {} \/ said = {ev}) /\ (said # {} => ev \in u.said) OBVIOUS
<1> HIDE DEF ev
<1>1. \A row \in u.new : row = Row(row.key, row.val) /\ row.key \in u.locks BY <1>0 DEF GoodTx
<1>2. \A a, b \in u.new : a.key = b.key => a = b BY <1>0 DEF GoodTx
<1>3. ASSUME NEW e \in u.said
      PROVE  /\ e = [about |-> e.about, by |-> n] /\ e.about[1] # "device"
             /\ \E row \in u.new : row.key = e.about
             /\ \A row \in R : row.key # e.about
  <2>1. CASE e \in t.said
    <3>1. PICK row \in t.new : row.key = e.about BY <2>1 DEF GoodTx
    <3>2. \E new \in u.new : new.key = e.about BY <3>1, <1>0
    <3> QED BY <2>1, <3>2 DEF GoodTx
  <2>2. CASE e = ev /\ said # {}
    <3>1. \A row \in R : row.key # key BY <2>2 DEF HasIn, SeenIn
    <3> QED BY <2>2, <1>0, <1>E, <3>1
  <2> QED BY <2>1, <2>2, <1>S
<1>4. ASSUME NEW row \in u.new
      PROVE  /\ row.key[1] # "device" => (\E old \in R : old.key = row.key) \/ [about |-> row.key, by |-> n] \in u.said
             /\ row.key[1] = "item" => [about |-> row.key, by |-> n] \in u.said
  <2>1. CASE row \in t.new BY <2>1 DEF GoodTx
  <2>2. CASE row = Row(key, val)
    <3>1. CASE said # {} BY <2>2, <3>1, <1>0, <1>S DEF ev
    <3>2. CASE said = {} /\ key[1] # "device"
      <4>1. HasIn(R, t, key) /\ key[1] # "item" BY <3>2
      <4>2. (\E old \in R : old.key = key) \/ [about |-> key, by |-> n] \in t.said BY <4>1, <3>2 DEF HasIn, SeenIn, GoodTx
      <4> QED BY <2>2, <1>0, <4>1, <4>2
    <3>3. CASE said = {} /\ key[1] = "device" BY <2>2, <1>0, <3>3
    <3> QED BY <3>1, <3>2, <3>3
  <2> QED BY <2>1, <2>2
<1> QED BY <1>1, <1>2, <1>3, <1>4 DEF GoodTx

\* A commit of u takes nothing away from an open transaction t, which waited for
\* none of its rows, and leaves the items t has found.
LEMMA CommitFinds ==
  ASSUME NEW R, NEW t, NEW u, NEW n, NEW m, GoodTx(R, t, n), GoodTx(R, u, m), t.locks \cap u.locks = {}
  PROVE  /\ GoodTx(SeenIn(R, u), t, n)
         /\ \A k : HasIn(R, t, k) => HasIn(SeenIn(R, u), t, k)
         /\ \A k : k[1] = "item" /\ HasIn(R, t, k) => FindIn(SeenIn(R, u), t, k) = FindIn(R, t, k)
<1>1. \A k : (\E row \in R : row.key = k) => \E row \in SeenIn(R, u) : row.key = k BY DEF SeenIn
<1>2. \A e \in t.said : \A row \in SeenIn(R, u) : row.key # e.about BY DEF GoodTx, SeenIn
<1>3. GoodTx(SeenIn(R, u), t, n)
  <2>1. ASSUME NEW row \in t.new, row.key[1] # "device"
        PROVE  (\E old \in SeenIn(R, u) : old.key = row.key) \/ [about |-> row.key, by |-> n] \in t.said
    BY <1>1, <2>1 DEF GoodTx
  <2> QED BY <1>2, <2>1 DEF GoodTx
<1>4. ASSUME NEW k, HasIn(R, t, k) PROVE HasIn(SeenIn(R, u), t, k)
  <2>1. CASE \E row \in t.new : row.key = k BY <2>1 DEF HasIn, SeenIn
  <2>2. CASE ~\E row \in t.new : row.key = k
    <3>1. \E row \in R : row.key = k BY <1>4, <2>2 DEF HasIn, SeenIn
    <3>2. PICK row \in SeenIn(R, u) : row.key = k BY <1>1, <3>1
    <3>3. row \in SeenIn(SeenIn(R, u), t) BY <2>2, <3>2 DEF SeenIn
    <3> QED BY <3>2, <3>3 DEF HasIn
  <2> QED BY <2>1, <2>2
<1>5. ASSUME NEW k, k[1] = "item", HasIn(R, t, k) PROVE FindIn(SeenIn(R, u), t, k) = FindIn(R, t, k)
  <2>1. CASE \E row \in t.new : row.key = k BY <2>1 DEF FindIn, SeenIn
  <2>2. CASE ~\E row \in t.new : row.key = k
    <3>1. \E row \in R : row.key = k BY <1>5, <2>2 DEF HasIn, SeenIn
    <3>2. ASSUME NEW row \in u.new, row.key = k PROVE FALSE
      <4>1. PICK e \in u.said : e = [about |-> k, by |-> m] BY <1>5, <3>2 DEF GoodTx
      <4>2. e.about = k BY <4>1
      <4> QED BY <3>1, <4>2 DEF GoodTx
    <3> QED BY <2>2, <3>2 DEF FindIn, SeenIn
  <2> QED BY <2>1, <2>2
<1> QED BY <1>3, <1>4, <1>5

\* A commit keeps the committed rows one for a key.
LEMMA CommitRows ==
  ASSUME NEW R, NEW t, NEW n, GoodRows(R), GoodTx(R, t, n)
  PROVE  GoodRows(SeenIn(R, t))
<1>1. ASSUME NEW row \in SeenIn(R, t) PROVE row = Row(row.key, row.val)
  <2>1. CASE row \in R BY <2>1 DEF GoodRows
  <2>2. CASE row \in t.new BY <2>2 DEF GoodTx
  <2> QED BY <2>1, <2>2 DEF SeenIn
<1>2. ASSUME NEW a \in SeenIn(R, t), NEW b \in SeenIn(R, t), a.key = b.key PROVE a = b
  <2>1. CASE a \in t.new /\ b \in t.new BY <1>2, <2>1 DEF GoodTx
  <2>2. CASE a \notin t.new /\ b \notin t.new BY <1>2, <2>2 DEF GoodRows, SeenIn
  <2>3. CASE (a \in t.new) # (b \in t.new) BY <1>2, <2>3 DEF SeenIn
  <2> QED BY <2>1, <2>2, <2>3
<1> QED BY <1>1, <1>2 DEF GoodRows

\* And the custody log tells of the new ones.
LEMMA CommitTold ==
  ASSUME NEW R, NEW E, NEW t, NEW n, ToldIn(R, E), GoodTx(R, t, n)
  PROVE  ToldIn(SeenIn(R, t), E \cup t.said)
<1>1. ASSUME NEW row \in SeenIn(R, t), row.key[1] # "device" PROVE \E e \in E \cup t.said : e.about = row.key
  <2>1. CASE row \in R BY <1>1, <2>1 DEF ToldIn
  <2>2. CASE row \in t.new
    <3>1. (\E old \in R : old.key = row.key) \/ [about |-> row.key, by |-> n] \in t.said BY <1>1, <2>2 DEF GoodTx
    <3>2. [about |-> row.key, by |-> n].about = row.key OBVIOUS
    <3>3. CASE [about |-> row.key, by |-> n] \in t.said BY <3>2, <3>3
    <3>4. CASE \E old \in R : old.key = row.key BY <1>1, <3>4 DEF ToldIn
    <3> QED BY <3>1, <3>3, <3>4
  <2> QED BY <2>1, <2>2 DEF SeenIn
<1>2. ASSUME NEW e \in E \cup t.said PROVE \E row \in SeenIn(R, t) : row.key = e.about /\ row.key[1] # "device"
  <2>1. CASE e \in E
    <3>1. PICK row \in R : row.key = e.about /\ row.key[1] # "device" BY <2>1 DEF ToldIn
    <3> QED BY <3>1 DEF SeenIn
  <2>2. CASE e \in t.said BY <2>2 DEF GoodTx, SeenIn
  <2> QED BY <2>1, <2>2
<1>3. ASSUME NEW d \in E \cup t.said, NEW e \in E \cup t.said, d.about = e.about PROVE d = e
  <2>1. CASE d \in E /\ e \in E BY <1>3, <2>1 DEF ToldIn
  <2>2. CASE d \in t.said /\ e \in t.said BY <1>3, <2>2 DEF GoodTx
  <2>3. CASE (d \in E /\ e \in t.said) \/ (d \in t.said /\ e \in E) BY <1>3, <2>3 DEF ToldIn, GoodTx
  <2> QED BY <2>1, <2>2, <2>3
<1> QED BY <1>1, <1>2, <1>3 DEF ToldIn

-------------------------------------------------------------------------------
(* A registration.  Sound(R, s): what one in state s may rely on while R is      *)
(* committed.                                                               *)

Located == {"location", "decrypted", "ileapp", "crash", "commit", "done"}
Places == InTx \cup {"idle", "verify", "link", "read", "done"}

ItemOf(s) == <<"item", s.in.content>>
LocationOf(s) == <<"location", s.in.content, s.in.place>>
DecryptOf(s) == <<"decrypted", s.in.content, None, s.in.decrypt.prov>>
IleappOf(s) == <<"ileapp_output", s.in.content, DecryptOf(s), s.in.ileapp.prov>>
CrashOf(s) == <<"crash_reports", s.in.content, None, s.in.crash.prov>>

\* What it has seen to is there for it, its item with the device it will hand over.
FoundIn(R, s) ==
  /\ s.pc \in Located => FindIn(R, s.tx, ItemOf(s)) = {Row(ItemOf(s), s.device)}
  /\ s.pc \in Located \ {"location"} => HasIn(R, s.tx, LocationOf(s))
  /\ s.pc \in {"ileapp", "crash", "commit", "done"} => HasIn(R, s.tx, DecryptOf(s))
  /\ s.pc \in {"crash", "commit", "done"} /\ s.in.ileapp # None => HasIn(R, s.tx, IleappOf(s))
  /\ s.pc \in {"commit", "done"} /\ s.in.crash # None => HasIn(R, s.tx, CrashOf(s))
IsProc(s) ==
  /\ s \in [pc : Places, in : {s.in}, n : 0 .. MaxRegistrations, key : {s.key}, device : {s.device}, tx : {s.tx}]
  /\ s.pc \notin InTx => s.tx = NoTx
Sound(R, s) == IsProc(s) /\ GoodTx(R, s.tx, s.n) /\ FoundIn(R, s)

RegInv ==
  /\ SchemaInv
  /\ proc = [p \in Procs |-> proc[p]]
  /\ secret \in 0 .. MaxRegistrations \cup {None} /\ begun \in 0 .. MaxRegistrations
  /\ GoodRows(rows) /\ ToldIn(rows, events)
  /\ \A p \in Procs : Sound(rows, proc[p])
  /\ \A p, q \in Procs : p # q => proc[p].tx.locks \cap proc[q].tx.locks = {}
  /\ (rows # {} \/ \E p \in Procs : proc[p].pc # "idle") => ledger = Files

LEMMA IdleIsSound == ASSUME NEW R PROVE Sound(R, Idle)
<1>1. IsProc(Idle) BY RegistrationAssumption DEF IsProc, Idle, Places, NoTx
<1> QED BY <1>1, Empty DEF Sound, FoundIn, Idle, Located

\* No registration has begun, and nothing is there.
LEMMA RegInit == Init => RegInv
<1> SUFFICES ASSUME Init PROVE RegInv OBVIOUS
<1>1. SchemaInv BY SchemaInit DEF Init
<1>2. \A p \in Procs : proc[p] = Idle BY DEF Init
<1>3. \A p \in Procs : Sound(rows, proc[p]) BY <1>2, IdleIsSound
<1>4. \A p, q \in Procs : proc[p].tx.locks \cap proc[q].tx.locks = {} BY <1>2 DEF Idle, NoTx
<1>5. GoodRows(rows) /\ ToldIn(rows, events) BY DEF Init, GoodRows, ToldIn
<1>6. Idle.pc = "idle" BY DEF Idle
<1> QED BY <1>1, <1>2, <1>3, <1>4, <1>5, <1>6, RegistrationAssumption DEF Init, RegInv

\* A registration's step that commits nothing disturbs no other.
LEMMA LocalStep ==
  ASSUME RegInv, NEW p \in Procs, NEW s, proc' = [proc EXCEPT ![p] = s], UNCHANGED <<rows, events, migVars>>,
         secret' \in 0 .. MaxRegistrations \cup {None}, begun' \in 0 .. MaxRegistrations, Sound(rows, s),
         \A q \in Procs \ {p} : s.tx.locks \cap proc[q].tx.locks = {}, ledger = Files
  PROVE  RegInv'
<1> USE DEF RegInv
<1>1. proc'[p] = s /\ \A q \in Procs \ {p} : proc'[q] = proc[q] OBVIOUS
<1>2. SchemaInv' BY DEF migVars, SchemaInv, MigTypeOK, LedgerIsTrue, InOrder, Whole, RunnersKnown
<1>3. proc' = [q \in Procs |-> proc'[q]] OBVIOUS
<1>4. \A q \in Procs : Sound(rows, proc'[q]) BY <1>1
<1>5. \A q, r \in Procs : q # r => proc'[q].tx.locks \cap proc'[r].tx.locks = {} BY <1>1
<1> QED BY <1>2, <1>3, <1>4, <1>5 DEF migVars

\* What a step of a registration finds: the schema is whole, and its committed rows
\* with its own are one for a key.
LEMMA Here == ASSUME RegInv, NEW p \in Procs
              PROVE  /\ Sound(rows, proc[p]) /\ Seen(p) = SeenIn(rows, proc[p].tx) /\ GoodRows(Seen(p))
                     /\ proc[p].pc # "idle" => ledger = Files
                     /\ \A q \in Procs \ {p} : proc[p].tx.locks \cap proc[q].tx.locks = {}
<1>1. Seen(p) = SeenIn(rows, proc[p].tx) BY DEF Seen, SeenIn
<1>2. GoodTx(rows, proc[p].tx, proc[p].n) /\ Sound(rows, proc[p]) BY DEF RegInv, Sound
<1>3. GoodRows(Seen(p)) BY <1>1, <1>2, CommitRows DEF RegInv
<1> QED BY <1>1, <1>2, <1>3 DEF RegInv

\* A step that leaves its transaction as it is, or gives it up.
LEMMA Onward ==
  ASSUME RegInv, NEW p \in Procs, NEW s, proc' = [proc EXCEPT ![p] = s], UNCHANGED <<rows, events, migVars>>,
         secret' \in 0 .. MaxRegistrations \cup {None}, begun' \in 0 .. MaxRegistrations, ledger = Files,
         IsProc(s), s.tx = NoTx \/ (s.tx = proc[p].tx /\ s.n = proc[p].n), FoundIn(rows, s)
  PROVE  RegInv'
<1>1. Sound(rows, s) BY Empty, Here DEF Sound
<1>2. \A q \in Procs \ {p} : s.tx.locks \cap proc[q].tx.locks = {} BY Here DEF NoTx
<1> QED BY <1>1, <1>2, LocalStep

\* What comes before the transaction, and its end without a commit.
LEMMA BeforeKeeps ==
  ASSUME RegInv, NEW p \in Procs,
         (\E b \in Backups : Start(p, b)) \/ Verify(p) \/ Link(p) \/ Read(p) \/ Fails(p), UNCHANGED migVars
  PROVE  RegInv'
<1>I. IsProc(proc[p]) /\ (proc[p].pc # "idle" => ledger = Files) BY Here DEF Sound
<1>J. IsProc(Idle) /\ Idle.tx = NoTx /\ FoundIn(rows, Idle) BY IdleIsSound DEF Sound, Idle
<1>R. secret \in 0 .. MaxRegistrations \cup {None} /\ begun \in 0 .. MaxRegistrations BY DEF RegInv
<1>1. ASSUME NEW b \in Backups, Start(p, b) PROVE RegInv'
  <2> DEFINE s == [Idle EXCEPT !.pc = "verify", !.in = b, !.n = begun']
  <2>5. MaxRegistrations \in Nat BY RegistrationAssumption
  <2>6. begun < MaxRegistrations /\ begun' = begun + 1 BY <1>1 DEF Start
  <2>1. begun' \in 0 .. MaxRegistrations BY <1>R, <2>5, <2>6
  <2>2. IsProc(s) /\ s.tx = NoTx /\ s.pc = "verify" BY <2>1 DEF IsProc, Idle, Places, NoTx
  <2>3. FoundIn(rows, s) BY <2>2 DEF FoundIn, Located
  <2>4. proc' = [proc EXCEPT ![p] = s] /\ UNCHANGED <<rows, events, secret>> /\ ledger = Files
    BY <1>1 DEF Start, Goes, DbStays, Upgraded
  <2> HIDE DEF s
  <2> QED BY <1>R, <2>1, <2>2, <2>3, <2>4, Onward
<1>2. ASSUME NEW s, proc[p].pc \in {"verify", "link", "read"}, Goes(p, s), DbStays, UNCHANGED begun,
             s \in [pc : {"link", "read", "known"}, in : {proc[p].in}, n : {proc[p].n}, key : {s.key},
                    device : {proc[p].device}, tx : {proc[p].tx}],
             secret' \in 0 .. MaxRegistrations \cup {None}
      PROVE  RegInv'
  <2>1. IsProc(s) /\ s.tx = proc[p].tx /\ s.n = proc[p].n BY <1>I, <1>2 DEF IsProc, InTx, Places
  <2>2. FoundIn(rows, s) BY <1>2 DEF FoundIn, Located
  <2>3. ledger = Files BY <1>I, <1>2
  <2>4. proc' = [proc EXCEPT ![p] = s] /\ UNCHANGED <<rows, events>> BY <1>2 DEF DbStays, Goes
  <2> QED BY <1>R, <1>2, <2>1, <2>2, <2>3, <2>4, Onward
<1>3. ASSUME proc[p].pc # "idle", Ends(p), Stays PROVE RegInv'
  <2>1. proc' = [proc EXCEPT ![p] = Idle] /\ UNCHANGED <<rows, events, secret, begun>>
    BY <1>3 DEF Ends, Goes, Stays, DbStays
  <2>2. ledger = Files BY <1>I, <1>3
  <2> QED BY <1>J, <1>R, <2>1, <2>2, Onward
<1>4. CASE Verify(p)
  <2>1. CASE Ends(p) BY <1>3, <1>4, <2>1 DEF Verify, At
  <2>2. ASSUME NEW next \in {"link", "read"}, Goes(p, [proc[p] EXCEPT !.pc = next]) PROVE RegInv'
    <3> DEFINE s == [proc[p] EXCEPT !.pc = next]
    <3>1. s \in [pc : {"link", "read", "known"}, in : {proc[p].in}, n : {proc[p].n}, key : {s.key},
                 device : {proc[p].device}, tx : {proc[p].tx}]
      BY <1>I DEF IsProc
    <3> HIDE DEF s
    <3> QED BY <1>2, <1>4, <1>R, <2>2, <3>1 DEF Verify, At, Stays, s
  <2> QED BY <1>4, <2>1, <2>2 DEF Verify
<1>5. CASE Link(p)
  <2> DEFINE s == [proc[p] EXCEPT !.pc = "read"]
  <2>1. secret' \in 0 .. MaxRegistrations \cup {None} BY <1>5, <1>I, <1>R DEF Link, Linked, IsProc
  <2>2. s \in [pc : {"link", "read", "known"}, in : {proc[p].in}, n : {proc[p].n}, key : {s.key},
               device : {proc[p].device}, tx : {proc[p].tx}]
    BY <1>I DEF IsProc
  <2>3. Goes(p, s) /\ DbStays /\ UNCHANGED begun /\ proc[p].pc = "link" BY <1>5 DEF Link, At
  <2> HIDE DEF s
  <2> QED BY <1>2, <2>1, <2>2, <2>3
<1>6. CASE Read(p)
  <2>1. CASE Ends(p) BY <1>3, <1>6, <2>1 DEF Read, At
  <2> DEFINE s == [proc[p] EXCEPT !.pc = "known", !.key = <<proc[p].in.phone, secret>>]
  <2>2. CASE Goes(p, s)
    <3>1. s \in [pc : {"link", "read", "known"}, in : {proc[p].in}, n : {proc[p].n}, key : {s.key},
                 device : {proc[p].device}, tx : {proc[p].tx}]
      BY <1>I DEF IsProc
    <3>2. DbStays /\ UNCHANGED <<begun, secret>> /\ proc[p].pc = "read" BY <1>6 DEF Read, At, Stays
    <3> HIDE DEF s
    <3> QED BY <1>2, <1>R, <2>2, <3>1, <3>2
  <2> QED BY <1>6, <2>1, <2>2 DEF Read
<1>7. CASE Fails(p) BY <1>3, <1>7 DEF Fails
<1> QED BY <1>1, <1>4, <1>5, <1>6, <1>7

\* The item is found: its row is the only one of its key, and gives the device.
LEMMA Finds ==
  ASSUME RegInv, NEW p \in Procs, NEW row \in Find(p, ItemKey(p)), proc[p].pc \in {"known", "raced"}, Stays,
         Goes(p, [proc[p] EXCEPT !.pc = "location", !.device = row.val]), UNCHANGED migVars
  PROVE  RegInv'
<1> DEFINE s == [proc[p] EXCEPT !.pc = "location", !.device = row.val]
<1>1. IsProc(proc[p]) /\ ledger = Files BY Here DEF Sound
<1>2. IsProc(s) /\ s.tx = proc[p].tx /\ s.n = proc[p].n /\ s.pc = "location" /\ s.device = row.val /\ s.in = proc[p].in
  BY <1>1 DEF IsProc, InTx, Places
<1>3. row \in SeenIn(rows, proc[p].tx) /\ row.key = ItemOf(s) BY <1>2, Here DEF Find, ItemOf, ItemKey, Content
<1>4. row = Row(ItemOf(s), s.device) BY <1>2, <1>3, Here DEF GoodRows
<1>5. FindIn(rows, s.tx, ItemOf(s)) = {row} BY <1>2, <1>3, Here DEF FindIn, GoodRows
<1>6. FoundIn(rows, s) BY <1>2, <1>4, <1>5 DEF FoundIn
<1>7. secret' \in 0 .. MaxRegistrations \cup {None} /\ begun' \in 0 .. MaxRegistrations BY DEF RegInv, Stays
<1>8. proc' = [proc EXCEPT ![p] = s] /\ UNCHANGED <<rows, events>> BY DEF Goes, Stays, DbStays
<1> HIDE DEF s
<1> QED BY <1>1, <1>2, <1>6, <1>7, <1>8, Onward

\* A row written: it is locked, which nobody else had done, and found from then on.
LEMMA PutKeeps ==
  ASSUME RegInv, NEW p \in Procs, NEW s, NEW key, NEW val, NEW said, ~Waits(p, key), Stays, UNCHANGED migVars,
         proc[p].pc \in InTx,
         s \in [pc : InTx, in : {proc[p].in}, n : {proc[p].n}, key : {s.key}, device : {s.device}, tx : {proc[p].tx}],
         Puts(p, Row(key, val), said, s), said \subseteq {Event(p, key)},
         said # {} => key[1] # "device" /\ Find(p, key) = {},
         key[1] # "device" => Find(p, key) # {} \/ said # {}, key[1] = "item" => said # {},
         \A u : u.new = {old \in proc[p].tx.new : old.key # key} \cup {Row(key, val)} =>
           FoundIn(rows, [s EXCEPT !.tx = u])
  PROVE  RegInv'
<1> DEFINE t == proc[p].tx
           u == [locks |-> t.locks \cup {key}, new |-> {old \in t.new : old.key # key} \cup {Row(key, val)},
                 said |-> t.said \cup said]
           z == [s EXCEPT !.tx = u]
<1>0. Row(key, val).key = key BY DEF Row
<1>1. proc' = [proc EXCEPT ![p] = z] BY <1>0 DEF Puts, Goes
<1>2. IsProc(proc[p]) /\ GoodTx(rows, t, proc[p].n) /\ ledger = Files BY Here DEF Sound, InTx
<1>3. IsProc(z) /\ z.tx = u /\ z.n = proc[p].n BY <1>2 DEF IsProc, Places
<1>4. Find(p, key) = {} <=> ~HasIn(rows, t, key) BY Here DEF Find, HasIn
<1>5. GoodTx(rows, u, proc[p].n) BY <1>2, <1>4, PutGood DEF Event
<1>6. FoundIn(rows, z) OBVIOUS
<1>7. \A q \in Procs \ {p} : u.locks \cap proc[q].tx.locks = {} BY Here DEF Waits
<1>8. secret' \in 0 .. MaxRegistrations \cup {None} /\ begun' \in 0 .. MaxRegistrations BY DEF RegInv, Stays
<1>9. Sound(rows, z) BY <1>3, <1>5, <1>6 DEF Sound
<1>10. UNCHANGED <<rows, events, migVars>> BY DEF Stays, DbStays
<1>11. \A q \in Procs \ {p} : z.tx.locks \cap proc[q].tx.locks = {} BY <1>3, <1>7
<1> HIDE DEF z
<1> QED BY <1>1, <1>2, <1>8, <1>9, <1>10, <1>11, LocalStep

\* A step that writes no row: its transaction stays, and it goes on to next.
LEMMA MovesOn ==
  ASSUME RegInv, NEW p \in Procs, NEW next \in Places \ {"idle"}, Stays, UNCHANGED migVars, proc[p].pc # "idle",
         next \notin InTx => proc[p].tx = NoTx, Goes(p, [proc[p] EXCEPT !.pc = next]),
         FoundIn(rows, [proc[p] EXCEPT !.pc = next])
  PROVE  RegInv'
<1> DEFINE s == [proc[p] EXCEPT !.pc = next]
<1>1. IsProc(proc[p]) /\ ledger = Files BY Here DEF Sound
<1>2. IsProc(s) /\ s.tx = proc[p].tx /\ s.n = proc[p].n BY <1>1 DEF IsProc
<1>3. secret' \in 0 .. MaxRegistrations \cup {None} /\ begun' \in 0 .. MaxRegistrations BY DEF RegInv, Stays
<1>4. proc' = [proc EXCEPT ![p] = s] /\ UNCHANGED <<rows, events>> /\ FoundIn(rows, s) BY DEF Goes, Stays, DbStays
<1> HIDE DEF s
<1> QED BY <1>1, <1>2, <1>3, <1>4, Onward

\* The device and the item: the item is written by whoever finds none, or found.
LEMMA ItemKeeps ==
  ASSUME RegInv, NEW p \in Procs, Known(p) \/ Device(p) \/ Item(p) \/ Raced(p), UNCHANGED migVars
  PROVE  RegInv'
<1>I. IsProc(proc[p]) BY Here DEF Sound
<1>1. CASE Known(p)
  <2>1. CASE Find(p, ItemKey(p)) # {} BY <1>1, <2>1, Finds DEF Known, At
  <2>2. CASE Find(p, ItemKey(p)) = {}
    <3>1. [proc[p] EXCEPT !.pc = "device"].pc = "device" BY <1>I DEF IsProc
    <3>2. FoundIn(rows, [proc[p] EXCEPT !.pc = "device"]) BY <3>1 DEF FoundIn, Located
    <3> QED BY <1>1, <2>2, <3>2, MovesOn DEF Known, At, InTx, Places
  <2> QED BY <2>1, <2>2
<1>2. CASE Device(p)
  <2> DEFINE s == [proc[p] EXCEPT !.pc = "item"]
             key == <<"device", proc[p].key>>
  <2>1. s \in [pc : InTx, in : {proc[p].in}, n : {proc[p].n}, key : {s.key}, device : {s.device}, tx : {proc[p].tx}]
        /\ s.pc = "item"
    BY <1>I DEF IsProc, InTx
  <2>2. key[1] = "device" OBVIOUS
  <2>3. \A u : FoundIn(rows, [s EXCEPT !.tx = u]) BY <2>1 DEF FoundIn, Located
  <2>4. proc[p].pc \in InTx /\ ~Waits(p, key) /\ Stays /\ Puts(p, Row(key, None), {}, s)
    BY <1>2 DEF Device, Upsert, At, InTx
  <2> HIDE DEF s, key
  <2> QED BY <2>1, <2>2, <2>3, <2>4, PutKeeps
<1>3. CASE Item(p)
  <2>1. CASE Find(p, ItemKey(p)) = {}
    <3> DEFINE s == [proc[p] EXCEPT !.pc = "location", !.device = proc[p].key]
               key == ItemKey(p)
    <3>1. s \in [pc : InTx, in : {proc[p].in}, n : {proc[p].n}, key : {s.key}, device : {s.device}, tx : {proc[p].tx}]
          /\ s.pc = "location" /\ s.device = proc[p].key
      BY <1>I DEF IsProc, InTx
    <3>2. key[1] = "item" BY DEF ItemKey
    <3>3. ASSUME NEW u, u.new = {old \in proc[p].tx.new : old.key # key} \cup {Row(key, proc[p].key)}
          PROVE  FoundIn(rows, [s EXCEPT !.tx = u])
      <4>1. [s EXCEPT !.tx = u].pc = "location" /\ [s EXCEPT !.tx = u].tx = u
            /\ [s EXCEPT !.tx = u].in = proc[p].in /\ [s EXCEPT !.tx = u].device = proc[p].key
        BY <3>1
      <4>2. FindIn(rows, u, key) = {Row(key, proc[p].key)} BY <3>3, PutFinds DEF Found
      <4> QED BY <4>1, <4>2 DEF FoundIn, ItemOf, ItemKey, Content
    <3>4. /\ proc[p].pc \in InTx /\ ~Waits(p, key) /\ Stays
          /\ Puts(p, Row(key, proc[p].key), {Event(p, key)}, s) /\ Find(p, key) = {}
      BY <1>3, <2>1 DEF Item, At, InTx
    <3> HIDE DEF s, key
    <3> QED BY <3>1, <3>2, <3>3, <3>4, PutKeeps
  <2>2. CASE Find(p, ItemKey(p)) # {}
    <3>1. [proc[p] EXCEPT !.pc = "raced"].pc = "raced" BY <1>I DEF IsProc
    <3>2. FoundIn(rows, [proc[p] EXCEPT !.pc = "raced"]) BY <3>1 DEF FoundIn, Located
    <3> QED BY <1>3, <2>2, <3>2, MovesOn DEF Item, At, InTx, Places
  <2> QED BY <2>1, <2>2
<1>4. CASE Raced(p) BY <1>4, Finds DEF Raced, At
<1> QED BY <1>1, <1>2, <1>3, <1>4

\* One that has gone on, in another transaction of its own.
After(s, next, u) == [[s EXCEPT !.pc = next] EXCEPT !.tx = u]
LEMMA AfterIs ==
  ASSUME NEW s, NEW next, NEW u, IsProc(s)
  PROVE  /\ After(s, next, u).pc = next /\ After(s, next, u).tx = u /\ After(s, next, u).in = s.in
         /\ After(s, next, u).device = s.device
BY DEF After, IsProc

\* A location or a derivative upserted, told of where it is new: what was found is
\* still found, and this with it.
LEMMA UpsertKeeps ==
  ASSUME RegInv, NEW p \in Procs, NEW next \in InTx, NEW key, NEW val, key[1] \notin {"device", "item"},
         proc[p].pc \in InTx, Upsert(p, key, val, Said(p, key), next), UNCHANGED migVars,
         \A u : /\ FindIn(rows, u, ItemKey(p)) = FindIn(rows, proc[p].tx, ItemKey(p))
                /\ \A k : HasIn(rows, proc[p].tx, k) => HasIn(rows, u, k)
                /\ HasIn(rows, u, key)
                => FoundIn(rows, After(proc[p], next, u))
  PROVE  RegInv'
<1> DEFINE s == [proc[p] EXCEPT !.pc = next]
<1>1. IsProc(proc[p]) BY Here DEF Sound
<1>2. s \in [pc : InTx, in : {proc[p].in}, n : {proc[p].n}, key : {s.key}, device : {s.device}, tx : {proc[p].tx}]
  BY <1>1 DEF IsProc
<1>3. ASSUME NEW u, u.new = {old \in proc[p].tx.new : old.key # key} \cup {Row(key, val)}
      PROVE  FoundIn(rows, [s EXCEPT !.tx = u])
  <2> DEFINE item == ItemKey(p)
  <2>1. item # key
    <3>1. item[1] = "item" BY DEF ItemKey
    <3> HIDE DEF item
    <3> QED BY <3>1
  <2> HIDE DEF item
  <2>2. /\ FindIn(rows, u, key) = {Row(key, val)}
        /\ \A k : k # key => FindIn(rows, u, k) = FindIn(rows, proc[p].tx, k)
        /\ \A k : HasIn(rows, proc[p].tx, k) => HasIn(rows, u, k)
    <3>1. Found(rows, proc[p].tx, u, key, val) BY <1>3, PutFinds
    <3> QED BY <3>1 DEF Found
  <2>3. HasIn(rows, u, key) BY <2>2 DEF FindIn, HasIn
  <2> QED BY <2>1, <2>2, <2>3 DEF item, After
<1>4. ~Waits(p, key) /\ Stays /\ Puts(p, Row(key, val), Said(p, key), s) BY DEF Upsert
<1>5. /\ Said(p, key) \subseteq {Event(p, key)} /\ (Said(p, key) # {} => Find(p, key) = {})
      /\ (Find(p, key) # {} \/ Said(p, key) # {})
  BY DEF Said
<1> HIDE DEF s
<1> QED BY <1>2, <1>3, <1>4, <1>5, PutKeeps

\* The upserts' keys as the state reads them.
LEMMA Keys ==
  ASSUME NEW p \in Procs
  PROVE  /\ ItemKey(p) = ItemOf(proc[p]) /\ LocationKey(p) = LocationOf(proc[p]) /\ DecryptKey(p) = DecryptOf(proc[p])
         /\ IleappKey(p) = IleappOf(proc[p]) /\ CrashKey(p) = CrashOf(proc[p])
BY DEF ItemKey, LocationKey, DecryptKey, IleappKey, CrashKey, Content, ItemOf, LocationOf, DecryptOf, IleappOf, CrashOf

\* The location and the derivatives, each passed over where it is not complete.
LEMMA RestKeeps ==
  ASSUME RegInv, NEW p \in Procs, Location(p) \/ Decrypted(p) \/ Ileapp(p) \/ Crash(p), UNCHANGED migVars
  PROVE  RegInv'
<1>I. IsProc(proc[p]) /\ FoundIn(rows, proc[p]) BY Here DEF Sound
<1>1. ASSUME NEW next \in {"decrypted", "ileapp", "crash", "commit"}, NEW u,
             FindIn(rows, u, ItemKey(p)) = FindIn(rows, proc[p].tx, ItemKey(p)),
             \A k : HasIn(rows, proc[p].tx, k) => HasIn(rows, u, k), proc[p].pc \in Located \ {"done"},
             HasIn(rows, u, LocationKey(p)),
             next \in {"ileapp", "crash", "commit"} => HasIn(rows, u, DecryptKey(p)),
             next \in {"crash", "commit"} /\ proc[p].in.ileapp # None => HasIn(rows, u, IleappKey(p)),
             next = "commit" /\ proc[p].in.crash # None => HasIn(rows, u, CrashKey(p))
      PROVE  FoundIn(rows, After(proc[p], next, u))
  <2> DEFINE z == After(proc[p], next, u)
  <2>1. z.pc = next /\ z.tx = u /\ z.in = proc[p].in /\ z.device = proc[p].device BY <1>I, AfterIs
  <2> HIDE DEF z
  <2>2. /\ ItemOf(z) = ItemKey(p) /\ LocationOf(z) = LocationKey(p) /\ DecryptOf(z) = DecryptKey(p)
        /\ IleappOf(z) = IleappKey(p) /\ CrashOf(z) = CrashKey(p)
    BY <2>1 DEF ItemKey, LocationKey, DecryptKey, IleappKey, CrashKey, Content, ItemOf, LocationOf, DecryptOf,
                IleappOf, CrashOf
  <2>3. FindIn(rows, u, ItemKey(p)) = {Row(ItemKey(p), z.device)} BY <1>1, <1>I, <2>1, Keys DEF FoundIn
  <2>4. FoundIn(rows, z) BY <1>1, <2>1, <2>2, <2>3 DEF FoundIn
  <2> QED BY <2>4 DEF z
<1>2. CASE Location(p)
  <2> DEFINE key == LocationKey(p)
  <2>1. key[1] \notin {"device", "item"} BY DEF LocationKey
  <2>2. proc[p].pc = "location" /\ Upsert(p, key, None, Said(p, key), "decrypted") BY <1>2 DEF Location, At
  <2>3. ASSUME NEW u, FindIn(rows, u, ItemKey(p)) = FindIn(rows, proc[p].tx, ItemKey(p)),
               \A k : HasIn(rows, proc[p].tx, k) => HasIn(rows, u, k), HasIn(rows, u, key)
        PROVE  FoundIn(rows, After(proc[p], "decrypted", u))
    BY <1>1, <2>2, <2>3 DEF Located
  <2> HIDE DEF key
  <2> QED BY <2>1, <2>2, <2>3, UpsertKeeps DEF InTx
<1>3. CASE Decrypted(p)
  <2> DEFINE key == DecryptKey(p)
  <2>1. key[1] \notin {"device", "item"} BY DEF DecryptKey
  <2>2. proc[p].pc = "decrypted" /\ Upsert(p, key, proc[p].in.place, Said(p, key), "ileapp")
    BY <1>3 DEF Decrypted, At
  <2>3. HasIn(rows, proc[p].tx, LocationKey(p)) BY <1>I, <2>2, Keys DEF FoundIn, Located
  <2>4. ASSUME NEW u, FindIn(rows, u, ItemKey(p)) = FindIn(rows, proc[p].tx, ItemKey(p)),
               \A k : HasIn(rows, proc[p].tx, k) => HasIn(rows, u, k), HasIn(rows, u, key)
        PROVE  FoundIn(rows, After(proc[p], "ileapp", u))
    BY <1>1, <2>2, <2>3, <2>4 DEF Located
  <2> HIDE DEF key
  <2> QED BY <2>1, <2>2, <2>4, UpsertKeeps DEF InTx
<1>4. CASE Ileapp(p)
  <2>0. proc[p].pc = "ileapp" BY <1>4 DEF Ileapp, At
  <2>1. HasIn(rows, proc[p].tx, LocationKey(p)) /\ HasIn(rows, proc[p].tx, DecryptKey(p))
    BY <1>I, <2>0, Keys DEF FoundIn, Located
  <2>2. CASE Absent(p, proc[p].in.ileapp, "crash")
    <3> DEFINE z == [proc[p] EXCEPT !.pc = "crash"]
    <3>1. z = After(proc[p], "crash", proc[p].tx) BY <1>I DEF After, IsProc
    <3>2. FoundIn(rows, z) BY <1>1, <2>0, <2>1, <2>2, <3>1 DEF Absent, Located
    <3> QED BY <2>0, <2>2, <3>2, MovesOn DEF Absent, InTx, Places
  <2>3. CASE ~Absent(p, proc[p].in.ileapp, "crash")
    <3> DEFINE key == IleappKey(p)
    <3>1. key[1] \notin {"device", "item"} BY DEF IleappKey
    <3>2. Upsert(p, key, proc[p].in.place, Said(p, key), "crash") BY <1>4, <2>3 DEF Ileapp
    <3>3. ASSUME NEW u, FindIn(rows, u, ItemKey(p)) = FindIn(rows, proc[p].tx, ItemKey(p)),
                 \A k : HasIn(rows, proc[p].tx, k) => HasIn(rows, u, k), HasIn(rows, u, key)
          PROVE  FoundIn(rows, After(proc[p], "crash", u))
      BY <1>1, <2>0, <2>1, <3>3 DEF Located
    <3> HIDE DEF key
    <3> QED BY <2>0, <3>1, <3>2, <3>3, UpsertKeeps DEF InTx
  <2> QED BY <2>2, <2>3
<1>5. CASE Crash(p)
  <2>0. proc[p].pc = "crash" BY <1>5 DEF Crash, At
  <2>1. /\ HasIn(rows, proc[p].tx, LocationKey(p)) /\ HasIn(rows, proc[p].tx, DecryptKey(p))
        /\ proc[p].in.ileapp # None => HasIn(rows, proc[p].tx, IleappKey(p))
    BY <1>I, <2>0, Keys DEF FoundIn, Located
  <2>2. CASE Absent(p, proc[p].in.crash, "commit")
    <3> DEFINE z == [proc[p] EXCEPT !.pc = "commit"]
    <3>1. z = After(proc[p], "commit", proc[p].tx) BY <1>I DEF After, IsProc
    <3>2. FoundIn(rows, z) BY <1>1, <2>0, <2>1, <2>2, <3>1 DEF Absent, Located
    <3> QED BY <2>0, <2>2, <3>2, MovesOn DEF Absent, InTx, Places
  <2>3. CASE ~Absent(p, proc[p].in.crash, "commit")
    <3> DEFINE key == CrashKey(p)
    <3>1. key[1] \notin {"device", "item"} BY DEF CrashKey
    <3>2. Upsert(p, key, proc[p].in.place, Said(p, key), "commit") BY <1>5, <2>3 DEF Crash
    <3>3. ASSUME NEW u, FindIn(rows, u, ItemKey(p)) = FindIn(rows, proc[p].tx, ItemKey(p)),
                 \A k : HasIn(rows, proc[p].tx, k) => HasIn(rows, u, k), HasIn(rows, u, key)
          PROVE  FoundIn(rows, After(proc[p], "commit", u))
      BY <1>1, <2>0, <2>1, <3>3 DEF Located
    <3> HIDE DEF key
    <3> QED BY <2>0, <3>1, <3>2, <3>3, UpsertKeeps DEF InTx
  <2> QED BY <2>2, <2>3
<1> QED BY <1>2, <1>3, <1>4, <1>5

\* A commit: what it has written is there for everybody, and what the others
\* have found still is.
LEMMA CommitKeeps == ASSUME RegInv, NEW p \in Procs, Commit(p), UNCHANGED migVars PROVE RegInv'
<1> DEFINE t == proc[p].tx
           z == [proc[p] EXCEPT !.pc = "done", !.tx = NoTx]
<1>1. /\ IsProc(proc[p]) /\ GoodTx(rows, t, proc[p].n) /\ FoundIn(rows, proc[p]) /\ proc[p].pc = "commit"
      /\ ledger = Files
  BY Here DEF Sound, Commit, At
<1>2. rows' = SeenIn(rows, t) /\ events' = events \cup t.said /\ proc' = [proc EXCEPT ![p] = z]
  BY Here DEF Commit, Goes
<1>3. proc' = [q \in Procs |-> proc'[q]] /\ proc'[p] = z /\ \A q \in Procs \ {p} : proc'[q] = proc[q]
  BY <1>2 DEF RegInv
<1>4. GoodRows(rows') /\ ToldIn(rows', events') BY <1>1, <1>2, CommitRows, CommitTold DEF RegInv
<1>5. IsProc(z) /\ z.tx = NoTx /\ z.pc = "done" /\ z.in = proc[p].in /\ z.device = proc[p].device
  BY <1>1 DEF IsProc, Places
<1> HIDE DEF z
<1>6. Sound(rows', z)
  <2>1. \A k : FindIn(rows', NoTx, k) = FindIn(rows, t, k) BY <1>2, Empty DEF FindIn
  <2>2. \A k : HasIn(rows', NoTx, k) <=> HasIn(rows, t, k) BY <1>2, Empty DEF HasIn
  <2>3. /\ ItemOf(z) = ItemOf(proc[p]) /\ LocationOf(z) = LocationOf(proc[p]) /\ DecryptOf(z) = DecryptOf(proc[p])
        /\ IleappOf(z) = IleappOf(proc[p]) /\ CrashOf(z) = CrashOf(proc[p])
    BY <1>5 DEF ItemOf, LocationOf, DecryptOf, IleappOf, CrashOf
  <2>4. FoundIn(rows', z) BY <1>1, <1>5, <2>1, <2>2, <2>3 DEF FoundIn, Located
  <2> QED BY <1>5, <2>4, Empty DEF Sound
<1>7. ASSUME NEW q \in Procs \ {p} PROVE Sound(rows', proc'[q])
  <2> DEFINE s == proc[q]
  <2>1. Sound(rows, s) /\ t.locks \cap s.tx.locks = {} BY Here DEF RegInv
  <2>2. /\ GoodTx(rows', s.tx, s.n)
        /\ \A k : HasIn(rows, s.tx, k) => HasIn(rows', s.tx, k)
        /\ \A k : k[1] = "item" /\ HasIn(rows, s.tx, k) => FindIn(rows', s.tx, k) = FindIn(rows, s.tx, k)
    BY <1>1, <1>2, <2>1, CommitFinds DEF Sound
  <2>3. s.pc \in Located => FindIn(rows', s.tx, ItemOf(s)) = {Row(ItemOf(s), s.device)}
    <3> SUFFICES ASSUME s.pc \in Located PROVE FindIn(rows', s.tx, ItemOf(s)) = {Row(ItemOf(s), s.device)} OBVIOUS
    <3>1. FindIn(rows, s.tx, ItemOf(s)) = {Row(ItemOf(s), s.device)} BY <2>1 DEF Sound, FoundIn
    <3>2. HasIn(rows, s.tx, ItemOf(s)) BY <3>1 DEF FindIn, HasIn
    <3>3. ItemOf(s)[1] = "item" BY DEF ItemOf
    <3> QED BY <2>2, <3>1, <3>2, <3>3
  <2>4. FoundIn(rows', s) BY <2>1, <2>2, <2>3 DEF Sound, FoundIn
  <2> QED BY <1>3, <2>1, <2>2, <2>4 DEF Sound
<1>8. SchemaInv' BY DEF RegInv, migVars, SchemaInv, MigTypeOK, LedgerIsTrue, InOrder, Whole, RunnersKnown
<1>9. \A q, r \in Procs : q # r => proc'[q].tx.locks \cap proc'[r].tx.locks = {}
  BY <1>3, <1>5 DEF RegInv, NoTx
<1>10. secret' = secret /\ begun' = begun /\ ledger' = ledger BY DEF Commit, migVars
<1> QED BY <1>1, <1>3, <1>4, <1>6, <1>7, <1>8, <1>9, <1>10 DEF RegInv, Files

\* Steps of the schema leave a whole ledger whole; nothing else touches rows.
LEMMA SchemaKeeps == ASSUME RegInv, MigNext, UNCHANGED regVars PROVE RegInv'
<1>1. SchemaInv' /\ ledger \subseteq ledger' BY SchemaStep DEF RegInv, Next, vars
<1>2. ledger' \subseteq Files BY <1>1 DEF SchemaInv, MigTypeOK
<1>3. ledger = Files => ledger' = Files BY <1>1, <1>2
<1> QED BY <1>1, <1>3 DEF RegInv, regVars

LEMMA RegStep == ASSUME RegInv, [Next]_vars PROVE RegInv'
<1>1. CASE MigNext /\ UNCHANGED regVars BY <1>1, SchemaKeeps
<1>2. CASE RegNext /\ UNCHANGED migVars
  <2>1. ASSUME NEW p \in Procs, NEW b \in Backups, Start(p, b) PROVE RegInv' BY <1>2, <2>1, BeforeKeeps
  <2>2. ASSUME NEW p \in Procs, Step(p) PROVE RegInv'
    BY <1>2, <2>2, BeforeKeeps, ItemKeeps, RestKeeps, CommitKeeps DEF Step
  <2>3. ASSUME NEW p \in Procs, Fails(p) PROVE RegInv' BY <1>2, <2>3, BeforeKeeps
  <2>4. CASE LoseSecret
    <3>1. SchemaInv' BY <1>2 DEF RegInv, migVars, SchemaInv, MigTypeOK, LedgerIsTrue, InOrder, Whole, RunnersKnown
    <3> QED BY <1>2, <2>4, <3>1 DEF RegInv, LoseSecret, DbStays, migVars
  <2> QED BY <1>2, <2>1, <2>2, <2>3, <2>4 DEF RegNext
<1>3. CASE UNCHANGED vars
  <2>1. SchemaInv' BY <1>3 DEF RegInv, vars, migVars, SchemaInv, MigTypeOK, LedgerIsTrue, InOrder, Whole, RunnersKnown
  <2> QED BY <1>3, <2>1 DEF RegInv, vars, migVars, regVars
<1> QED BY <1>1, <1>2, <1>3 DEF Next

\* What the invariant says of a registration, of its schema and of its record.
LEMMA RegInvIsSound == RegInv => RegistrationIsSound
<1> SUFFICES ASSUME RegInv PROVE RegistrationIsSound OBVIOUS
<1>1. TypeOK
  <2>1. \A row \in rows : DOMAIN row = {"key", "val"} BY DEF RegInv, GoodRows, Row
  <2>2. \A p \in Procs : /\ proc[p].pc \in InTx \cup {"idle", "verify", "link", "read", "done"}
                         /\ proc[p].pc \notin InTx => proc[p].tx = NoTx
    BY DEF RegInv, Sound, IsProc, Places
  <2>3. \A p \in Procs : \A q \in Procs \ {p} : proc[p].tx.locks \cap proc[q].tx.locks = {} BY DEF RegInv
  <2> QED BY <2>1, <2>2, <2>3 DEF RegInv, GoodRows, TypeOK, RegTypeOK, SchemaInv
<1>2. NothingBeforeSchema BY DEF NothingBeforeSchema, RegInv, SchemaInv, LedgerIsTrue
<1>3. EachToldOnce
  <2>1. ASSUME NEW row \in rows, row.key[1] # "device" PROVE row.key \in {e.about : e \in events}
    BY <2>1 DEF RegInv, ToldIn
  <2>2. ASSUME NEW e \in events PROVE e.about \in {row.key : row \in {r \in rows : r.key[1] # "device"}}
    BY <2>2 DEF RegInv, ToldIn
  <2> QED BY <2>1, <2>2 DEF RegInv, ToldIn, EachToldOnce, Kinds
<1>4. HandedOverIsThere
  <2> SUFFICES ASSUME NEW p \in Procs, proc[p].pc = "done"
               PROVE  /\ Recorded(ItemKey(p)) = {Row(ItemKey(p), proc[p].device)}
                      /\ Recorded(LocationKey(p)) # {} /\ Recorded(DecryptKey(p)) # {}
                      /\ proc[p].in.ileapp # None =>
                           \E row \in rows : /\ Kinds(row) = "ileapp_output" /\ row.key[2] = Content(p)
                                             /\ row.key[3] = DecryptKey(p) /\ row.key[4] = proc[p].in.ileapp.prov
                      /\ proc[p].in.crash # None => Recorded(CrashKey(p)) # {}
    BY DEF HandedOverIsThere
  <2>1. FoundIn(rows, proc[p]) /\ proc[p].tx = NoTx BY DEF RegInv, Sound, IsProc, InTx
  <2>2. \A k : FindIn(rows, NoTx, k) = Recorded(k) BY Empty DEF FindIn, Recorded
  <2>3. \A k : HasIn(rows, NoTx, k) => Recorded(k) # {} BY Empty DEF HasIn, Recorded
  <2>4. /\ Recorded(ItemKey(p)) = {Row(ItemKey(p), proc[p].device)}
        /\ Recorded(LocationKey(p)) # {} /\ Recorded(DecryptKey(p)) # {}
        /\ proc[p].in.ileapp # None => Recorded(IleappKey(p)) # {}
        /\ proc[p].in.crash # None => Recorded(CrashKey(p)) # {}
    BY <2>1, <2>2, <2>3, Keys DEF FoundIn, Located
  <2>5. ASSUME NEW row \in Recorded(IleappKey(p))
        PROVE  /\ row \in rows /\ Kinds(row) = "ileapp_output" /\ row.key[2] = Content(p)
               /\ row.key[3] = DecryptKey(p) /\ row.key[4] = proc[p].in.ileapp.prov
    BY <2>5 DEF Recorded, Kinds, IleappKey
  <2> QED BY <2>4, <2>5
<1> QED BY <1>1, <1>2, <1>3, <1>4 DEF RegistrationIsSound

\* A registration is sound, for any number of orchestrators and backups, on a
\* schema of any number of files that any number of runners of migrate.py made:
\* it has the whole schema, tells of each thing once, and hands over only what
\* is committed, iLEAPP's output with the decrypt it was made from.
THEOREM RegistrationsAreSound == Spec => []RegistrationIsSound
<1>1. Init => RegInv BY RegInit
<1>2. RegInv /\ [Next]_vars => RegInv' BY RegStep
<1>3. RegInv => RegistrationIsSound BY RegInvIsSound
<1> QED BY <1>1, <1>2, <1>3, PTL DEF Spec

-------------------------------------------------------------------------------
(* Devices, for as long as the secret x is kept: every row and every           *)
(* registration names them by it.                                            *)

RowKnown(row, x) ==
  /\ row.key[1] = "device" => \E b \in Backups : row.key = <<"device", <<b.phone, x>>>>
  /\ row.key[1] = "item" => \E b \in Backups : row.key = <<"item", b.content>> /\ row.val = <<b.phone, x>>
HasItem(R, row) == \E item \in R : item.key[1] = "item" /\ item.val = row.key[2]
ProcKnown(s, x) ==
  /\ s.pc # "idle" => s.in \in Backups
  /\ s.pc \in InTx => x # None /\ s.key = <<s.in.phone, x>>
  /\ \A row \in s.tx.new : RowKnown(row, x) /\ (row.key[1] = "device" => row.key[2] = s.key)
KeyInv ==
  /\ losses \in Nat
  /\ losses = 0 =>
       /\ \A row \in rows : RowKnown(row, secret) /\ (row.key[1] = "device" => HasItem(rows, row))
       /\ rows # {} => secret # None
       /\ \A p \in Procs : ProcKnown(proc[p], secret)

\* Without rows and out of a transaction, any secret will do.
LEMMA UnkeyedIsKnown ==
  ASSUME NEW s, NEW x, IsProc(s), s.pc \notin InTx, s.pc # "idle" => s.in \in Backups
  PROVE  ProcKnown(s, x)
BY DEF ProcKnown, IsProc, NoTx

LEMMA KeyInit == Init => KeyInv
<1> SUFFICES ASSUME Init PROVE KeyInv OBVIOUS
<1>1. \A p \in Procs : proc[p] = Idle /\ Idle.pc = "idle" BY DEF Init, Idle
<1>2. ProcKnown(Idle, secret) BY UnkeyedIsKnown, IdleIsSound DEF Sound, Idle, InTx
<1> QED BY <1>1, <1>2 DEF Init, KeyInv

\* A registration's step that commits nothing.
LEMMA KeyLocal ==
  ASSUME KeyInv, RegInv, NEW p \in Procs, NEW s, Goes(p, s), UNCHANGED <<rows, secret, losses>>,
         losses = 0 => ProcKnown(s, secret)
  PROVE  KeyInv'
<1>1. proc'[p] = s /\ \A q \in Procs \ {p} : proc'[q] = proc[q] BY DEF Goes, RegInv
<1> QED BY <1>1 DEF KeyInv

\* One that leaves its transaction as it is.
LEMMA KeyStays ==
  ASSUME KeyInv, RegInv, NEW p \in Procs, NEW s, Goes(p, s), UNCHANGED <<rows, secret, losses>>,
         IsProc(s), s.in = proc[p].in, s.tx = proc[p].tx, proc[p].pc # "idle",
         s.pc \in InTx => s.key = proc[p].key /\ proc[p].pc \in InTx
  PROVE  KeyInv'
<1>1. CASE s.pc \in InTx
  <2>1. losses = 0 => ProcKnown(s, secret) BY <1>1 DEF KeyInv, ProcKnown
  <2> QED BY <2>1, KeyLocal
<1>2. CASE s.pc \notin InTx
  <2>1. losses = 0 => ProcKnown(s, secret) BY <1>2, UnkeyedIsKnown DEF KeyInv, ProcKnown
  <2> QED BY <2>1, KeyLocal
<1> QED BY <1>1, <1>2

\* One that writes a row.
LEMMA KeyPuts ==
  ASSUME KeyInv, RegInv, NEW p \in Procs, NEW s, NEW key, NEW val, NEW said, Puts(p, Row(key, val), said, s), Stays,
         IsProc(s), s.in = proc[p].in, s.tx = proc[p].tx, s.key = proc[p].key, s.pc \in InTx, proc[p].pc \in InTx,
         key[1] = "device" => key = <<"device", proc[p].key>>,
         key[1] = "item" => key = ItemKey(p) /\ val = proc[p].key
  PROVE  KeyInv'
<1> DEFINE t == proc[p].tx
           u == [locks |-> t.locks \cup {key}, new |-> {old \in t.new : old.key # key} \cup {Row(key, val)},
                 said |-> t.said \cup said]
           z == [s EXCEPT !.tx = u]
<1>1. Row(key, val).key = key /\ Row(key, val).val = val BY DEF Row
<1>2. Goes(p, z) /\ UNCHANGED <<rows, secret, losses>> BY <1>1 DEF Puts, Stays, DbStays
<1>3. z.pc = s.pc /\ z.in = s.in /\ z.key = s.key /\ z.tx = u BY DEF IsProc
<1> HIDE DEF z
<1>4. ASSUME losses = 0 PROVE ProcKnown(z, secret)
  <2>1. ProcKnown(proc[p], secret) /\ proc[p].pc # "idle" BY <1>4 DEF KeyInv, InTx
  <2>2. proc[p].in \in Backups /\ secret # None /\ proc[p].key = <<proc[p].in.phone, secret>> BY <2>1 DEF ProcKnown
  <2>3. RowKnown(Row(key, val), secret) /\ (key[1] = "device" => key[2] = proc[p].key)
    BY <1>1, <2>2 DEF RowKnown, ItemKey, Content
  <2> QED BY <1>1, <1>3, <2>1, <2>2, <2>3 DEF ProcKnown
<1> QED BY <1>2, <1>4, KeyLocal

\* What comes before the transaction, and its end without a commit.  The first
\* secret finds no row that another one keyed.
LEMMA KeyBefore ==
  ASSUME KeyInv, RegInv, NEW p \in Procs,
         (\E b \in Backups : Start(p, b)) \/ Verify(p) \/ Link(p) \/ Read(p) \/ Fails(p)
  PROVE  KeyInv'
<1>I. IsProc(proc[p]) BY Here DEF Sound
<1>E. ASSUME Ends(p), Stays PROVE KeyInv'
  <2>1. ProcKnown(Idle, secret) BY UnkeyedIsKnown, IdleIsSound DEF Sound, Idle, InTx
  <2> QED BY <1>E, <2>1, KeyLocal DEF Ends, Stays, DbStays
<1>1. ASSUME NEW b \in Backups, Start(p, b) PROVE KeyInv'
  <2> DEFINE s == [Idle EXCEPT !.pc = "verify", !.in = b, !.n = begun']
  <2>1. s.pc = "verify" /\ s.in = b /\ s.tx.new = {} BY DEF Idle, NoTx
  <2>2. Goes(p, s) /\ UNCHANGED <<rows, secret, losses>> BY <1>1 DEF Start, DbStays
  <2> HIDE DEF s
  <2>3. ProcKnown(s, secret) BY <2>1 DEF ProcKnown, InTx
  <2> QED BY <2>2, <2>3, KeyLocal
<1>2. CASE Verify(p)
  <2>1. ASSUME NEW next \in {"link", "read"}, Goes(p, [proc[p] EXCEPT !.pc = next]) PROVE KeyInv'
    <3> DEFINE s == [proc[p] EXCEPT !.pc = next]
    <3>1. IsProc(s) /\ s.pc = next /\ s.in = proc[p].in /\ s.tx = proc[p].tx
      BY <1>I, <1>2 DEF IsProc, Places, InTx, Verify, At
    <3>2. s.pc \notin InTx /\ proc[p].pc # "idle" /\ UNCHANGED <<rows, secret, losses>>
      BY <1>2, <3>1 DEF InTx, Verify, At, Stays, DbStays
    <3> HIDE DEF s
    <3>3. Goes(p, s) BY <2>1 DEF s
    <3> QED BY <3>1, <3>2, <3>3, KeyStays
  <2>2. CASE Ends(p) BY <1>2, <1>E, <2>2 DEF Verify
  <2> QED BY <1>2, <2>1, <2>2 DEF Verify
<1>3. CASE Link(p)
  <2> DEFINE s == [proc[p] EXCEPT !.pc = "read"]
  <2>1. IsProc(s) /\ s.pc = "read" /\ s.in = proc[p].in /\ s.tx = proc[p].tx
    BY <1>I, <1>3 DEF IsProc, Places, InTx, Link, At
  <2>2. s.pc \notin InTx /\ proc[p].pc # "idle" /\ UNCHANGED <<rows, losses>> /\ Goes(p, s)
    BY <1>3, <2>1 DEF InTx, Link, At, DbStays
  <2> HIDE DEF s
  <2>3. CASE secret # None BY <1>3, <2>1, <2>2, <2>3, KeyStays DEF Link, Linked
  <2>4. CASE secret = None
    <3>1. proc'[p] = s /\ \A q \in Procs \ {p} : proc'[q] = proc[q] BY <2>2 DEF Goes, RegInv
    <3>2. ASSUME losses = 0, NEW q \in Procs PROVE ProcKnown(proc'[q], secret')
      <4>1. IsProc(proc[q]) BY DEF RegInv, Sound
      <4>2. ProcKnown(proc[q], secret) /\ ProcKnown(proc[p], secret) BY <3>2 DEF KeyInv
      <4>3. CASE q = p BY <2>1, <2>2, <3>1, <4>2, <4>3, UnkeyedIsKnown DEF ProcKnown
      <4>4. CASE q # p BY <2>4, <3>1, <4>1, <4>2, <4>4, UnkeyedIsKnown DEF ProcKnown
      <4> QED BY <4>3, <4>4
    <3>3. losses = 0 => rows = {} BY <2>4 DEF KeyInv
    <3> QED BY <2>2, <3>2, <3>3 DEF KeyInv
  <2> QED BY <2>3, <2>4
<1>4. CASE Read(p)
  <2> DEFINE s == [proc[p] EXCEPT !.pc = "known", !.key = <<proc[p].in.phone, secret>>]
  <2>1. s.pc = "known" /\ s.in = proc[p].in /\ s.key = <<proc[p].in.phone, secret>> /\ s.tx = NoTx
    BY <1>I, <1>4 DEF IsProc, InTx, Read, At
  <2> HIDE DEF s
  <2>2. CASE secret # None /\ Goes(p, s)
    <3>1. ASSUME losses = 0 PROVE ProcKnown(s, secret)
      <4>1. proc[p].in \in Backups BY <1>4, <3>1 DEF KeyInv, ProcKnown, Read, At
      <4> QED BY <2>1, <2>2, <4>1 DEF ProcKnown, NoTx
    <3> QED BY <1>4, <2>2, <3>1, KeyLocal DEF Read, Stays, DbStays
  <2>3. CASE Ends(p) BY <1>4, <1>E, <2>3 DEF Read
  <2> QED BY <1>4, <2>2, <2>3 DEF Read, s
<1>5. CASE Fails(p) BY <1>5, <1>E DEF Fails
<1> QED BY <1>1, <1>2, <1>3, <1>4, <1>5

\* The transaction's statements.
LEMMA KeyInTx ==
  ASSUME KeyInv, RegInv, NEW p \in Procs,
         \/ Known(p) \/ Device(p) \/ Item(p) \/ Raced(p)
         \/ Location(p) \/ Decrypted(p) \/ Ileapp(p) \/ Crash(p)
  PROVE  KeyInv'
<1>I. IsProc(proc[p]) BY Here DEF Sound
<1>S. Stays /\ UNCHANGED <<rows, secret, losses>> /\ proc[p].pc \in InTx
  BY DEF Known, Device, Item, Raced, Location, Decrypted, Ileapp, Crash, Upsert, Absent, Stays, DbStays, At, InTx
<1>1. ASSUME NEW next \in InTx, NEW device, Goes(p, [proc[p] EXCEPT !.pc = next, !.device = device]) PROVE KeyInv'
  <2> DEFINE s == [proc[p] EXCEPT !.pc = next, !.device = device]
  <2>1. IsProc(s) /\ s.in = proc[p].in /\ s.tx = proc[p].tx /\ s.key = proc[p].key BY <1>I DEF IsProc, Places
  <2>2. proc[p].pc # "idle" BY <1>S DEF InTx
  <2> HIDE DEF s
  <2> QED BY <1>1, <1>S, <2>1, <2>2, KeyStays DEF s
<1>2. ASSUME NEW next \in InTx, Goes(p, [proc[p] EXCEPT !.pc = next]) PROVE KeyInv'
  <2>1. [proc[p] EXCEPT !.pc = next] = [proc[p] EXCEPT !.pc = next, !.device = proc[p].device] BY <1>I DEF IsProc
  <2> QED BY <1>1, <1>2, <2>1
<1>3. ASSUME NEW next \in InTx, NEW device, NEW key, NEW val, NEW said,
             Puts(p, Row(key, val), said, [proc[p] EXCEPT !.pc = next, !.device = device]),
             key[1] = "device" => key = <<"device", proc[p].key>>,
             key[1] = "item" => key = ItemKey(p) /\ val = proc[p].key
      PROVE  KeyInv'
  <2> DEFINE s == [proc[p] EXCEPT !.pc = next, !.device = device]
  <2>1. IsProc(s) /\ s.in = proc[p].in /\ s.tx = proc[p].tx /\ s.key = proc[p].key /\ s.pc = next
    BY <1>I, <1>S DEF IsProc, Places
  <2>2. Puts(p, Row(key, val), said, s) BY <1>3
  <2> HIDE DEF s
  <2> QED BY <1>3, <1>S, <2>1, <2>2, KeyPuts
<1>4. ASSUME NEW next \in InTx, NEW key, NEW val, NEW said, Upsert(p, key, val, said, next), key[1] # "item",
             key[1] = "device" => key = <<"device", proc[p].key>>
      PROVE  KeyInv'
  <2>1. [proc[p] EXCEPT !.pc = next] = [proc[p] EXCEPT !.pc = next, !.device = proc[p].device] BY <1>I DEF IsProc
  <2>2. Puts(p, Row(key, val), said, [proc[p] EXCEPT !.pc = next, !.device = proc[p].device])
    BY <1>4, <2>1 DEF Upsert
  <2> QED BY <1>3, <1>4, <2>2
<1>5. CASE Known(p) \/ Raced(p) BY <1>1, <1>2, <1>5 DEF Known, Raced, InTx
<1>6. CASE Device(p) BY <1>4, <1>6 DEF Device, InTx
<1>7. CASE Item(p)
  <2>1. CASE Find(p, ItemKey(p)) = {}
    <3>1. Puts(p, Row(ItemKey(p), proc[p].key), {Event(p, ItemKey(p))},
               [proc[p] EXCEPT !.pc = "location", !.device = proc[p].key])
      BY <1>7, <2>1 DEF Item
    <3>2. ItemKey(p)[1] # "device" BY DEF ItemKey
    <3> QED BY <1>3, <3>1, <3>2 DEF InTx
  <2>2. CASE Find(p, ItemKey(p)) # {} BY <1>2, <1>7, <2>2 DEF Item, InTx
  <2> QED BY <2>1, <2>2
<1>8. CASE Location(p) BY <1>4, <1>8 DEF Location, InTx, LocationKey
<1>9. CASE Decrypted(p) BY <1>4, <1>9 DEF Decrypted, InTx, DecryptKey
<1>10. CASE Ileapp(p) BY <1>2, <1>4, <1>10 DEF Ileapp, Absent, InTx, IleappKey
<1>11. CASE Crash(p) BY <1>2, <1>4, <1>11 DEF Crash, Absent, InTx, CrashKey
<1> QED BY <1>5, <1>6, <1>7, <1>8, <1>9, <1>10, <1>11

\* A commit: the item found or written names the device that its transaction has
\* upserted, as the content is one phone's.
LEMMA KeyCommit == ASSUME KeyInv, RegInv, NEW p \in Procs, Commit(p) PROVE KeyInv'
<1> SUFFICES ASSUME losses = 0 PROVE KeyInv' BY DEF KeyInv, Commit
<1> DEFINE t == proc[p].tx
           s == [proc[p] EXCEPT !.pc = "done", !.tx = NoTx]
<1>1. /\ IsProc(proc[p]) /\ FoundIn(rows, proc[p]) /\ rows' = SeenIn(rows, t) /\ Goes(p, s)
      /\ UNCHANGED <<secret, losses>> /\ proc[p].pc = "commit"
  BY Here DEF Sound, Commit, At
<1>2. /\ ProcKnown(proc[p], secret) /\ proc[p].in \in Backups /\ secret # None
      /\ proc[p].key = <<proc[p].in.phone, secret>>
  BY <1>1 DEF KeyInv, ProcKnown, InTx
<1>3. \A row \in rows' : RowKnown(row, secret) BY <1>1, <1>2 DEF KeyInv, ProcKnown, SeenIn
<1>4. PICK item \in rows' : item.key = ItemOf(proc[p]) /\ item.key[1] = "item" /\ item.val = proc[p].key
  <2>1. PICK item \in rows' : item.key = ItemOf(proc[p]) BY <1>1 DEF FoundIn, Located, FindIn
  <2>2. item.key[1] = "item" BY <2>1 DEF ItemOf
  <2>3. PICK b \in Backups : item.key = <<"item", b.content>> /\ item.val = <<b.phone, secret>>
    BY <1>3, <2>2 DEF RowKnown
  <2>4. b.content = proc[p].in.content BY <2>1, <2>3 DEF ItemOf
  <2>5. b.phone = proc[p].in.phone BY <1>2, <2>4, RegistrationAssumption
  <2> QED BY <1>2, <2>1, <2>2, <2>3, <2>5
<1>5. ASSUME NEW row \in rows', row.key[1] = "device" PROVE HasItem(rows', row)
  <2>1. CASE row \in t.new BY <1>2, <1>4, <1>5, <2>1 DEF ProcKnown, HasItem
  <2>2. CASE row \in rows
    <3>1. PICK old \in rows : old.key[1] = "item" /\ old.val = row.key[2] BY <1>5, <2>2 DEF KeyInv, HasItem
    <3>2. CASE old \in rows' BY <3>1, <3>2 DEF HasItem
    <3>3. CASE old \notin rows'
      <4>1. PICK new \in t.new : new.key = old.key BY <1>1, <3>3 DEF SeenIn
      <4>2. PICK a \in Backups : old.key = <<"item", a.content>> /\ old.val = <<a.phone, secret>>
        BY <3>1 DEF KeyInv, RowKnown
      <4>3. PICK b \in Backups : new.key = <<"item", b.content>> /\ new.val = <<b.phone, secret>>
        BY <1>2, <3>1, <4>1 DEF ProcKnown, RowKnown
      <4>4. a.content = b.content BY <4>1, <4>2, <4>3
      <4>5. a.phone = b.phone BY <4>4, RegistrationAssumption
      <4>6. new \in rows' BY <1>1, <4>1 DEF SeenIn
      <4> QED BY <3>1, <4>1, <4>2, <4>3, <4>5, <4>6 DEF HasItem
    <3> QED BY <3>2, <3>3
  <2> QED BY <1>1, <2>1, <2>2 DEF SeenIn
<1>6. s.pc = "done" /\ s.tx.new = {} /\ s.in = proc[p].in BY <1>1 DEF IsProc, NoTx
<1>7. proc'[p] = s /\ \A q \in Procs \ {p} : proc'[q] = proc[q] BY <1>1 DEF Goes, RegInv
<1> HIDE DEF s
<1>8. ProcKnown(s, secret) BY <1>2, <1>6 DEF ProcKnown, InTx
<1>9. \A q \in Procs : ProcKnown(proc'[q], secret) BY <1>7, <1>8 DEF KeyInv
<1> QED BY <1>1, <1>2, <1>3, <1>5, <1>9 DEF KeyInv

LEMMA KeyStep == ASSUME KeyInv, RegInv, [Next]_vars PROVE KeyInv'
<1>1. CASE UNCHANGED regVars BY <1>1 DEF KeyInv, regVars
<1>2. ASSUME NEW p \in Procs, (\E b \in Backups : Start(p, b)) \/ Step(p) \/ Fails(p) PROVE KeyInv'
  BY <1>2, KeyBefore, KeyInTx, KeyCommit DEF Step
<1>3. CASE LoseSecret BY <1>3 DEF KeyInv, LoseSecret
<1> QED BY <1>1, <1>2, <1>3 DEF Next, RegNext, vars

\* One phone is one device, and none is without evidence, for any number of
\* orchestrators that use the device secret for the first time at once, and
\* whatever backups of whatever phones they register.
THEOREM OneDeviceHolds == Spec => []OneDevicePerPhone
<1>1. Init => RegInv /\ KeyInv BY RegInit, KeyInit
<1>2. RegInv /\ KeyInv /\ [Next]_vars => RegInv' /\ KeyInv' BY RegStep, KeyStep
<1>3. ASSUME RegInv, KeyInv PROVE OneDevicePerPhone
  <2> SUFFICES ASSUME losses = 0 PROVE OneDevicePerPhone BY DEF OneDevicePerPhone
  <2>1. ASSUME NEW a \in rows, NEW b \in rows, a.key[1] = "device", b.key[1] = "device", a.key[2][1] = b.key[2][1]
        PROVE  a = b
    <3>1. PICK c \in Backups : a.key = <<"device", <<c.phone, secret>>>> BY <1>3, <2>1 DEF KeyInv, RowKnown
    <3>2. PICK d \in Backups : b.key = <<"device", <<d.phone, secret>>>> BY <1>3, <2>1 DEF KeyInv, RowKnown
    <3>3. a.key = b.key BY <2>1, <3>1, <3>2
    <3> QED BY <1>3, <3>3 DEF RegInv, GoodRows
  <2>2. ASSUME NEW d \in rows, d.key[1] = "device" PROVE \E row \in rows : Kinds(row) = "item" /\ row.val = d.key[2]
    BY <1>3, <2>2 DEF KeyInv, HasItem, Kinds
  <2> QED BY <2>1, <2>2 DEF OneDevicePerPhone, Kinds
<1> QED BY <1>1, <1>2, <1>3, PTL DEF Spec

================================================================================
