--------------------------- MODULE FactLedgerProofs ---------------------------
(***************************************************************************)
(* Proofs about FactLedger for any number of runs, files, parser versions   *)
(* and evidence items.                                                      *)
(***************************************************************************)
EXTENDS FactLedger, WellFoundedInduction, TLAPS

-------------------------------------------------------------------------------
(* The inductive invariant.  The properties speak of what is committed; it  *)
(* adds what a process in the middle of an ingest may rely on: that a       *)
(* transaction past its upsert holds its unit's row alone, that what it     *)
(* read there is still true, and that every file it has left behind is      *)
(* either counted as failed or ingested with its run named.                 *)

Holding(r) ==
  pc[r] = "open" =>
    /\ lock[Unit(r)] = r
    /\ already[r] <=> row[Unit(r)] = "complete"
    /\ already[r] => written[r] = 0
    /\ written[r] <= FactCount[HashOf[file[r]]]

Place(r) ==
  /\ todo[r] \subseteq FilesOf[ctx[r].ev]
  /\ pc[r] \in {"seen", "miss", "open"} => file[r] \in Files
  /\ pc[r] = "seen" => row[Unit(r)] = "complete"
  /\ pc[r] = "succeeded" => ~failed[r] /\ todo[r] = {}

Ingested(r, f) == row[KeyOf(r, f)] = "complete" /\ r \in labels[KeyOf(r, f)]
Visited(r) ==
  pc[r] # "off" =>
    \A f \in FilesOf[ctx[r].ev] \ todo[r] : failed[r] \/ Ingested(r, f)

LockHeld(k) ==
  lock[k] # NoRun => pc[lock[k]] = "open" /\ Unit(lock[k]) = k

Unfinished(k) == row[k] # "complete" => labels[k] \cap Runs = {}

Read(k) ==
  row[k] = "complete" =>
    /\ origin[k] \in Runs
    /\ facts[k] = {origin[k]} \X (1 .. FactCount[k.hash])
    /\ count[k] = FactCount[k.hash]
    /\ <<k.hash, k.ver>> \in Readable

Committed == \A k \in Keys : Unfinished(k) /\ Read(k)
Process(r) == Place(r) /\ Visited(r) /\ Holding(r)
IInv ==
  /\ TypeOK
  /\ \A r \in Runs : Process(r)
  /\ \A k \in Keys : LockHeld(k)
  /\ Committed

-------------------------------------------------------------------------------
(* A step of r seen by everyone else: their own variables stay, a unit only  *)
(* gains, and a unit locked by another is left alone.                        *)
Own(r) ==
  /\ ctx' = ctx
  /\ \A q \in Runs \ {r} :
       /\ pc'[q] = pc[q] /\ todo'[q] = todo[q] /\ file'[q] = file[q]
       /\ already'[q] = already[q] /\ written'[q] = written[q] /\ failed'[q] = failed[q]

Gains(r) ==
  \A k \in Keys :
    /\ row[k] = "complete" => row'[k] = "complete"
    /\ labels[k] \subseteq labels'[k]
    /\ lock[k] \notin {NoRun, r} => lock'[k] = lock[k] /\ row'[k] = row[k]
    /\ lock'[k] \in {lock[k], r, NoRun}

\* What a step of r must show besides: its own part of the invariant.
OwnPart(r) ==
  /\ Process(r)
  /\ \A k \in Keys : lock[k] = r => pc[r] = "open" /\ Unit(r) = k

LEMMA KeyOfType ==
  ASSUME TypeOK, NEW r \in Runs, NEW f \in Files
  PROVE  /\ KeyOf(r, f) \in Keys
         /\ KeyOf(r, f).hash = HashOf[f] /\ KeyOf(r, f).ver = ctx[r].ver
  BY LedgerAssumption DEF TypeOK, KeyOf, Keys

LEMMA FilesOfType == ASSUME TypeOK, NEW r \in Runs PROVE FilesOf[ctx[r].ev] \subseteq Files
  BY LedgerAssumption DEF TypeOK

LEMMA Frame ==
  ASSUME IInv, TypeOK', NEW r \in Runs, Own(r), Gains(r), OwnPart(r)', Committed'
  PROVE  IInv'
  <1>1. ASSUME NEW q \in Runs \ {r}
        PROVE  Process(q)'
    <2>1. ASSUME NEW f \in Files PROVE KeyOf(q, f)' = KeyOf(q, f) /\ KeyOf(q, f) \in Keys
      BY <2>1, KeyOfType DEF Own, KeyOf, IInv
    <2>2. Unit(q)' = Unit(q) /\ (file[q] \in Files => Unit(q) \in Keys)
      BY KeyOfType DEF Own, Unit, KeyOf, IInv
    <2>3. Process(q) /\ q # NoRun /\ FilesOf[ctx[q].ev] \subseteq Files
      BY FilesOfType, LedgerAssumption DEF IInv
    <2>4. Place(q)'
      BY <2>2, <2>3 DEF Own, Gains, Process, Place
    <2>5. Visited(q)'
      BY <2>1, <2>3 DEF Own, Gains, Process, Visited, Ingested
    <2>6. Holding(q)'
      BY <2>2, <2>3 DEF Own, Gains, Process, Holding, Place
    <2> QED BY <2>4, <2>5, <2>6 DEF Process
  <1>2. ASSUME NEW k \in Keys
        PROVE  LockHeld(k)'
    <2>1. lock[k] \in Runs \cup {NoRun}
      BY DEF IInv, TypeOK
    <2>2. CASE lock'[k] = r
      BY <2>2 DEF OwnPart, LockHeld
    <2>3. CASE lock'[k] = NoRun
      BY <2>3 DEF LockHeld
    <2>4. CASE lock'[k] = lock[k] /\ lock[k] # r
      BY <2>1, <2>4 DEF LockHeld, IInv, Own, Unit, KeyOf
    <2> QED BY <2>1, <2>2, <2>3, <2>4 DEF Gains
  <1> QED BY <1>1, <1>2 DEF IInv, OwnPart

\* A step that commits nothing keeps what is said of the committed tables.
LEMMA NothingCommitted == ASSUME Committed, UNCHANGED tables PROVE Committed'
  BY DEF Committed, Unfinished, Read, tables

\* A process outside a transaction holds no row.
LEMMA NotHolding ==
  ASSUME IInv, NEW r \in Runs, pc[r] # "open"
  PROVE  \A k \in Keys : lock[k] # r
  BY LedgerAssumption DEF IInv, LockHeld

-------------------------------------------------------------------------------
LEMMA InitIInv == Init => IInv
  <1> SUFFICES ASSUME Init PROVE IInv
    OBVIOUS
  <1>1. TypeOK
    BY LedgerAssumption DEF Init, TypeOK, Writers, Live, Ended
  <1>2. \A r \in Runs : Process(r)
    BY LedgerAssumption DEF Init, Process, Place, Visited, Holding
  <1>3. \A k \in Keys : LockHeld(k)
    BY DEF Init, LockHeld
  <1>4. Committed
    BY LedgerAssumption DEF Init, Committed, Unfinished, Read
  <1> QED BY <1>1, <1>2, <1>3, <1>4 DEF IInv

LEMMA SpawnKeeps == ASSUME IInv, NEW r \in Runs, Spawn(r) PROVE IInv'
  <1> USE DEF Spawn, tables
  <1>1. TypeOK'
    BY LedgerAssumption DEF IInv, TypeOK, Live, Ended
  <1>2. Own(r) /\ Gains(r)
    BY DEF Own, Gains, IInv, TypeOK
  <1>3. OwnPart(r)'
    <2>1. FilesOf[ctx[r].ev] \subseteq Files /\ Process(r) /\ todo \in [Runs -> SUBSET Files]
      BY FilesOfType DEF IInv, TypeOK
    <2>2. pc'[r] = "next" /\ todo'[r] = FilesOf[ctx[r].ev] /\ failed'[r] = failed[r] /\ ctx' = ctx
      BY <2>1 DEF IInv, TypeOK
    <2>3. Process(r)'
      BY <2>2 DEF Process, Place, Visited, Holding
    <2> QED BY <2>3, NotHolding, <1>2 DEF OwnPart
  <1> QED BY <1>1, <1>2, <1>3, Frame, NothingCommitted DEF IInv

LEMMA ExitKeeps == ASSUME IInv, NEW r \in Runs, Exit(r) PROVE IInv'
  <1> USE DEF Exit, ExitStatus, tables
  <1>1. TypeOK'
    BY LedgerAssumption DEF IInv, TypeOK, Live, Ended
  <1>2. Own(r) /\ Gains(r)
    BY DEF Own, Gains, IInv, TypeOK
  <1>3. OwnPart(r)'
    <2>1. Process(r)
      BY DEF IInv
    <2>2. pc'[r] \in {"failed", "succeeded"} /\ (pc'[r] = "succeeded" => ~failed[r])
      BY DEF IInv, TypeOK
    <2>3. Process(r)'
      BY <2>1, <2>2 DEF Process, Place, Visited, Holding, Ingested, KeyOf
    <2> QED BY <2>3, NotHolding DEF OwnPart
  <1> QED BY <1>1, <1>2, <1>3, Frame, NothingCommitted DEF IInv

LEMMA FastPathKeeps == ASSUME IInv, NEW r \in Runs, FastPath(r) PROVE IInv'
  <1> PICK f \in todo[r] :
        /\ file' = [file EXCEPT ![r] = f]
        /\ pc' = [pc EXCEPT ![r] = IF row[KeyOf(r, f)] = "complete" THEN "seen" ELSE "miss"]
    BY DEF FastPath
  <1>0. pc[r] = "next" /\ f \in Files /\ UNCHANGED <<tables, lock, ctx, todo, already, written, failed>>
    BY LedgerAssumption DEF FastPath, IInv, TypeOK
  <1>1. TypeOK'
    BY <1>0, LedgerAssumption DEF IInv, TypeOK, Live, Ended, tables
  <1>2. Own(r) /\ Gains(r)
    BY <1>0 DEF Own, Gains, IInv, TypeOK, tables
  <1>3. OwnPart(r)'
    <2>1. Process(r) /\ file'[r] = f /\ pc'[r] \in {"seen", "miss"}
      BY DEF IInv, TypeOK
    <2>2. pc'[r] = "seen" => row[KeyOf(r, f)] = "complete"
      BY DEF IInv, TypeOK
    <2>3. Process(r)'
      BY <1>0, <2>1, <2>2 DEF Process, Place, Visited, Holding, Ingested, Unit, KeyOf, tables
    <2> QED BY <1>0, <2>3, NotHolding DEF OwnPart
  <1> QED BY <1>0, <1>1, <1>2, <1>3, Frame, NothingCommitted DEF IInv

LEMMA WriteKeeps == ASSUME IInv, NEW r \in Runs, Write(r) PROVE IInv'
  <1> USE DEF Write, MoreToWrite, tables
  <1>0. file[r] \in Files /\ FactCount[HashOf[file[r]]] \in 0 .. MaxFacts
    BY LedgerAssumption DEF IInv, Process, Place, TypeOK
  <1>1. TypeOK'
    BY <1>0, LedgerAssumption DEF IInv, TypeOK, Live, Ended
  <1>2. Own(r) /\ Gains(r)
    BY DEF Own, Gains, IInv, TypeOK
  <1>3. OwnPart(r)'
    BY <1>0, LedgerAssumption DEF IInv, TypeOK, OwnPart, Process, Place, Visited, Holding, LockHeld, Ingested, Unit, KeyOf
  <1> QED BY <1>1, <1>2, <1>3, Frame, NothingCommitted DEF IInv

LEMMA LabelSeenKeeps == ASSUME IInv, NEW r \in Runs, LabelSeen(r) PROVE IInv'
  <1> DEFINE k == Unit(r)
  <1> USE DEF LabelSeen, LeaveFile
  <1>0. /\ file[r] \in Files /\ k \in Keys /\ row[k] = "complete" /\ Process(r)
        /\ labels' = [labels EXCEPT ![k] = @ \cup {r}]
    BY KeyOfType DEF IInv, Process, Place, Unit
  <1>1. TypeOK'
    BY <1>0 DEF IInv, TypeOK, Live, Ended, Writers
  <1>2. Own(r) /\ Gains(r)
    BY <1>0 DEF Own, Gains, IInv, TypeOK
  <1>3. Process(r)'
    <2>1. /\ pc'[r] = "next" /\ todo'[r] = todo[r] \ {file[r]} /\ failed'[r] = failed[r]
          /\ k = KeyOf(r, file[r]) /\ r \in labels'[k] /\ row'[k] = "complete"
      BY <1>0 DEF IInv, TypeOK, Unit
    <2>2. \A f \in FilesOf[ctx[r].ev] \ todo[r] : f \in Files /\ KeyOf(r, f) \in Keys
      BY FilesOfType, KeyOfType DEF IInv
    <2>3. Visited(r)'
      BY <1>0, <1>2, <2>1, <2>2 DEF Process, Visited, Ingested, Gains, KeyOf
    <2> QED BY <1>0, <2>1, <2>3 DEF Process, Place, Holding
  <1>4. Committed'
    BY <1>0 DEF IInv, TypeOK, Committed, Unfinished, Read
  <1>5. OwnPart(r)'
    BY <1>3, NotHolding DEF OwnPart
  <1> QED BY <1>1, <1>2, <1>4, <1>5, Frame

LEMMA UpsertKeeps == ASSUME IInv, NEW r \in Runs, Upsert(r) PROVE IInv'
  <1>k. PICK k : k = Unit(r)
    OBVIOUS
  <1>e. /\ lock' = [lock EXCEPT ![k] = r]
        /\ already' = [already EXCEPT ![r] = (row[k] = "complete")]
        /\ written' = [written EXCEPT ![r] = 0]
        /\ pc' = [pc EXCEPT ![r] = "open"]
        /\ UNCHANGED <<tables, ctx, todo, file, failed>> /\ pc[r] = "miss" /\ lock[k] = NoRun
    BY <1>k DEF Upsert, RowIsFree
  <1>0. /\ file[r] \in Files /\ k \in Keys /\ Process(r)
        /\ FactCount[HashOf[file[r]]] \in 0 .. MaxFacts
    BY <1>e, <1>k, KeyOfType, LedgerAssumption DEF IInv, TypeOK, Process, Place, Unit
  <1>1. TypeOK'
    BY <1>e, <1>0, LedgerAssumption DEF IInv, TypeOK, Live, Ended, tables
  <1>2. Own(r) /\ Gains(r)
    BY <1>e, <1>0 DEF Own, Gains, IInv, TypeOK, tables
  <1>3. OwnPart(r)'
    <2>1. pc'[r] = "open" /\ lock'[k] = r /\ written'[r] = 0
      BY <1>e, <1>0 DEF IInv, TypeOK
    <2>2. already'[r] <=> row[k] = "complete"
      BY <1>e DEF IInv, TypeOK
    <2>3. Unit(r)' = k
      BY <1>e, <1>k DEF Unit, KeyOf
    <2>4. row' = row /\ labels' = labels /\ ctx' = ctx /\ file' = file /\ todo' = todo /\ failed' = failed
      BY <1>e DEF tables
    <2>5. Place(r)' /\ Visited(r)'
      BY <1>0, <1>e, <2>1, <2>4 DEF Process, Place, Visited, Ingested, KeyOf
    <2>6. already'[r] <=> row'[Unit(r)'] = "complete"
      BY <2>2, <2>3, <2>4
    <2>7. Holding(r)'
      BY <1>0, <2>1, <2>3, <2>4, <2>6 DEF Holding
    <2>8. \A j \in Keys : lock'[j] = r => j = k
      BY <1>0, <1>e, NotHolding DEF IInv, TypeOK
    <2> QED BY <2>1, <2>3, <2>5, <2>7, <2>8 DEF OwnPart, Process
  <1> QED BY <1>e, <1>1, <1>2, <1>3, Frame, NothingCommitted DEF IInv

-------------------------------------------------------------------------------
(* Steps that end a transaction. *)

\* What a rollback keeps, when the process goes on to p with D left to do and
\* b for its failure flag.
LEMMA RollbackKeeps ==
  ASSUME IInv, NEW r \in Runs, Rollback(r), ctx' = ctx, file' = file, pc[r] # "off",
         NEW p \in {"next", "killed"}, pc' = [pc EXCEPT ![r] = p],
         NEW b \in BOOLEAN, failed' = [failed EXCEPT ![r] = b], failed[r] => b,
         NEW D \in SUBSET Files, todo' = [todo EXCEPT ![r] = D], D \subseteq todo[r],
         b \/ D = todo[r]
  PROVE  IInv'
  <1> USE DEF Rollback, Unlocked, tables
  <1>1. TypeOK'
    BY LedgerAssumption DEF IInv, TypeOK, Live, Ended
  <1>2. Own(r) /\ Gains(r)
    BY LedgerAssumption DEF Own, Gains, IInv, TypeOK
  <1>3. OwnPart(r)'
    <2>1. /\ pc'[r] = p /\ todo'[r] = D /\ failed'[r] = b
          /\ row' = row /\ labels' = labels /\ Process(r)
      BY DEF IInv, TypeOK
    <2>2. Visited(r)'
      BY <2>1 DEF Process, Visited, Ingested, KeyOf
    <2>3. Process(r)'
      BY <2>1, <2>2 DEF Process, Place, Holding
    <2>4. \A k \in Keys : lock'[k] # r
      BY LedgerAssumption DEF IInv, TypeOK
    <2> QED BY <2>3, <2>4 DEF OwnPart
  <1> QED BY <1>1, <1>2, <1>3, Frame, NothingCommitted DEF IInv

LEMMA AbandonKeeps ==
  ASSUME IInv, NEW r \in Runs, ParseError(r) \/ Fault(r) \/ Kill(r)
  PROVE  IInv'
  <1>0. todo[r] \in SUBSET Files /\ failed[r] \in BOOLEAN
    BY DEF IInv, TypeOK
  <1>1. CASE ParseError(r) \/ Fault(r)
    <2>1. /\ Rollback(r) /\ ctx' = ctx /\ file' = file /\ pc[r] # "off"
          /\ pc' = [pc EXCEPT ![r] = "next"] /\ failed' = [failed EXCEPT ![r] = TRUE]
          /\ todo' = [todo EXCEPT ![r] = todo[r] \ {file[r]}]
      BY <1>1 DEF ParseError, Fault, LeaveFile
    <2>2. todo[r] \ {file[r]} \in SUBSET Files
      BY <1>0
    <2> HIDE DEF Rollback
    <2> QED BY <2>1, <2>2, RollbackKeeps
  <1>2. CASE Kill(r)
    <2>1. /\ Rollback(r) /\ ctx' = ctx /\ file' = file /\ pc[r] # "off"
          /\ pc' = [pc EXCEPT ![r] = "killed"] /\ failed' = [failed EXCEPT ![r] = failed[r]]
          /\ todo' = [todo EXCEPT ![r] = todo[r]]
      BY <1>2 DEF Kill, Live, IInv, TypeOK
    <2> QED BY <1>0, <2>1, RollbackKeeps
  <1> QED BY <1>1, <1>2

LEMMA CommitKeeps ==
  ASSUME IInv, NEW r \in Runs, Commit(r) \/ CommitUnacknowledged(r)
  PROVE  IInv'
  <1>k. PICK k : k = Unit(r)
    OBVIOUS
  <1>0. PICK bad \in BOOLEAN :
          /\ pc[r] = "open" /\ BodyDone(r) /\ Applied(r) /\ LeaveFile(r, bad)
          /\ ctx' = ctx /\ file' = file
    BY DEF Commit, CommitUnacknowledged
  <1>1. /\ file[r] \in Files /\ k \in Keys /\ k = KeyOf(r, file[r]) /\ Process(r)
        /\ k.hash = HashOf[file[r]] /\ k.ver = ctx[r].ver /\ lock[k] = r
        /\ already[r] <=> row[k] = "complete"
        /\ already[r] => written[r] = 0
        /\ written[r] \in 0 .. MaxFacts /\ already[r] \in BOOLEAN
    BY <1>0, <1>k, KeyOfType DEF IInv, Process, Place, Holding, Unit, TypeOK
  <1>e. /\ row' = [row EXCEPT ![k] = "complete"]
        /\ facts' = [facts EXCEPT ![k] = KeptFacts(r) \cup ({r} \X (1 .. written[r]))]
        /\ count' = [count EXCEPT ![k] = IF already[r] THEN @ ELSE written[r]]
        /\ origin' = [origin EXCEPT ![k] = KeptOrigin(r)]
        /\ labels' = [labels EXCEPT ![k] = @ \cup {r}]
        /\ lock' = [lock EXCEPT ![k] = NoRun]
        /\ KeptFacts(r) = (IF already[r] THEN facts[k] ELSE {})
        /\ KeptOrigin(r) = (IF already[r] THEN origin[k] ELSE r)
    BY <1>0, <1>k DEF KeptFacts, KeptOrigin, Applied
  <1>f. /\ written' = [written EXCEPT ![r] = 0] /\ already' = [already EXCEPT ![r] = FALSE]
        /\ pc' = [pc EXCEPT ![r] = "next"] /\ todo' = [todo EXCEPT ![r] = @ \ {file[r]}]
        /\ failed' = [failed EXCEPT ![r] = @ \/ bad]
    BY <1>0 DEF Applied, LeaveFile
  <1>2. /\ ~already[r] => /\ written[r] = FactCount[k.hash]
                          /\ <<k.hash, k.ver>> \in Readable
    BY <1>0, <1>1, LedgerAssumption DEF BodyDone, MoreToWrite, CanParse, IInv, Process, Holding
  <1>3. TypeOK'
    <2>1. {r} \X (1 .. written[r]) \subseteq Writers \X (1 .. MaxFacts + 1)
      BY <1>1, LedgerAssumption DEF Writers
    <2>2. TypeOK
      BY DEF IInv
    <2>3. facts' \in [Keys -> SUBSET (Writers \X (1 .. MaxFacts + 1))]
      BY <1>e, <1>1, <2>1, <2>2 DEF TypeOK
    <2>4. /\ row' \in [Keys -> {"absent", "stranded", "complete"}]
          /\ count' \in [Keys -> 0 .. MaxFacts]
          /\ labels' \in [Keys -> SUBSET Writers]
          /\ lock' \in [Keys -> Runs \cup {NoRun}]
      BY <1>e, <1>1, <2>2 DEF TypeOK, Writers
    <2>5. origin' \in [Keys -> Writers \cup {NoRun}]
      BY <1>e, <1>1, <2>2 DEF TypeOK, Writers
    <2>6. /\ pc' \in [Runs -> {"off"} \cup Live \cup Ended]
          /\ todo' \in [Runs -> SUBSET Files]
          /\ already' \in [Runs -> BOOLEAN]
          /\ written' \in [Runs -> 0 .. MaxFacts]
          /\ failed' \in [Runs -> BOOLEAN]
      BY <1>f, <2>2, LedgerAssumption DEF TypeOK, Live, Ended
    <2> QED BY <1>0, <2>2, <2>3, <2>4, <2>5, <2>6 DEF TypeOK
  <1>4. Own(r) /\ Gains(r)
    BY <1>0, <1>1, <1>e, <1>f DEF Own, Gains, IInv, TypeOK
  <1>5. Committed'
    <2>1. ASSUME NEW j \in Keys, j # k PROVE Unfinished(j)' /\ Read(j)'
      BY <1>e, <2>1 DEF IInv, Committed, TypeOK, Unfinished, Read
    <2>2. ASSUME already[r] PROVE Unfinished(k)' /\ Read(k)'
      <3>1. 1 .. written[r] = {}
        BY <1>1, <2>2
      <3>2. facts'[k] = facts[k] /\ row'[k] = "complete" /\ origin'[k] = origin[k] /\ count'[k] = count[k]
        BY <1>e, <1>1, <2>2, <3>1 DEF IInv, TypeOK
      <3>3. row[k] = "complete" /\ Read(k)
        BY <1>1, <2>2 DEF IInv, Committed
      <3> QED BY <3>2, <3>3 DEF Unfinished, Read
    <2>3. ASSUME ~already[r] PROVE Unfinished(k)' /\ Read(k)'
      <3>1. facts'[k] = {r} \X (1 .. written[r]) /\ row'[k] = "complete" /\ origin'[k] = r /\ count'[k] = written[r]
        BY <1>e, <1>1, <2>3 DEF IInv, TypeOK
      <3>2. written[r] = FactCount[k.hash] /\ <<k.hash, k.ver>> \in Readable
        BY <1>2, <2>3
      <3> QED BY <3>1, <3>2 DEF Unfinished, Read
    <2> QED BY <1>1, <2>1, <2>2, <2>3 DEF Committed
  <1>6. Process(r)'
    <2>1. /\ pc'[r] = "next" /\ todo'[r] = todo[r] \ {file[r]} /\ failed'[r] = (failed[r] \/ bad)
          /\ r \in labels'[k] /\ row'[k] = "complete"
      BY <1>e, <1>f, <1>1 DEF IInv, TypeOK
    <2>2. \A f \in FilesOf[ctx[r].ev] \ todo[r] : f \in Files /\ KeyOf(r, f) \in Keys
      BY FilesOfType, KeyOfType DEF IInv
    <2>3. Visited(r)'
      BY <1>0, <1>1, <1>4, <1>e, <2>1, <2>2 DEF Process, Visited, Ingested, Gains, KeyOf
    <2> QED BY <1>0, <1>1, <2>1, <2>3 DEF Process, Place, Holding
  <1>7. \A j \in Keys : lock'[j] # r
    BY <1>e, <1>1, <1>k, LedgerAssumption DEF IInv, LockHeld, TypeOK
  <1> QED BY <1>3, <1>4, <1>5, <1>6, <1>7, Frame DEF OwnPart

-------------------------------------------------------------------------------
LEMMA NextIInv == IInv /\ [Next]_vars => IInv'
  <1> SUFFICES ASSUME IInv, [Next]_vars PROVE IInv'
    OBVIOUS
  <1>1. CASE UNCHANGED vars
    <2>1. TypeOK'
      BY <1>1 DEF vars, tables, IInv, TypeOK
    <2>2. \A r \in Runs : Process(r)'
      BY <1>1 DEF vars, tables, IInv, Process, Place, Visited, Ingested, Holding, Unit, KeyOf
    <2>3. (\A k \in Keys : LockHeld(k)') /\ Committed'
      BY <1>1, NothingCommitted DEF vars, tables, IInv, LockHeld, Unit, KeyOf
    <2> QED BY <2>1, <2>2, <2>3 DEF IInv
  <1>2. ASSUME NEW r \in Runs,
               Spawn(r) \/ Work(r) \/ CommitUnacknowledged(r) \/ Fault(r) \/ Kill(r)
        PROVE  IInv'
    BY <1>2, SpawnKeeps, FastPathKeeps, LabelSeenKeeps, UpsertKeeps, WriteKeeps,
       CommitKeeps, AbandonKeeps, ExitKeeps DEF Work
  <1> QED BY <1>1, <1>2 DEF Next, AllEnded

\* The inductive invariant holds of every reachable state.
THEOREM InductiveInvariant == Spec => []IInv
  BY InitIInv, NextIInv, PTL DEF Spec

\* The state is well typed.
THEOREM TypeCorrect == Spec => []TypeOK
  <1>1. IInv => TypeOK
    BY DEF IInv
  <1> QED BY <1>1, InductiveInvariant, PTL

\* A complete unit holds the facts of one run's reading, all of them, once.
THEOREM OneReadingHolds == Spec => []OneReading
  <1>1. IInv => OneReading
    BY DEF IInv, Committed, Read, OneReading
  <1> QED BY <1>1, InductiveInvariant, PTL

\* No unit is on record as done that no parser could read.
THEOREM NeverDoneUnreadHolds == Spec => []NeverDoneUnread
  <1>1. IInv => NeverDoneUnread
    BY DEF IInv, Committed, Read, NeverDoneUnread
  <1> QED BY <1>1, InductiveInvariant, PTL

\* A stage that exits 0 has ingested every file of its derivative.
THEOREM SuccessMeansIngestedHolds == Spec => []SuccessMeansIngested
  <1>1. IInv => SuccessMeansIngested
    BY DEF IInv, Process, Place, Visited, Ingested, KeyOf, SuccessMeansIngested
  <1> QED BY <1>1, InductiveInvariant, PTL

-------------------------------------------------------------------------------
(* What a step may do to the committed tables: nothing, finish a unit that   *)
(* no run had finished, or name a run on a finished one.                     *)

Finishes(r, k) ==
  /\ row[k] # "complete"
  /\ row' = [row EXCEPT ![k] = "complete"]
  /\ facts' = [facts EXCEPT ![k] = {r} \X (1 .. FactCount[k.hash])]
  /\ labels' = [labels EXCEPT ![k] = @ \cup {r}]
  /\ \A j \in Keys \ {k} : count'[j] = count[j] /\ origin'[j] = origin[j]

Meets(r, k) ==
  /\ row[k] = "complete"
  /\ UNCHANGED <<row, facts, count, origin>>
  /\ labels' = [labels EXCEPT ![k] = @ \cup {r}]

LEMMA StepOfTables ==
  ASSUME IInv, [Next]_vars
  PROVE  \/ UNCHANGED tables
         \/ \E r \in Runs, k \in Keys : Finishes(r, k) \/ Meets(r, k)
  <1>1. CASE UNCHANGED tables
    BY <1>1
  <1>2. ASSUME NEW r \in Runs, LabelSeen(r)
        PROVE  Unit(r) \in Keys /\ Meets(r, Unit(r))
    BY <1>2, KeyOfType DEF LabelSeen, Meets, IInv, Process, Place, Unit
  <1>3. ASSUME NEW r \in Runs, Commit(r) \/ CommitUnacknowledged(r)
        PROVE  \E k \in Keys : Finishes(r, k) \/ Meets(r, k)
    <2>k. PICK k : k = Unit(r)
      OBVIOUS
    <2>1. pc[r] = "open" /\ BodyDone(r) /\ Applied(r)
      BY <1>3 DEF Commit, CommitUnacknowledged
    <2>2. /\ file[r] \in Files /\ k \in Keys /\ k.hash = HashOf[file[r]]
          /\ already[r] <=> row[k] = "complete"
          /\ already[r] => written[r] = 0
          /\ written[r] \in 0 .. MaxFacts
          /\ written[r] <= FactCount[k.hash] /\ FactCount[k.hash] \in Nat
      BY <2>1, <2>k, KeyOfType, LedgerAssumption DEF IInv, Process, Place, Holding, Unit, TypeOK
    <2>3. /\ row' = [row EXCEPT ![k] = "complete"]
          /\ facts' = [facts EXCEPT ![k] = (IF already[r] THEN facts[k] ELSE {}) \cup ({r} \X (1 .. written[r]))]
          /\ count' = [count EXCEPT ![k] = IF already[r] THEN @ ELSE written[r]]
          /\ origin' = [origin EXCEPT ![k] = IF already[r] THEN origin[k] ELSE r]
          /\ labels' = [labels EXCEPT ![k] = @ \cup {r}]
      BY <2>1, <2>k DEF Applied, KeptFacts, KeptOrigin
    <2>4. ASSUME already[r] PROVE Meets(r, k)
      <3>1. 1 .. written[r] = {}
        BY <2>2, <2>4
      <3>2. facts' = facts
        BY <2>3, <2>4, <3>1 DEF IInv, TypeOK
      <3>3. row' = row /\ count' = count /\ origin' = origin
        BY <2>2, <2>3, <2>4 DEF IInv, TypeOK
      <3> QED BY <2>2, <2>3, <2>4, <3>2, <3>3 DEF Meets
    <2>5. ASSUME ~already[r] PROVE Finishes(r, k)
      <3>1. written[r] = FactCount[k.hash]
        BY <2>1, <2>2, <2>5 DEF BodyDone, MoreToWrite
      <3>2. facts' = [facts EXCEPT ![k] = {r} \X (1 .. FactCount[k.hash])]
        BY <2>3, <2>5, <3>1
      <3>3. \A j \in Keys \ {k} : count'[j] = count[j] /\ origin'[j] = origin[j]
        BY <2>3 DEF IInv, TypeOK
      <3> QED BY <2>2, <2>3, <2>5, <3>2, <3>3 DEF Finishes
    <2> QED BY <2>2, <2>4, <2>5
  <1>4. ASSUME NEW r \in Runs,
               \/ Spawn(r) \/ FastPath(r) \/ Upsert(r) \/ Write(r) \/ ParseError(r)
               \/ Exit(r) \/ Fault(r) \/ Kill(r)
        PROVE  UNCHANGED tables
    BY <1>4 DEF Spawn, FastPath, Upsert, Write, ParseError, Exit, Fault, Kill, Rollback
  <1>5. UNCHANGED vars => UNCHANGED tables
    BY DEF vars
  <1> QED BY <1>2, <1>3, <1>4, <1>5 DEF Next, Work, AllEnded

\* No step changes what a completed unit holds.
THEOREM CompletedIsFinalHolds == Spec => CompletedIsFinal
  <1>1. IInv /\ [Next]_vars => [KeepsCompleted]_vars
    <2> SUFFICES ASSUME IInv, [Next]_vars PROVE KeepsCompleted
      OBVIOUS
    <2>1. CASE UNCHANGED tables
      BY <2>1 DEF tables, KeepsCompleted
    <2>2. ASSUME NEW r \in Runs, NEW k \in Keys, Finishes(r, k) PROVE KeepsCompleted
      BY <2>2 DEF Finishes, KeepsCompleted, IInv, TypeOK
    <2>3. ASSUME NEW r \in Runs, NEW k \in Keys, Meets(r, k) PROVE KeepsCompleted
      BY <2>3 DEF Meets, KeepsCompleted, IInv, TypeOK
    <2> QED BY <2>1, <2>2, <2>3, StepOfTables
  <1> QED BY <1>1, InductiveInvariant, PTL DEF Spec, CompletedIsFinal

\* Readers see a once-only ledger: every initial state maps to its initial
\* state, every step to one of its steps or to none.
THEOREM RefinesOnceLedger == Spec => ImplementsOnce
  <1>1. Init => Once!Init
    BY DEF Init, Once!Init
  <1>2. IInv /\ [Next]_vars => [Once!Next]_(Once!vars)
    <2> SUFFICES ASSUME IInv, [Next]_vars PROVE [Once!Next]_(Once!vars)
      OBVIOUS
    <2>1. CASE UNCHANGED tables
      BY <2>1 DEF tables, Once!vars
    <2>2. ASSUME NEW r \in Runs, NEW k \in Keys, Finishes(r, k) PROVE Once!Publish(k, r)
      <3>1. /\ row[k] # "complete"
            /\ \A j \in Keys : row'[j] = "complete" <=> (j = k \/ row[j] = "complete")
        BY <2>2 DEF Finishes, IInv, TypeOK
      <3>2. /\ facts'[k] = {r} \X (1 .. FactCount[k.hash])
            /\ \A j \in Keys \ {k} : facts'[j] = facts[j]
        BY <2>2 DEF Finishes, IInv, TypeOK
      <3>3. /\ labels'[k] \cap Runs = {r}
            /\ \A j \in Keys \ {k} : labels'[j] = labels[j]
        BY <2>2, <3>1 DEF Finishes, IInv, TypeOK, Committed, Unfinished
      <3>4. Once!Batch(k, r) = {r} \X (1 .. FactCount[k.hash])
        BY DEF Once!Batch
      <3>5. {j \in Keys : row'[j] = "complete"} = {j \in Keys : row[j] = "complete"} \cup {k}
        BY <3>1
      <3> HIDE DEF Keys
      <3>6. [j \in Keys |-> IF row'[j] = "complete" THEN facts'[j] ELSE {}]
              = [[j \in Keys |-> IF row[j] = "complete" THEN facts[j] ELSE {}] EXCEPT ![k] = Once!Batch(k, r)]
        BY <3>1, <3>2, <3>4
      <3>7. [j \in Keys |-> IF row'[j] = "complete" THEN labels'[j] \cap Runs ELSE {}]
              = [[j \in Keys |-> IF row[j] = "complete" THEN labels[j] \cap Runs ELSE {}] EXCEPT ![k] = {r}]
        BY <3>1, <3>3
      <3> QED BY <3>1, <3>5, <3>6, <3>7 DEF Once!Publish
    <2>3. ASSUME NEW r \in Runs, NEW k \in Keys, Meets(r, k) PROVE Once!See(k, r)
      <3>1. row[k] = "complete" /\ row' = row /\ facts' = facts
        BY <2>3 DEF Meets
      <3>2. /\ labels'[k] \cap Runs = (labels[k] \cap Runs) \cup {r}
            /\ \A j \in Keys \ {k} : labels'[j] = labels[j]
        BY <2>3 DEF Meets, IInv, TypeOK
      <3> QED BY <3>1, <3>2 DEF Once!See
    <2> QED BY <2>1, <2>2, <2>3, StepOfTables DEF Once!Next
  <1> QED BY <1>1, <1>2, InductiveInvariant, PTL DEF Spec, ImplementsOnce, Once!Spec
-------------------------------------------------------------------------------
(* What readers see.  Nothing of the ledger's steps is needed here but its     *)
(* types: it is the view's choice of the newest that is shown to exist.       *)

\* Of naturals that are bounded one is the greatest: at the least distance from
\* the bound.
LEMMA Greatest ==
  ASSUME NEW S \in SUBSET Nat, S # {}, NEW top \in Nat, \A v \in S : v <= top
  PROVE  \E m \in S : \A v \in S : v <= m
<1> DEFINE Less == {p \in Nat \X Nat : p[1] < p[2]}
           Distances == {d \in Nat : top - d \in S}
<1>1. IsWellFoundedOn(Less, Nat) BY NatLessThanWellFounded DEF OpToRel
<1>2. Distances \subseteq Nat /\ Distances # {}
  <2>1. PICK v \in S : TRUE OBVIOUS
  <2>2. top - v \in Distances OBVIOUS
  <2> QED BY <2>2
<1> HIDE DEF Less, Distances
<1>3. PICK least \in Distances : \A d \in Distances : <<d, least>> \notin Less BY <1>1, <1>2, WFMin
<1>4. least \in Nat /\ top - least \in S BY DEF Distances
<1>5. ASSUME NEW v \in S PROVE v <= top - least
  <2>1. v \in Nat /\ v <= top /\ top - v \in Nat /\ top - (top - v) = v OBVIOUS
  <2>2. top - v \in Distances BY <2>1 DEF Distances
  <2>3. <<top - v, least>> \notin Less BY <1>3, <2>2
  <2>4. ~(top - v < least) BY <1>4, <2>1, <2>3 DEF Less
  <2> QED BY <1>4, <2>1, <2>4
<1> QED BY <1>4, <1>5

\* Whatever was ever complete stays readable, at its version or a newer complete
\* one: an unfinished re-parse never hides finished facts
\* (current_forensic_records).
THEOREM ReparseNeverHidesHolds == Spec => []ReparseNeverHides
<1>1. ReparseNeverHides
  <2> SUFFICES ASSUME NEW k \in Keys, row[k] = "complete"
               PROVE  \E n \in Current : n.ev = k.ev /\ n.hash = k.hash /\ n.ver >= k.ver
    BY DEF ReparseNeverHides
  <2> DEFINE Of(v) == [ev |-> k.ev, hash |-> k.hash, ver |-> v]
             Vers == {v \in Versions : row[Of(v)] = "complete"}
  <2>1. Versions \subseteq Nat /\ MaxVersion \in Nat /\ \A v \in Versions : v <= MaxVersion BY LedgerAssumption
  <2>2. \A n \in Keys : n.ver \in Versions /\ n = [ev |-> n.ev, hash |-> n.hash, ver |-> n.ver] BY DEF Keys
  <2>3. k.ver \in Vers BY <2>2
  <2>4. PICK m \in Vers : \A v \in Vers : v <= m
    <3>1. Vers \in SUBSET Nat /\ Vers # {} /\ \A v \in Vers : v <= MaxVersion BY <2>1, <2>3
    <3> HIDE DEF Vers
    <3> QED BY <2>1, <3>1, Greatest
  <2>5. m \in Versions /\ row[Of(m)] = "complete" /\ Of(m) \in Keys BY DEF Keys
  <2>6. ASSUME NEW n \in Newer(Of(m)) PROVE row[n] # "complete"
    <3>1. n \in Keys /\ n.ev = k.ev /\ n.hash = k.hash /\ n.ver > m BY DEF Newer
    <3>2. n = Of(n.ver) /\ n.ver \in Versions BY <2>2, <3>1
    <3>3. row[n] = "complete" => n.ver \in Vers BY <3>2
    <3>4. n.ver \in Nat /\ m \in Nat BY <2>1, <2>5, <3>2
    <3> QED BY <2>4, <3>1, <3>3, <3>4
  <2>7. Of(m) \in Current BY <2>5, <2>6 DEF Current
  <2>8. k.ver <= m BY <2>3, <2>4
  <2>9. k.ver \in Nat /\ m \in Nat BY <2>1, <2>2, <2>5
  <2> QED BY <2>7, <2>8, <2>9
<1> QED BY <1>1, PTL
================================================================================
