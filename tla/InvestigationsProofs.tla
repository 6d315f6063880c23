------------------------- MODULE InvestigationsProofs -------------------------
(* That the app never has two orchestrators and tells the end of each as it     *)
(* was, for any number of analyses, retries, cancels and timers, and whatever   *)
(* the examiner does in Investigations meanwhile; and that a walk through the    *)
(* pages of the records is whole.                                             *)
EXTENDS Investigations, RecordPages, SequenceTheorems, FiniteSetTheorems, TLAPS

Whys == {"cancelled", "timeout"}
OrchType == [is : {"alive", "stopping", "killed", "exited", "closed"}, code : {0, 1},
             target : Sources \cup {Workspace}, reads : SUBSET (Labels \cup Sources),
             asked : SUBSET (Whys \cup {"SIGKILL"})]
ToldType == [gen : Nat, success : BOOLEAN, cancelled : BOOLEAN, timedOut : BOOLEAN]
SessionFields == {"gen", "status", "target", "result"}
Typed ==
  /\ orch \in Seq(OrchType) /\ tracked \in 0 .. Len(orch) /\ reason \in Whys \cup {None}
  /\ DOMAIN session = SessionFields /\ session.result \in ToldType \cup {None}
  /\ ending \subseteq [next : {"abort", "summary"}, told : ToldType]

\* A reason is of the orchestrator tracked, which was asked to end for it.
ReasonIsOfTracked == reason # None => tracked # 0 /\ reason \in orch[tracked].asked
\* An end told is of an orchestrator that is closed, and is how it ended.
ToldTrue(r, o) ==
  /\ r.gen \in DOMAIN o /\ o[r.gen].is = "closed" /\ (r.success <=> o[r.gen].code = 0)
  /\ r.cancelled => "cancelled" \in o[r.gen].asked
  /\ r.timedOut => "timeout" \in o[r.gen].asked
EndsAreTrue ==
  /\ \A e \in ending : ToldTrue(e.told, orch)
  /\ session.result # None => ToldTrue(session.result, orch)
\* Only what is not yet closed is tracked.
TrackedIsOpen == tracked # 0 => orch[tracked].is # "closed"
IInv == Typed /\ OneOrchestrator /\ TrackedIsOpen /\ ReasonIsOfTracked /\ EndsAreTrue

-------------------------------------------------------------------------------
(* An orchestrator that is closed stays as it is. *)

Grows(o, p) ==
  /\ {o, p} \subseteq Seq(OrchType) /\ Len(p) >= Len(o)
  /\ \A g \in DOMAIN o : o[g].is = "closed" =>
       p[g].is = "closed" /\ p[g].code = o[g].code /\ o[g].asked \subseteq p[g].asked

\* What was told truly stays true.
LEMMA ToldStaysTrue ==
  ASSUME NEW o, NEW p, Grows(o, p), NEW r \in ToldType, ToldTrue(r, o)
  PROVE  ToldTrue(r, p)
<1>1. r.gen \in DOMAIN p BY DEF Grows, ToldTrue
<1> QED BY <1>1 DEF Grows, ToldTrue

\* A step that tells at most one new end, and that truly.
LEMMA TellsTruly ==
  ASSUME IInv, Grows(orch, orch'), NEW told \in ToldType, ToldTrue(told, orch'),
         \A e \in ending' : e.told = told \/ \E f \in ending : e.told = f.told,
         session'.result \in {session.result, None, told}
  PROVE  EndsAreTrue'
<1>1. \A e \in ending' : ToldTrue(e.told, orch')
  <2> SUFFICES ASSUME NEW e \in ending', NEW f \in ending, e.told = f.told PROVE ToldTrue(e.told, orch')
    OBVIOUS
  <2>1. f.told \in ToldType /\ ToldTrue(f.told, orch) BY DEF IInv, Typed, EndsAreTrue
  <2> QED BY <2>1, ToldStaysTrue
<1>2. session'.result # None => ToldTrue(session'.result, orch')
  <2> SUFFICES ASSUME session.result # None, session'.result = session.result
               PROVE  ToldTrue(session'.result, orch')
    OBVIOUS
  <2>1. session.result \in ToldType /\ ToldTrue(session.result, orch) BY DEF IInv, Typed, EndsAreTrue
  <2> QED BY <2>1, ToldStaysTrue
<1> QED BY <1>1, <1>2 DEF EndsAreTrue

\* A step that tells nothing new.
LEMMA TellsNothing ==
  ASSUME IInv, Grows(orch, orch'), \A e \in ending' : \E f \in ending : e.told = f.told,
         session'.result \in {session.result, None} \cup {f.told : f \in ending}
  PROVE  EndsAreTrue'
<1>1. \A e \in ending' : ToldTrue(e.told, orch')
  <2> SUFFICES ASSUME NEW e \in ending', NEW f \in ending, e.told = f.told PROVE ToldTrue(e.told, orch')
    OBVIOUS
  <2>1. f.told \in ToldType /\ ToldTrue(f.told, orch) BY DEF IInv, Typed, EndsAreTrue
  <2> QED BY <2>1, ToldStaysTrue
<1>2. session'.result # None => ToldTrue(session'.result, orch')
  <2> SUFFICES ASSUME session'.result # None PROVE ToldTrue(session'.result, orch')
    OBVIOUS
  <2>1. session'.result \in ToldType /\ ToldTrue(session'.result, orch) BY DEF IInv, Typed, EndsAreTrue
  <2> QED BY <2>1, ToldStaysTrue
<1> QED BY <1>1, <1>2 DEF EndsAreTrue

\* What changing one orchestrator leaves of the others.
LEMMA OneChanged ==
  ASSUME IInv, NEW g \in Gens, NEW o \in OrchType, orch' = [orch EXCEPT ![g] = o],
         orch[g].is = "closed" => o.is = "closed" /\ o.code = orch[g].code /\ orch[g].asked \subseteq o.asked
  PROVE  /\ orch' \in Seq(OrchType) /\ Len(orch') = Len(orch) /\ DOMAIN orch' = DOMAIN orch
         /\ orch'[g] = o /\ \A h \in Gens \ {g} : orch'[h] = orch[h]
         /\ Grows(orch, orch')
<1>1. orch \in Seq(OrchType) /\ DOMAIN orch = 1 .. Len(orch) BY DEF IInv, Typed
<1>2. g \in 1 .. Len(orch) BY <1>1 DEF Gens
<1>3. orch' \in Seq(OrchType) /\ Len(orch') = Len(orch) BY <1>1, <1>2, ExceptSeq
<1>4. DOMAIN orch' = DOMAIN orch BY <1>1, <1>3
<1>5. orch'[g] = o /\ \A h \in Gens \ {g} : orch'[h] = orch[h] BY <1>1 DEF Gens
<1>6. Grows(orch, orch') BY <1>1, <1>3, <1>5 DEF Grows, Gens
<1> QED BY <1>3, <1>4, <1>5, <1>6

-------------------------------------------------------------------------------
(* One lemma per operation: it preserves the invariant. *)

\* A new one is started only when none is tracked, which is when all are closed.
LEMMA StartIInv ==
  ASSUME IInv, NEW target \in Sources \cup {Workspace}, NEW reads \in SUBSET (Labels \cup Sources),
         Start(target, reads)
  PROVE  IInv'
<1> DEFINE o == Spawned(target, reads)
<1>1. o \in OrchType /\ o.is = "alive" BY DEF Spawned, OrchType
<1>2. orch \in Seq(OrchType) /\ DOMAIN orch = 1 .. Len(orch) /\ Len(orch) \in Nat BY DEF IInv, Typed
<1>3. orch' = Append(orch, o) BY DEF Start
<1> HIDE DEF o
<1>4. /\ orch' \in Seq(OrchType) /\ Len(orch') = Len(orch) + 1 /\ DOMAIN orch' = 1 .. Len(orch) + 1
      /\ orch'[Len(orch) + 1] = o /\ \A h \in 1 .. Len(orch) : orch'[h] = orch[h]
  BY <1>1, <1>2, <1>3, AppendProperties
<1>5. tracked = 0 /\ tracked' = Len(orch) + 1 /\ reason' = None /\ ending' = ending
      /\ session' = [gen |-> Len(orch) + 1, status |-> "running", target |-> target, result |-> None]
  BY DEF Start, Latest, Reset
<1>6. Typed' BY <1>2, <1>4, <1>5 DEF IInv, Typed, SessionFields
<1>7. OneOrchestrator' /\ TrackedIsOpen' BY <1>1, <1>2, <1>4, <1>5 DEF IInv, OneOrchestrator, Gens, TrackedIsOpen
<1>8. ReasonIsOfTracked' BY <1>5 DEF ReasonIsOfTracked
<1>9. Grows(orch, orch') BY <1>2, <1>4 DEF Grows
<1>10. EndsAreTrue' BY <1>5, <1>9, TellsNothing
<1> QED BY <1>6, <1>7, <1>8, <1>10 DEF IInv

\* What was asked of the one tracked is the reason kept.
LEMMA KillKeeps ==
  ASSUME IInv, NEW why \in Whys, Kill(why), tracked' = tracked, ending' = ending, session' = session
  PROVE  IInv'
<1> DEFINE o == [orch[tracked] EXCEPT !.is = IF @ = "alive" THEN "stopping" ELSE @, !.asked = @ \cup {why}]
<1>1. orch \in Seq(OrchType) /\ tracked \in Gens BY DEF Kill, IInv, Typed, Gens
<1>2. orch[tracked] \in OrchType BY <1>1, ElementOfSeq DEF Gens
<1>3. /\ o \in OrchType /\ why \in o.asked /\ orch[tracked].asked \subseteq o.asked /\ o.code = orch[tracked].code
      /\ orch[tracked].is = "closed" <=> o.is = "closed"
  BY <1>2 DEF OrchType, Whys
<1>4. orch' = [orch EXCEPT ![tracked] = o] BY <1>1, <1>2 DEF Kill, OrchType
<1> HIDE DEF o
<1>5. /\ orch' \in Seq(OrchType) /\ Len(orch') = Len(orch) /\ DOMAIN orch' = DOMAIN orch
      /\ orch'[tracked] = o /\ \A h \in Gens \ {tracked} : orch'[h] = orch[h]
      /\ Grows(orch, orch')
  BY <1>1, <1>3, <1>4, OneChanged
<1>6. Typed' BY <1>5 DEF Kill, IInv, Typed
<1>7. OneOrchestrator' /\ TrackedIsOpen' BY <1>1, <1>3, <1>5 DEF IInv, OneOrchestrator, Gens, TrackedIsOpen
<1>8. ReasonIsOfTracked' BY <1>1, <1>3, <1>5 DEF Kill, ReasonIsOfTracked, Gens, IInv, Typed
<1>9. EndsAreTrue' BY <1>5, TellsNothing
<1> QED BY <1>6, <1>7, <1>8, <1>9 DEF IInv

LEMMA CancelIInv == ASSUME IInv, Cancel PROVE IInv'
BY KillKeeps DEF Cancel, GuardKept, Whys

LEMMA TimeoutIInv == ASSUME IInv, TimeoutFires PROVE IInv'
<1>1. CASE Kill("timeout") BY <1>1, KillKeeps DEF TimeoutFires, Whys
<1>2. CASE tracked = 0 /\ UNCHANGED <<orch, reason, escalations>>
  <2>1. UNCHANGED <<orch, tracked, reason, session, ending>> BY <1>2 DEF TimeoutFires
  <2> QED BY <2>1 DEF IInv, Typed, OneOrchestrator, Gens, TrackedIsOpen, ReasonIsOfTracked, EndsAreTrue
<1> QED BY <1>1, <1>2 DEF TimeoutFires

\* A SIGKILL, late or not, reaches the one tracked.
LEMMA EscalationIInv == ASSUME IInv, EscalationFires PROVE IInv'
<1>1. CASE tracked # 0 /\ orch[tracked].is # "exited" /\ tracked \in Gens /\ orch[tracked].is # "closed"
  <2> DEFINE o == [orch[tracked] EXCEPT !.is = "killed", !.asked = @ \cup {"SIGKILL"}]
  <2>1. orch \in Seq(OrchType) BY DEF IInv, Typed
  <2>2. orch[tracked] \in OrchType BY <1>1, <2>1, ElementOfSeq DEF Gens
  <2>3. o \in OrchType /\ orch[tracked].asked \subseteq o.asked /\ o.code = orch[tracked].code
        /\ o.is = "killed"
    BY <2>2 DEF OrchType
  <2>4. orch' = [orch EXCEPT ![tracked] = o] BY <1>1, <2>1, <2>2 DEF EscalationFires, OrchType
  <2> HIDE DEF o
  <2>5. /\ orch' \in Seq(OrchType) /\ Len(orch') = Len(orch) /\ DOMAIN orch' = DOMAIN orch
        /\ orch'[tracked] = o /\ \A h \in Gens \ {tracked} : orch'[h] = orch[h]
        /\ Grows(orch, orch')
    BY <1>1, <2>3, <2>4, OneChanged
  <2>6. UNCHANGED <<tracked, reason, session, ending>> BY DEF EscalationFires
  <2>7. Typed' BY <2>5, <2>6 DEF IInv, Typed
  <2>8. OneOrchestrator' /\ TrackedIsOpen' BY <1>1, <2>3, <2>5, <2>6 DEF IInv, OneOrchestrator, Gens, TrackedIsOpen
  <2>9. ReasonIsOfTracked' BY <1>1, <2>3, <2>5, <2>6 DEF ReasonIsOfTracked, IInv
  <2>10. EndsAreTrue' BY <2>5, <2>6, TellsNothing
  <2> QED BY <2>7, <2>8, <2>9, <2>10 DEF IInv
<1>2. CASE ~(tracked # 0 /\ orch[tracked].is # "exited")
  <2>1. UNCHANGED <<orch, tracked, reason, session, ending>> BY <1>2 DEF EscalationFires
  <2> QED BY <2>1 DEF IInv, Typed, OneOrchestrator, Gens, TrackedIsOpen, ReasonIsOfTracked, EndsAreTrue
<1>3. tracked # 0 => tracked \in Gens /\ orch[tracked].is # "closed"
  BY DEF IInv, Typed, Gens, TrackedIsOpen
<1> QED BY <1>1, <1>2, <1>3

LEMMA ExitsIInv == ASSUME IInv, NEW g \in Gens, NEW code \in {0, 1}, Exits(g, code) PROVE IInv'
<1> DEFINE o == [orch[g] EXCEPT !.is = "exited", !.code = code]
<1>1. orch \in Seq(OrchType) BY DEF IInv, Typed
<1>2. orch[g] \in OrchType BY <1>1, ElementOfSeq DEF Gens
<1>3. o \in OrchType /\ o.asked = orch[g].asked BY <1>2 DEF OrchType
<1>4. orch' = [orch EXCEPT ![g] = o] BY <1>1, <1>2 DEF Exits, OrchType
<1>5. orch[g].is \notin {"closed", "exited"} BY DEF Exits, Running
<1>6. o.is = "exited" BY <1>2 DEF OrchType
<1> HIDE DEF o
<1>7. /\ orch' \in Seq(OrchType) /\ Len(orch') = Len(orch) /\ DOMAIN orch' = DOMAIN orch
      /\ orch'[g] = o /\ \A h \in Gens \ {g} : orch'[h] = orch[h]
      /\ Grows(orch, orch')
  BY <1>3, <1>4, <1>5, OneChanged
<1>8. UNCHANGED <<tracked, reason, session, ending>> BY DEF Exits
<1>9. Typed' BY <1>7, <1>8 DEF IInv, Typed
<1>10. OneOrchestrator' /\ TrackedIsOpen' BY <1>5, <1>6, <1>7, <1>8 DEF IInv, OneOrchestrator, Gens, TrackedIsOpen
<1>11. ReasonIsOfTracked' BY <1>3, <1>7, <1>8 DEF ReasonIsOfTracked, IInv, Typed, Gens
<1>12. EndsAreTrue' BY <1>7, <1>8, TellsNothing
<1> QED BY <1>9, <1>10, <1>11, <1>12 DEF IInv

\* One that has gone is the one tracked, so the reason kept is its own.
LEMMA CloseIInv == ASSUME IInv, NEW g \in Gens, Close(g) PROVE IInv'
<1> DEFINE o == [orch[g] EXCEPT !.is = "closed"]
           why == IF orch[g].code = 0 THEN None ELSE reason
           told == Told(g, why)
<1>1. orch \in Seq(OrchType) /\ DOMAIN orch = 1 .. Len(orch) BY DEF IInv, Typed
<1>2. orch[g] \in OrchType BY <1>1, ElementOfSeq DEF Gens
<1>3. o \in OrchType /\ o.asked = orch[g].asked /\ o.code = orch[g].code /\ o.is = "closed" BY <1>2 DEF OrchType
<1>4. orch' = [orch EXCEPT ![g] = o] BY <1>1, <1>2 DEF Close, OrchType
<1>5. tracked = g /\ g \in Nat BY <1>1 DEF IInv, OneOrchestrator, Close, Gens
<1> HIDE DEF o
<1>6. /\ orch' \in Seq(OrchType) /\ Len(orch') = Len(orch) /\ DOMAIN orch' = DOMAIN orch
      /\ orch'[g] = o /\ \A h \in Gens \ {g} : orch'[h] = orch[h]
      /\ Grows(orch, orch')
  BY <1>3, <1>4, OneChanged
<1>7. told \in ToldType /\ told.gen = g /\ (told.success <=> orch[g].code = 0)
      /\ (told.cancelled => why = "cancelled") /\ (told.timedOut => why = "timeout")
  BY <1>5 DEF Told, ToldType
<1>8. why # None => why \in orch[g].asked BY <1>5 DEF IInv, ReasonIsOfTracked
<1>9. ToldTrue(told, orch') BY <1>3, <1>6, <1>7, <1>8, AnalysisAssumption DEF ToldTrue, Gens
<1>10. tracked' = 0 /\ reason' = None BY DEF Close, Untracked, Reset
<1> HIDE DEF why, told
<1>11. \/ session' = Finished(told) /\ ending' = ending
       \/ session' = session /\ \E next \in {"abort", "summary"} : ending' = ending \cup {[next |-> next, told |-> told]}
  BY DEF Close, told, why
<1>12. DOMAIN session' = SessionFields /\ session'.result \in {session.result, told}
  BY <1>11 DEF Finished, IInv, Typed, SessionFields
<1>13. ending' \subseteq [next : {"abort", "summary"}, told : ToldType]
       /\ \A e \in ending' : e.told = told \/ \E f \in ending : e.told = f.told
  BY <1>7, <1>11 DEF IInv, Typed
<1>14. Typed' BY <1>6, <1>7, <1>10, <1>12, <1>13 DEF IInv, Typed
<1>15. OneOrchestrator' /\ TrackedIsOpen' BY <1>3, <1>5, <1>6, <1>10 DEF IInv, OneOrchestrator, Gens, TrackedIsOpen
<1>16. ReasonIsOfTracked' BY <1>10 DEF ReasonIsOfTracked
<1>17. EndsAreTrue' BY <1>6, <1>7, <1>9, <1>12, <1>13, TellsTruly
<1> QED BY <1>14, <1>15, <1>16, <1>17 DEF IInv

\* It was never asked to end, so no reason is kept: its failure is its own.
LEMMA SpawnFailsIInv == ASSUME IInv, NEW g \in Gens, SpawnFails(g) PROVE IInv'
<1> DEFINE o == [orch[g] EXCEPT !.is = "closed", !.code = 1]
           told == [Told(g, reason) EXCEPT !.success = FALSE]
<1>1. orch \in Seq(OrchType) /\ DOMAIN orch = 1 .. Len(orch) BY DEF IInv, Typed
<1>2. orch[g] \in OrchType BY <1>1, ElementOfSeq DEF Gens
<1>3. o \in OrchType /\ o.code = 1 /\ o.is = "closed" BY <1>2 DEF OrchType
<1>4. orch' = [orch EXCEPT ![g] = o] BY <1>1, <1>2 DEF SpawnFails, OrchType
<1>5. tracked = g /\ g \in Nat /\ orch[g].is = "alive" /\ orch[g].asked = {} BY <1>1 DEF SpawnFails, Gens
<1> HIDE DEF o
<1>6. /\ orch' \in Seq(OrchType) /\ Len(orch') = Len(orch) /\ DOMAIN orch' = DOMAIN orch
      /\ orch'[g] = o /\ \A h \in Gens \ {g} : orch'[h] = orch[h]
      /\ Grows(orch, orch')
  BY <1>3, <1>4, <1>5, OneChanged
<1>7. reason = None BY <1>5 DEF IInv, ReasonIsOfTracked
<1>8. told \in ToldType /\ told.gen = g /\ ~told.success /\ ~told.cancelled /\ ~told.timedOut
  BY <1>5, <1>7, AnalysisAssumption DEF Told, ToldType
<1>9. ToldTrue(told, orch') BY <1>3, <1>6, <1>8 DEF ToldTrue, Gens
<1>10. tracked' = 0 /\ reason' = None BY DEF SpawnFails, Untracked, Reset
<1> HIDE DEF told
<1>11. session' = Finished(told) /\ ending' = ending \cup {[next |-> "abort", told |-> told]}
  BY DEF SpawnFails, told
<1>12. DOMAIN session' = SessionFields /\ session'.result = told BY <1>11 DEF Finished, IInv, Typed, SessionFields
<1>13. ending' \subseteq [next : {"abort", "summary"}, told : ToldType]
       /\ \A e \in ending' : e.told = told \/ \E f \in ending : e.told = f.told
  BY <1>8, <1>11 DEF IInv, Typed
<1>14. Typed' BY <1>6, <1>8, <1>10, <1>12, <1>13 DEF IInv, Typed
<1>15. OneOrchestrator' /\ TrackedIsOpen' BY <1>3, <1>5, <1>6, <1>10 DEF IInv, OneOrchestrator, Gens, TrackedIsOpen
<1>16. ReasonIsOfTracked' BY <1>10 DEF ReasonIsOfTracked
<1>17. EndsAreTrue' BY <1>6, <1>8, <1>9, <1>12, <1>13, TellsTruly
<1> QED BY <1>14, <1>15, <1>16, <1>17 DEF IInv

\* What is still to be told is told as it was at the close, whoever runs now.
LEMMA AbortAndFinishIInv == ASSUME IInv, NEW e \in ending, Abort(e) \/ Finish(e) PROVE IInv'
<1>1. UNCHANGED <<orch, tracked, reason>> BY DEF Abort, Finish
<1>2. orch \in Seq(OrchType) /\ Grows(orch, orch') BY <1>1 DEF IInv, Typed, Grows
<1>3. e \in [next : {"abort", "summary"}, told : ToldType] BY DEF IInv, Typed
<1>4. CASE Abort(e)
  <2> DEFINE f == [e EXCEPT !.next = "summary"]
  <2>1. f \in [next : {"abort", "summary"}, told : ToldType] /\ f.told = e.told BY <1>3
  <2>2. ending' = (ending \ {e}) \cup {f} /\ session' = session BY <1>4 DEF Abort
  <2> HIDE DEF f
  <2>3. Typed' BY <1>1, <2>1, <2>2 DEF IInv, Typed
  <2>4. \A d \in ending' : \E c \in ending : d.told = c.told BY <2>1, <2>2
  <2>5. EndsAreTrue' BY <1>2, <2>2, <2>4, TellsNothing
  <2> QED BY <1>1, <2>3, <2>5 DEF IInv, OneOrchestrator, Gens, TrackedIsOpen, ReasonIsOfTracked
<1>5. CASE Finish(e)
  <2>1. ending' = ending \ {e} /\ session' = Finished(e.told) BY <1>5 DEF Finish
  <2>2. DOMAIN session' = SessionFields /\ session'.result = e.told
    BY <2>1 DEF Finished, IInv, Typed, SessionFields
  <2>3. Typed' BY <1>1, <1>3, <2>1, <2>2 DEF IInv, Typed
  <2>4. EndsAreTrue' BY <1>2, <2>1, <2>2, TellsNothing
  <2> QED BY <1>1, <2>3, <2>4 DEF IInv, OneOrchestrator, Gens, TrackedIsOpen, ReasonIsOfTracked
<1> QED BY <1>4, <1>5

LEMMA AnalysisIInv == ASSUME IInv, AnalysisNext PROVE IInv'
<1>1. ASSUME NEW included \in SUBSET Labels, NEW prepared \in SUBSET Labels, StartAnalysis(included, prepared)
      PROVE  IInv'
  BY <1>1, StartIInv DEF StartAnalysis
<1>2. ASSUME NEW g \in Gens, KilledEnds(g) PROVE IInv'
  BY <1>2, ExitsIInv DEF KilledEnds
<1> QED
  BY <1>1, <1>2, CancelIInv, TimeoutIInv, EscalationIInv, CloseIInv, SpawnFailsIInv, ExitsIInv, AbortAndFinishIInv
  DEF AnalysisNext

-------------------------------------------------------------------------------
(* Investigations around it: a run selected is one of Runs, so what is retried  *)
(* is a backup source.                                                        *)

Kinds == {"load", "refresh", "poll", "stages", "records"}
CallTyped(c) == DOMAIN c = {"kind", "run", "read"} /\ c.kind \in Kinds
StoreTyped ==
  /\ DOMAIN store = {"runs", "selected", "state", "stages", "records", "loaded"}
  /\ store.selected \in Runs \cup {None} /\ \A c \in calls : CallTyped(c)

LEMMA InitInvestigations == InvestigationsInit => IInv /\ StoreTyped
<1> SUFFICES ASSUME InvestigationsInit PROVE IInv /\ StoreTyped OBVIOUS
<1>1. orch = <<>> /\ tracked = 0 /\ reason = None /\ ending = {}
      /\ session = [gen |-> 0, status |-> "idle", target |-> None, result |-> None]
  BY DEF InvestigationsInit, AnalysisInit, InitSession
<1>2. orch \in Seq(OrchType) /\ Len(orch) = 0 /\ DOMAIN orch = {} BY <1>1
<1>3. IInv
  BY <1>1, <1>2 DEF IInv, Typed, SessionFields, OneOrchestrator, Gens, TrackedIsOpen, ReasonIsOfTracked, EndsAreTrue
<1>4. StoreTyped BY DEF InvestigationsInit, StoreTyped, CallTyped, Kinds
<1> QED BY <1>3, <1>4

\* An answer changes no selection.
LEMMA AnswerKeepsSelection ==
  ASSUME StoreTyped, NEW c \in calls
  PROVE  DOMAIN Answered(c) = DOMAIN store /\ Answered(c).selected = store.selected
<1>1. c.kind \in Kinds BY DEF StoreTyped, CallTyped
<1>2. CASE c.kind \in {"refresh", "poll"} BY <1>2 DEF Answered, Refreshes, StoreTyped
<1>3. CASE c.kind \in {"load", "stages", "records"} BY <1>3 DEF Answered, StoreTyped
<1> QED BY <1>1, <1>2, <1>3 DEF Kinds

\* Queries and what the examiner opens.
LEMMA StoreStep ==
  ASSUME StoreTyped,
         \/ \E c \in calls : Read(c) \/ Answer(c) \/ Fails(c)
         \/ \E r \in Runs : SelectRun(r)
         \/ \E next \in {"runs", "records", "workspace"} : Open(next)
         \/ ViewInvestigations \/ Poll \/ RetryEffect
  PROVE  StoreTyped'
<1>1. \A kind \in Kinds, r \in Runs \cup {None} : CallTyped(Call(kind, r)) BY DEF Call, CallTyped
<1>2. ASSUME NEW c \in calls, Read(c) PROVE StoreTyped'
  <2>1. CallTyped([c EXCEPT !.read = db]) BY DEF StoreTyped, CallTyped
  <2> QED BY <1>2, <2>1 DEF Read, StoreTyped
<1>3. ASSUME NEW c \in calls, Answer(c) PROVE StoreTyped'
  <2>1. DOMAIN store' = DOMAIN store /\ store'.selected = store.selected BY <1>3, AnswerKeepsSelection DEF Answer
  <2>2. CallTyped(Call("stages", c.run)) BY DEF Call, CallTyped, Kinds
  <2>3. \A d \in calls' : CallTyped(d) BY <1>3, <2>2 DEF Answer, StoreTyped
  <2> QED BY <2>1, <2>3 DEF StoreTyped
<1>4. ASSUME NEW c \in calls, Fails(c) PROVE StoreTyped'
  <2>1. CallTyped(Call("stages", c.run)) BY DEF Call, CallTyped, Kinds
  <2> QED BY <1>4, <2>1 DEF Fails, StoreTyped
<1>5. ASSUME NEW r \in Runs, SelectRun(r) PROVE StoreTyped'
  BY <1>1, <1>5 DEF SelectRun, StoreTyped, Asks, Kinds
<1>6. ASSUME NEW next \in {"runs", "records", "workspace"}, Open(next) PROVE StoreTyped'
  BY <1>1, <1>6 DEF Open, StoreTyped, Asks, Kinds
<1>7. CASE ViewInvestigations BY <1>1, <1>7 DEF ViewInvestigations, StoreTyped, Asks, Kinds
<1>8. CASE Poll BY <1>1, <1>8 DEF Poll, StoreTyped, Asks, Kinds
<1>9. CASE RetryEffect
  <2>1. \A c \in ReadsAgain : CallTyped(c) BY <1>1 DEF ReadsAgain, StoreTyped, Kinds
  <2> QED BY <1>9, <2>1 DEF RetryEffect, StoreTyped, Asks
<1> QED BY <1>2, <1>3, <1>4, <1>5, <1>6, <1>7, <1>8, <1>9

LEMMA NextInvestigations ==
  IInv /\ StoreTyped /\ [InvestigationsNext]_investigationVars => (IInv /\ StoreTyped)'
<1> SUFFICES ASSUME IInv, StoreTyped, [InvestigationsNext]_investigationVars PROVE IInv' /\ StoreTyped' OBVIOUS
<1>1. UNCHANGED analysisVars => IInv'
  BY DEF analysisVars, IInv, Typed, OneOrchestrator, Gens, TrackedIsOpen, ReasonIsOfTracked, EndsAreTrue
<1>2. UNCHANGED storeVars => StoreTyped' BY DEF storeVars, StoreTyped
<1>3. CASE Retry /\ UNCHANGED storeVars
  <2>1. store.selected \in Runs /\ Start(SourceOf[store.selected], {SourceOf[store.selected]})
    BY <1>3 DEF Retry, RetryRun, StoreTyped
  <2>2. SourceOf[store.selected] \in Sources BY <2>1, InvestigationsAssumption
  <2> QED BY <1>2, <1>3, <2>1, <2>2, StartIInv
<1>4. CASE AnalysisNext /\ UNCHANGED storeVars BY <1>2, <1>4, AnalysisIInv
<1>5. CASE DbStep BY <1>1, <1>2, <1>5 DEF DbStep
<1>6. CASE UNCHANGED investigationVars BY <1>1, <1>2, <1>6 DEF investigationVars
<1>7. CASE Goes(\/ \E c \in calls : Read(c) \/ Answer(c) \/ Fails(c)
                \/ \E r \in Runs : SelectRun(r)
                \/ \E next \in {"runs", "records", "workspace"} : Open(next)
                \/ ViewInvestigations \/ Poll \/ RetryEffect)
  BY <1>1, <1>7, StoreStep DEF Goes
<1> QED BY <1>3, <1>4, <1>5, <1>6, <1>7 DEF InvestigationsNext

\* Never two orchestrators at once, and the one that runs can be cancelled
\* (pipelineHandlers.ts), however starts, retries, cancels, timers and ends interleave.
THEOREM OneAtATime == InvestigationsSpec => []OneOrchestrator
<1>1. IInv => OneOrchestrator BY DEF IInv
<1> QED BY InitInvestigations, NextInvestigations, <1>1, PTL DEF InvestigationsSpec

\* The session never says of an orchestrator what was another's end, nor that it
\* was cancelled or timed out when nobody asked it to end.
THEOREM EndsAreToldTruly == InvestigationsSpec => []ToldAsItEnded
<1>1. IInv => ToldAsItEnded BY DEF IInv, EndsAreTrue, ToldTrue, ToldAsItEnded
<1> QED BY InitInvestigations, NextInvestigations, <1>1, PTL DEF InvestigationsSpec
-------------------------------------------------------------------------------
(* Pages: the order of the rows. *)

Instants == Nat \cup {Untimed}
Past(up, a, b) == IF up THEN a > b ELSE a < b
\* That i comes before j, of the times t.
Precedes(up, t, i, j) ==
  \/ t[i] # Untimed /\ t[j] = Untimed
  \/ t[i] = Untimed /\ t[j] = Untimed /\ Past(up, j, i)
  \/ t[i] # Untimed /\ t[j] # Untimed /\ (Past(up, t[j], t[i]) \/ (t[i] = t[j] /\ Past(up, j, i)))

\* The order a page is sorted by, and the one its cursor asks for, are that one.
LEMMA BeforeIs ==
  /\ \A i, j : Before(i, j) <=> Precedes(walk.up, time, i, j)
  /\ \A i, j : After(i, Top) /\ (j \in Ids => (After(i, CursorAfter(j)) <=> Precedes(walk.up, time, j, i)))
<1>1. \A i, j : Before(i, j) <=> Precedes(walk.up, time, i, j) BY DEF Before, Precedes, Later, Past
<1>2. ASSUME NEW i, NEW j \in Ids PROVE After(i, CursorAfter(j)) <=> Precedes(walk.up, time, j, i)
  <2>1. j # 0 BY PagesAssumption
  <2>2. CursorAfter(j).id = j /\ CursorAfter(j).v = time[j] /\ CursorAfter(j) # Top
    BY <2>1 DEF CursorAfter, Exact, Top
  <2> QED BY <2>2 DEF After, TimesThenIds, Precedes, Later, Past
<1>3. \A i : After(i, Top) BY DEF After
<1> QED BY <1>1, <1>2, <1>3

\* It is one order of all rows.
LEMMA OrderIs ==
  ASSUME NEW up, NEW t \in [Ids -> Instants]
  PROVE  /\ \A i \in Ids : ~Precedes(up, t, i, i)
         /\ \A i, j \in Ids : i = j \/ Precedes(up, t, i, j) \/ Precedes(up, t, j, i)
         /\ \A i, j, k \in Ids : Precedes(up, t, i, j) /\ Precedes(up, t, j, k) => Precedes(up, t, i, k)
<1>1. \A i \in Ids : i \in Nat /\ (t[i] \in Nat \/ t[i] = Untimed) BY PagesAssumption DEF Instants
<1>2. \A i \in Ids : ~Precedes(up, t, i, i) BY <1>1 DEF Precedes, Past
<1>3. ASSUME NEW i \in Ids, NEW j \in Ids, i # j PROVE Precedes(up, t, i, j) \/ Precedes(up, t, j, i)
  <2>1. Past(up, i, j) \/ Past(up, j, i) BY <1>1, <1>3 DEF Past
  <2>2. CASE t[i] = Untimed \/ t[j] = Untimed BY <2>1, <2>2 DEF Precedes
  <2>3. CASE t[i] # Untimed /\ t[j] # Untimed
    <3>1. t[i] = t[j] \/ Past(up, t[i], t[j]) \/ Past(up, t[j], t[i]) BY <1>1, <2>3 DEF Past
    <3> QED BY <2>1, <2>3, <3>1 DEF Precedes
  <2> QED BY <2>2, <2>3
<1>4. ASSUME NEW i \in Ids, NEW j \in Ids, NEW k \in Ids, Precedes(up, t, i, j), Precedes(up, t, j, k)
      PROVE  Precedes(up, t, i, k)
  <2>1. Past(up, j, i) /\ Past(up, k, j) => Past(up, k, i) BY <1>1 DEF Past
  <2>2. CASE t[k] = Untimed BY <1>4, <2>1, <2>2 DEF Precedes
  <2>3. CASE t[k] # Untimed
    <3>1. t[i] # Untimed /\ t[j] # Untimed BY <1>4, <2>3 DEF Precedes
    <3>2. t[i] \in Nat /\ t[j] \in Nat /\ t[k] \in Nat BY <1>1, <2>3, <3>1
    <3>3. Past(up, t[j], t[i]) /\ Past(up, t[k], t[j]) => Past(up, t[k], t[i]) BY <3>2 DEF Past
    <3> QED BY <1>4, <2>1, <2>3, <3>1, <3>3 DEF Precedes
  <2> QED BY <2>2, <2>3
<1> QED BY <1>2, <1>3, <1>4

\* So a set of rows can be sorted: each has its place, the number of those up to it.
LEMMA SortsExist ==
  ASSUME NEW up, NEW t \in [Ids -> Instants], NEW S \in SUBSET Ids
  PROVE  \E s \in [1 .. Cardinality(S) -> S] : \A i, j \in DOMAIN s : i < j => Precedes(up, t, s[i], s[j])
<1> DEFINE n == Cardinality(S)
           UpTo(x) == {y \in S : y = x \/ Precedes(up, t, y, x)}
           place == [x \in S |-> Cardinality(UpTo(x))]
<1>1. IsFiniteSet(S) /\ n \in Nat
  <2>1. IsFiniteSet(S) BY PagesAssumption, FS_Subset
  <2> QED BY <2>1, FS_CardinalityType
<1>2. \A x \in S : x \in UpTo(x) /\ UpTo(x) \subseteq S OBVIOUS
<1>3. ASSUME NEW x \in S, NEW y \in S, Precedes(up, t, x, y)
      PROVE  UpTo(x) \subseteq UpTo(y) /\ UpTo(x) # UpTo(y)
  <2>1. x \in Ids /\ y \in Ids OBVIOUS
  <2>2. \A z \in S : Precedes(up, t, z, x) => Precedes(up, t, z, y) BY <1>3, <2>1, OrderIs
  <2>3. y # x /\ ~Precedes(up, t, y, x)
    <3>1. ~Precedes(up, t, x, x) BY <2>1, OrderIs
    <3> QED BY <1>3, <2>1, <3>1, OrderIs
  <2>4. y \notin UpTo(x) /\ y \in UpTo(y) BY <2>3
  <2> QED BY <1>3, <2>2, <2>4
<1> HIDE DEF UpTo
<1>4. ASSUME NEW x \in S PROVE IsFiniteSet(UpTo(x)) /\ place[x] \in 1 .. n
  <2>1. IsFiniteSet(UpTo(x)) /\ Cardinality(UpTo(x)) <= n BY <1>1, <1>2, FS_Subset
  <2>2. Cardinality(UpTo(x)) \in Nat BY <2>1, FS_CardinalityType
  <2>3. Cardinality(UpTo(x)) # 0 BY <1>2, <2>1, FS_EmptySet
  <2> QED BY <1>1, <2>1, <2>2, <2>3
<1>5. ASSUME NEW x \in S, NEW y \in S, Precedes(up, t, x, y) PROVE place[x] < place[y]
  <2>1. IsFiniteSet(UpTo(y)) /\ UpTo(x) \in SUBSET UpTo(y) /\ UpTo(x) # UpTo(y) BY <1>3, <1>4, <1>5
  <2>2. Cardinality(UpTo(x)) <= Cardinality(UpTo(y)) /\ Cardinality(UpTo(x)) # Cardinality(UpTo(y)) BY <2>1, FS_Subset
  <2>3. place[x] \in Nat /\ place[y] \in Nat BY <1>4
  <2> QED BY <2>2, <2>3
<1> DEFINE places == 1 .. n
<1>6. place \in Injection(S, places)
  <2>1. place \in [S -> places] BY <1>4
  <2>2. ASSUME NEW x \in S, NEW y \in S, place[x] = place[y] PROVE x = y
    <3>1. x = y \/ Precedes(up, t, x, y) \/ Precedes(up, t, y, x) BY OrderIs
    <3>2. place[x] \in Nat /\ place[y] \in Nat BY <1>4
    <3> QED BY <1>5, <2>2, <3>1, <3>2
  <2> HIDE DEF place
  <2> QED BY <2>1, <2>2 DEF Injection, IsInjective
<1>7. \A k \in places : \E x \in S : place[x] = k
  <2>1. IsFiniteSet(places) /\ Cardinality(places) = n BY <1>1, FS_Interval
  <2> HIDE DEF place, places
  <2>2. place \in Surjection(S, places) BY <1>1, <1>6, <2>1, FS_Injection
  <2> QED BY <2>2 DEF Surjection
<1> DEFINE s == [k \in places |-> CHOOSE x \in S : place[x] = k]
<1>8. \A k \in places : s[k] \in S /\ place[s[k]] = k
  <2> HIDE DEF place
  <2> QED BY <1>7
<1>9. s \in [1 .. n -> S] BY <1>8
<1>10. ASSUME NEW i \in places, NEW j \in places, i < j PROVE Precedes(up, t, s[i], s[j])
  <2>1. s[i] \in S /\ s[j] \in S /\ place[s[i]] = i /\ place[s[j]] = j BY <1>8
  <2> HIDE DEF s, place
  <2>2. s[i] = s[j] \/ Precedes(up, t, s[i], s[j]) \/ Precedes(up, t, s[j], s[i]) BY <2>1, OrderIs
  <2>3. ~Precedes(up, t, s[j], s[i])
    <3>1. Precedes(up, t, s[j], s[i]) => j < i BY <1>5, <2>1
    <3>2. i \in Nat /\ j \in Nat BY <1>1
    <3> QED BY <1>10, <3>1, <3>2
  <2>4. s[i] # s[j]
    <3>1. i # j BY <1>1, <1>10
    <3> QED BY <2>1, <3>1
  <2> QED BY <2>2, <2>3, <2>4
<1>11. \A i, j \in DOMAIN s : i < j => Precedes(up, t, s[i], s[j]) BY <1>10
<1> QED BY <1>9, <1>11

\* What a page is sorted into: the rows of a set, each in its place.
LEMMA SortedIs ==
  ASSUME time \in [Ids -> Instants], NEW S \in SUBSET Ids
  PROVE  /\ Sorted(S) \in Seq(S) /\ Len(Sorted(S)) = Cardinality(S)
         /\ \A i, j \in 1 .. Len(Sorted(S)) : i < j => Precedes(walk.up, time, Sorted(S)[i], Sorted(S)[j])
         /\ \A x \in S : \E k \in 1 .. Len(Sorted(S)) : Sorted(S)[k] = x
<1> DEFINE n == Cardinality(S)
<1>1. IsFiniteSet(S) /\ n \in Nat
  <2>1. IsFiniteSet(S) BY PagesAssumption, FS_Subset
  <2> QED BY <2>1, FS_CardinalityType
<1>2. \E s \in [1 .. n -> S] : \A i, j \in DOMAIN s : i < j => Before(s[i], s[j])
  <2>1. PICK s \in [1 .. n -> S] : \A i, j \in DOMAIN s : i < j => Precedes(walk.up, time, s[i], s[j]) BY SortsExist
  <2>2. \A i, j \in DOMAIN s : i < j => Before(s[i], s[j]) BY <2>1, BeforeIs
  <2> QED BY <2>2
<1>3. PICK s : s = Sorted(S) OBVIOUS
<1>4. s \in [1 .. n -> S] /\ \A i, j \in DOMAIN s : i < j => Before(s[i], s[j]) BY <1>2, <1>3 DEF Sorted
<1>5. s \in Seq(S) /\ Len(s) = n BY <1>1, <1>4
<1>6. \A i, j \in 1 .. n : i < j => Precedes(walk.up, time, s[i], s[j]) BY <1>4, BeforeIs
<1>7. s \in Injection(1 .. n, S)
  <2>1. ASSUME NEW i \in 1 .. n, NEW j \in 1 .. n, s[i] = s[j] PROVE i = j
    <3>1. s[i] \in Ids BY <1>4
    <3>2. ~Precedes(walk.up, time, s[i], s[j]) /\ ~Precedes(walk.up, time, s[j], s[i]) BY <2>1, <3>1, OrderIs
    <3>3. ~(i < j) /\ ~(j < i) BY <1>6, <3>2
    <3> QED BY <1>1, <3>3
  <2> QED BY <1>4, <2>1 DEF Injection, IsInjective
<1>8. s \in Surjection(1 .. n, S)
  <2>1. IsFiniteSet(1 .. n) /\ Cardinality(1 .. n) = n BY <1>1, FS_Interval
  <2> QED BY <1>1, <1>7, <2>1, FS_Injection
<1>9. \A x \in S : \E k \in 1 .. n : s[k] = x BY <1>8 DEF Surjection
<1> QED BY <1>3, <1>5, <1>6, <1>9
-------------------------------------------------------------------------------
(* Pages: the walk. *)

Taken(s, i) == \E k \in 1 .. Len(s) : s[k] = i
Cursor(t, s) == IF s = <<>> THEN Top ELSE [id |-> s[Len(s)], v |-> t[s[Len(s)]]]
PagesTyped ==
  /\ time \in [Ids -> Instants] /\ visible \subseteq Units /\ always \subseteq visible /\ rows \in Seq(Ids)
  /\ DOMAIN walk = {"up", "limit", "cursor", "over"} /\ walk.limit \in Nat
\* The cursor is the last row's, and what was there all along and is not yet taken
\* comes after it.
WalkKnown ==
  /\ \A i, j \in 1 .. Len(rows) : i < j => Precedes(walk.up, time, rows[i], rows[j])
  /\ walk = NoWalk => rows = <<>>
  /\ ~walk.over => walk.limit # 0 /\ walk.cursor = Cursor(time, rows)
  /\ \A i \in Ids : UnitOf[i] \in always /\ ~Taken(rows, i) =>
       ~walk.over /\ (rows # <<>> => Precedes(walk.up, time, rows[Len(rows)], i))
WalkInv == PagesTyped /\ WalkKnown

\* A fact is on the pages to come if it is after the last row.
LEMMA CursorIs ==
  ASSUME WalkInv, ~walk.over, NEW i \in Ids
  PROVE  After(i, walk.cursor) <=> (rows # <<>> => Precedes(walk.up, time, rows[Len(rows)], i))
<1>1. walk.cursor = Cursor(time, rows) BY DEF WalkInv, WalkKnown
<1>2. CASE rows = <<>> BY <1>1, <1>2, BeforeIs DEF Cursor
<1>3. CASE rows # <<>>
  <2>1. rows \in Seq(Ids) BY DEF WalkInv, PagesTyped
  <2>2. Len(rows) \in 1 .. Len(rows) BY <1>3, <2>1, EmptySeq
  <2>3. rows[Len(rows)] \in Ids BY <2>1, <2>2, ElementOfSeq
  <2>4. walk.cursor = CursorAfter(rows[Len(rows)]) BY <1>1, <1>3 DEF Cursor, CursorAfter, Exact
  <2> QED BY <1>3, <2>3, <2>4, BeforeIs
<1> QED BY <1>2, <1>3

\* A page: the first of what is left, joined to what was taken.
LEMMA PageKeepsWalk == ASSUME WalkInv, GetForensicRecords PROVE WalkInv'
<1> DEFINE L == Len(rows)
           S == {i \in Seen : After(i, walk.cursor)}
           n == Len(Sorted(S))
           m == IF n < walk.limit THEN n ELSE walk.limit
           got == SubSeq(Sorted(S), 1, m)
<1>1. /\ ~walk.over /\ rows' = rows \o got /\ UNCHANGED <<time, visible, always>>
      /\ walk' = IF n > walk.limit THEN [walk EXCEPT !.cursor = CursorAfter(got[Len(got)])]
                 ELSE [walk EXCEPT !.over = TRUE]
  BY DEF GetForensicRecords, OneMore
<1>2. PagesTyped /\ WalkKnown BY DEF WalkInv
<1>3. rows \in Seq(Ids) /\ L \in Nat /\ time \in [Ids -> Instants] /\ walk.limit \in Nat /\ walk.limit # 0
  BY <1>1, <1>2, LenProperties DEF PagesTyped, WalkKnown
<1>4. S \in SUBSET Ids /\ \A i \in S : rows # <<>> => Precedes(walk.up, time, rows[L], i)
  <2>1. S \in SUBSET Ids BY DEF Seen
  <2> QED BY <1>1, <2>1, CursorIs
<1> HIDE DEF S
<1>5. PICK left : left = Sorted(S) OBVIOUS
<1>6. /\ left \in Seq(S) /\ n = Len(left) /\ n \in Nat
      /\ \A i, j \in 1 .. n : i < j => Precedes(walk.up, time, left[i], left[j])
      /\ \A x \in S : \E k \in 1 .. n : left[k] = x
  BY <1>3, <1>4, <1>5, SortedIs, LenProperties
<1>7. m \in Nat /\ m <= n /\ got = SubSeq(left, 1, m) BY <1>3, <1>5, <1>6
<1> HIDE DEF n, m
<1>8. got \in Seq(S) /\ Len(got) = m /\ \A i \in 1 .. m : got[i] = left[i] /\ got[i] \in S
  <2>1. \A i \in 1 .. m : left[i] \in S
    <3>1. \A i \in 1 .. m : i \in 1 .. Len(left) BY <1>6, <1>7
    <3> QED BY <1>6, <3>1, ElementOfSeq
  <2>2. /\ SubSeq(left, 1, m) \in Seq(S) /\ Len(SubSeq(left, 1, m)) = (IF 1 <= m THEN m - 1 + 1 ELSE 0)
        /\ \A i \in 1 .. m - 1 + 1 : SubSeq(left, 1, m)[i] = left[1 + i - 1]
    <3>1. m \in Int /\ 1 \in Int BY <1>7
    <3> QED BY <2>1, <3>1, SubSeqProperties
  <2>3. Len(got) = m BY <1>7, <2>2
  <2>4. \A i \in 1 .. m : i \in 1 .. m - 1 + 1 /\ 1 + i - 1 = i BY <1>7
  <2> QED BY <1>7, <2>1, <2>2, <2>3, <2>4
<1> HIDE DEF got
<1>9. got \in Seq(Ids) BY <1>4, <1>8, SeqMonotonic
<1>10. /\ rows' \in Seq(Ids) /\ Len(rows') = L + m
       /\ \A i \in 1 .. L + m : rows'[i] = IF i <= L THEN rows[i] ELSE got[i - L]
  BY <1>1, <1>3, <1>8, <1>9, ConcatProperties
<1>11. DOMAIN walk' = DOMAIN walk /\ walk'.up = walk.up /\ walk'.limit = walk.limit
  BY <1>1, <1>2 DEF PagesTyped
<1>12. PagesTyped' BY <1>1, <1>2, <1>10, <1>11 DEF PagesTyped, Units
<1>13. \A i \in 1 .. L + m : i \in 1 .. L \/ (i - L \in 1 .. m /\ i > L /\ ~(i <= L)) BY <1>3, <1>7
<1>14. ASSUME NEW i \in 1 .. L + m, NEW j \in 1 .. L + m, i < j PROVE Precedes(walk.up, time, rows'[i], rows'[j])
  <2>1. CASE j \in 1 .. L
    <3>1. i \in 1 .. L BY <1>3, <1>7, <1>14, <2>1
    <3>2. rows'[i] = rows[i] /\ rows'[j] = rows[j] BY <1>3, <1>10, <2>1, <3>1
    <3> QED BY <1>2, <1>14, <2>1, <3>1, <3>2 DEF WalkKnown
  <2>2. CASE i \in 1 .. L /\ j - L \in 1 .. m /\ ~(j <= L)
    <3>1. rows'[i] = rows[i] /\ rows'[j] = got[j - L] /\ got[j - L] \in S BY <1>3, <1>8, <1>10, <2>2
    <3>2. rows # <<>>
      <4>1. L # 0 BY <1>3, <2>2
      <4> QED BY <1>3, <4>1, EmptySeq
    <3>3. Precedes(walk.up, time, rows[L], got[j - L]) BY <1>4, <3>1, <3>2
    <3>4. L \in 1 .. L /\ (i = L \/ i < L) BY <1>3, <2>2
    <3>5. i = L \/ Precedes(walk.up, time, rows[i], rows[L]) BY <1>2, <2>2, <3>4 DEF WalkKnown
    <3>6. rows[i] \in Ids /\ rows[L] \in Ids /\ got[j - L] \in Ids BY <1>3, <1>4, <2>2, <3>1, <3>4, ElementOfSeq
    <3> QED BY <1>3, <3>1, <3>3, <3>5, <3>6, OrderIs
  <2>3. CASE i - L \in 1 .. m /\ ~(i <= L) /\ j - L \in 1 .. m /\ ~(j <= L)
    <3>1. rows'[i] = left[i - L] /\ rows'[j] = left[j - L] BY <1>8, <1>10, <2>3
    <3>2. i - L \in 1 .. n /\ j - L \in 1 .. n /\ i - L < j - L BY <1>3, <1>6, <1>7, <1>14, <2>3
    <3> QED BY <1>6, <3>1, <3>2
  <2>4. ~(i - L \in 1 .. m /\ ~(i <= L) /\ j \in 1 .. L) BY <1>3, <1>14
  <2> QED BY <1>13, <2>1, <2>2, <2>3
<1>15. walk' # NoWalk BY <1>3, <1>11 DEF NoWalk
<1>16. ASSUME n > walk.limit
       PROVE  /\ m = walk.limit /\ m # 0 /\ rows' # <<>> /\ rows'[Len(rows')] = left[m]
              /\ ~walk'.over /\ walk'.cursor = Cursor(time, rows')
  <2>1. m = walk.limit /\ m # 0 BY <1>3, <1>6, <1>16 DEF m
  <2>2. Len(rows') # 0 /\ rows' # <<>> BY <1>3, <1>7, <1>10, <2>1, EmptySeq
  <2>3. L + m \in 1 .. L + m /\ ~(L + m <= L) /\ (L + m) - L = m /\ m \in 1 .. m BY <1>3, <1>7, <2>1
  <2>4. rows'[L + m] = got[m] /\ got[m] = left[m] BY <1>8, <1>10, <2>3
  <2>5. walk' = [walk EXCEPT !.cursor = CursorAfter(got[m])] BY <1>1, <1>8, <1>16
  <2>6. ~walk'.over /\ walk'.cursor = CursorAfter(got[m]) BY <1>1, <1>2, <2>5 DEF PagesTyped
  <2>7. CursorAfter(got[m]) = Cursor(time, rows') BY <1>10, <2>2, <2>4 DEF Cursor, CursorAfter, Exact
  <2> QED BY <1>10, <2>1, <2>2, <2>4, <2>6, <2>7
<1>17. ASSUME ~(n > walk.limit) PROVE m = n /\ walk'.over
  <2>1. m = n BY <1>3, <1>6, <1>17 DEF m
  <2>2. walk'.over BY <1>1, <1>2, <1>17 DEF PagesTyped
  <2> QED BY <2>1, <2>2
<1>18. ASSUME NEW i \in Ids, UnitOf[i] \in always, ~Taken(rows', i)
       PROVE  ~walk'.over /\ (rows' # <<>> => Precedes(walk.up, time, rows'[Len(rows')], i))
  <2>1. ~Taken(rows, i)
    <3>1. SUFFICES ASSUME NEW k \in 1 .. L, rows[k] = i PROVE FALSE BY DEF Taken
    <3>2. k \in 1 .. L + m /\ k <= L BY <1>3, <1>7
    <3>3. rows'[k] = i /\ k \in 1 .. Len(rows') BY <1>10, <3>1, <3>2
    <3> QED BY <1>18, <3>3 DEF Taken
  <2>2. i \in S
    <3>1. rows # <<>> => Precedes(walk.up, time, rows[L], i) BY <1>2, <1>18, <2>1 DEF WalkKnown
    <3>2. i \in Seen BY <1>2, <1>18 DEF PagesTyped, Seen
    <3> QED BY <1>1, <3>1, <3>2, CursorIs DEF S
  <2>3. PICK k \in 1 .. n : left[k] = i BY <1>6, <2>2
  <2>4. k > m
    <3>1. SUFFICES ASSUME k <= m PROVE FALSE BY <1>6, <1>7
    <3>2. k \in 1 .. m /\ L + k \in 1 .. L + m /\ ~(L + k <= L) /\ (L + k) - L = k BY <1>3, <1>6, <1>7, <3>1
    <3>3. rows'[L + k] = i BY <1>8, <1>10, <2>3, <3>2
    <3>4. L + k \in 1 .. Len(rows') BY <1>10, <3>2
    <3> QED BY <1>18, <3>3, <3>4 DEF Taken
  <2>5. n > walk.limit BY <1>6, <1>17, <2>3, <2>4
  <2>6. m \in 1 .. n /\ m < k BY <1>3, <1>6, <1>7, <1>16, <2>4, <2>5
  <2>7. Precedes(walk.up, time, left[m], i) BY <1>6, <2>3, <2>6
  <2> QED BY <1>16, <2>5, <2>7
<1>19. WalkKnown'
  <2>1. \A i, j \in 1 .. Len(rows') : i < j => Precedes(walk'.up, time', rows'[i], rows'[j]) BY <1>1, <1>10, <1>11, <1>14
  <2>2. ~walk'.over => walk'.limit # 0 /\ walk'.cursor = Cursor(time', rows') BY <1>1, <1>3, <1>11, <1>16, <1>17
  <2>3. \A i \in Ids : UnitOf[i] \in always' /\ ~Taken(rows', i) =>
          ~walk'.over /\ (rows' # <<>> => Precedes(walk'.up, time', rows'[Len(rows')], i))
    BY <1>1, <1>11, <1>18
  <2> QED BY <1>15, <2>1, <2>2, <2>3 DEF WalkKnown
<1> QED BY <1>12, <1>19 DEF WalkInv

LEMMA PagesKeepWalk == ASSUME WalkInv, [PagesNext]_pageVars PROVE WalkInv'
<1>1. CASE BeginWalk
  <2>1. /\ walk = NoWalk /\ time' \in [Ids -> Times] /\ visible' \in SUBSET Units /\ always' = visible'
        /\ walk' \in [up : BOOLEAN, limit : Limits, cursor : {Top}, over : {FALSE}] /\ rows' = rows
    BY <1>1 DEF BeginWalk
  <2>2. rows = <<>> /\ rows \in Seq(Ids) BY <2>1 DEF WalkInv, WalkKnown, PagesTyped
  <2>3. time' \in [Ids -> Instants] BY <2>1, PagesAssumption DEF Instants
  <2>4. /\ DOMAIN walk' = {"up", "limit", "cursor", "over"} /\ walk'.limit \in Nat /\ walk'.limit # 0
        /\ walk'.cursor = Top /\ walk'.over = FALSE
    BY <2>1, PagesAssumption
  <2>5. PagesTyped' BY <2>1, <2>2, <2>3, <2>4 DEF PagesTyped, Units
  <2>6. WalkKnown'
    <3>1. \A i \in 1 .. Len(<<>>) : FALSE BY EmptySeq
    <3> QED BY <2>1, <2>2, <2>4, <3>1 DEF WalkKnown, Cursor
  <2> QED BY <2>5, <2>6 DEF WalkInv
<1>2. CASE GetForensicRecords BY <1>2, PageKeepsWalk
<1>3. CASE FactsChange
  <2>1. /\ visible' \subseteq Units /\ always' = always \cap visible' /\ UNCHANGED <<time, walk, rows>>
    BY <1>3 DEF FactsChange, WalkInv, PagesTyped
  <2> QED BY <2>1 DEF WalkInv, PagesTyped, WalkKnown, Units
<1>4. CASE UNCHANGED pageVars BY <1>4 DEF pageVars, WalkInv, PagesTyped, WalkKnown, Units
<1> QED BY <1>1, <1>2, <1>3, <1>4 DEF PagesNext

\* "Pages never skip or repeat a row while sorting" (getForensicRecords): however
\* facts complete or are superseded between its pages, a walk of any length and
\* page size returns rows in order, none twice, and all that were there throughout.
THEOREM PagesAreWhole == PagesSpec => []WalkIsWhole
<1>1. PagesInit => WalkInv
  <2> SUFFICES ASSUME PagesInit PROVE WalkInv OBVIOUS
  <2>1. time \in [Ids -> Instants] /\ visible = {} /\ always = {} /\ rows = <<>> /\ walk = NoWalk
    BY DEF PagesInit, Instants
  <2>2. <<>> \in Seq(Ids) /\ \A i \in 1 .. Len(<<>>) : FALSE BY EmptySeq
  <2>3. PagesTyped BY <2>1, <2>2 DEF PagesTyped, NoWalk
  <2>4. WalkKnown BY <2>1, <2>2 DEF WalkKnown, NoWalk
  <2> QED BY <2>3, <2>4 DEF WalkInv
<1>2. WalkInv /\ [PagesNext]_pageVars => WalkInv' BY PagesKeepWalk
<1>3. WalkInv => WalkIsWhole
  <2> SUFFICES ASSUME WalkInv PROVE WalkIsWhole OBVIOUS
  <2>1. DOMAIN rows = 1 .. Len(rows) BY LenProperties DEF WalkInv, PagesTyped
  <2>2. \A i, j \in DOMAIN rows : i < j => Before(rows[i], rows[j]) BY <2>1, BeforeIs DEF WalkInv, WalkKnown
  <2>3. walk.over => \A i \in Ids : UnitOf[i] \in always => \E k \in DOMAIN rows : rows[k] = i
    BY <2>1 DEF WalkInv, WalkKnown, Taken
  <2> QED BY <2>2, <2>3 DEF WalkIsWhole
<1> QED BY <1>1, <1>2, <1>3, PTL DEF PagesSpec
================================================================================
