------------------------- MODULE PreparationProofs -------------------------
(* That what the app tells of a preparation is true, that a prompt is shown and  *)
(* that a page which has nothing more to receive is current: for any number of   *)
(* backups, of lines kept, and of messages and lines on their way.              *)
EXTENDS Preparation, SequenceTheorems, FiniteSetTheorems, TLAPS

-------------------------------------------------------------------------------
(* The invariant. *)

Names == Elems(Labels)
AtBackup == {"hash", "decrypt", "waits", "ends", "decrypting", "repair", "ileapp"}
ProcessorPlaces == {"exited", "start", "summary"} \cup AtBackup
Lines == [is : {"start", "done", "skipped", "error", "prompt", "other"}, step : Elems(Steps) \cup {None}, label : Names \cup {None}]
Backup == [overall : {"queued", "running", "done", "failed"},
           steps : [Elems(Steps) -> {"pending", "running", "done", "skipped", "error"}]]
Processors == [gen : Nat, pc : ProcessorPlaces, todo : Seq(Names), ran : BOOLEAN, attempt : 0 .. MaxAttempts,
               deaf : BOOLEAN, failed : SUBSET Names, code : {0, 1}, done : BOOLEAN]
Results == [success : BOOLEAN, failed : {None} \cup SUBSET Names]

\* The types.
ProcessorTyped ==
  /\ processor \in Processors
  /\ pipes \in [out : Seq(Lines), err : Seq(Lines)]
  /\ onDisk \in [Names -> {"absent", "partial", "prepared"}]
  /\ summary \in [gen : Nat, failed : SUBSET Names]
SessionTyped ==
  /\ child \in [running : BOOLEAN, answer : BOOLEAN, ends : BOOLEAN]
  /\ DOMAIN prep = {"gen", "status", "progress", "passwordFor", "result", "from", "to", "soon"}
  /\ prep.gen \in Nat /\ prep.status \in {"idle", "running", "finished"} /\ prep.passwordFor \in Names \cup {None}
  /\ prep.result \in {None} \cup Results /\ prep.soon \in BOOLEAN
  /\ prep.from \in Nat \ {0} /\ prep.to \in Nat /\ prep.from <= prep.to + 1
  /\ DOMAIN prep.progress = {"current", "by"}
  /\ DOMAIN prep.progress.by \subseteq Names /\ prep.progress.by \in [DOMAIN prep.progress.by -> Backup]
  /\ prep.progress.current \in DOMAIN prep.progress.by \cup {None}

\* The child process, the app's note of it and the session are of one preparation,
\* which is over when they all are.
OnePreparation ==
  /\ processor.gen = prep.gen
  /\ processor.pc # "exited" \/ pipes.out # <<>> \/ pipes.err # <<>> => child.running
  /\ child.running \/ child.ends => prep.status = "running"
  /\ ~(child.running /\ child.ends)
  /\ prep.status # "idle" => prep.gen > 0
\* A summary is of the preparation that wrote it.
SummaryKnown ==
  /\ processor.done => processor.pc = "exited"
  /\ summary.gen <= prep.gen
  /\ summary.gen = prep.gen /\ prep.gen > 0 => processor.done /\ summary.failed = processor.failed
  /\ prep.status = "finished" => prep.result \in Results /\ ResultIsOfThisPass
\* A prompt is the last line of who waits, or was heard.
Prompted ==
  /\ processor.pc = "waits" =>
       IF pipes.out = <<>> THEN prep.passwordFor = Name /\ child.answer
       ELSE pipes.out[Len(pipes.out)] = Line("prompt", None, Name)
  /\ processor.pc = "decrypt" => processor.attempt < MaxAttempts
  /\ prep.status # "running" => prep.passwordFor = None

\* What is left to do is different backups that the progress knows.
TodoKnown ==
  /\ Elems(processor.todo) \subseteq DOMAIN prep.progress.by
  /\ \A i, j \in 1 .. Len(processor.todo) : processor.todo[i] = processor.todo[j] => i = j
  /\ processor.pc \in AtBackup \cup {"start"} => processor.todo # <<>>
  /\ processor.pc \in {"start", "hash"} => processor.attempt = 0
\* Whose backup a line of stdout is about, when it is read.
About(i, l) ==
  \/ \E j \in 1 .. i - 1 : /\ pipes.out[j].is = "start" /\ pipes.out[j].label = l
                           /\ \A k \in j + 1 .. i - 1 : pipes.out[k].is # "start"
  \/ l = prep.progress.current /\ \A k \in 1 .. i - 1 : pipes.out[k].is # "start"
Ending(line) == line.is \in {"done", "skipped"} /\ line.step = "ileapp"
Over(l) == onDisk[l] = "prepared" /\ l \notin Elems(processor.todo)
LinesKnown ==
  /\ \A i \in 1 .. Len(pipes.err) : pipes.err[i].is \in {"error", "other"}
  /\ \A i \in 1 .. Len(pipes.out) : pipes.out[i].is \in {"start", "prompt"} => pipes.out[i].label \in DOMAIN prep.progress.by
  /\ \A i \in 1 .. Len(pipes.out) : \A l \in Names : Ending(pipes.out[i]) /\ About(i, l) => Over(l)
  /\ \A l \in Names : processor.pc \in AtBackup /\ About(Len(pipes.out) + 1, l) => l = Name
  /\ \A l \in DOMAIN prep.progress.by : prep.progress.by[l].overall = "done" => Over(l)

SessionInv ==
  ProcessorTyped /\ SessionTyped /\ OnePreparation /\ SummaryKnown /\ Prompted /\ TodoKnown /\ LinesKnown

-------------------------------------------------------------------------------
(* The page. *)

\* s is the numbers from a to b.
IsRun(s, a, b) == s \in Seq(Nat) /\ Len(s) = b - a + 1 /\ \A i \in 1 .. Len(s) : s[i] = a + i - 1
\* The first of the lines kept, of a preparation whose first was from, when b is the last.
First(from, b) == IF b - Kept + 1 > from THEN b - Kept + 1 ELSE from
\* What a state says, on its way or shown, is not ahead of the session p.
NotAhead(state, p) ==
  /\ state.gen \in Nat /\ state.gen <= p.gen
  /\ state.gen = p.gen /\ state.status # "running" => p.status # "running"

\* The messages s on their way to the page g: line t[i] is the last heard of once i
\* of them are delivered.
LinesAre(s, t, p) ==
  /\ s \in Seq(Elems(s)) /\ p.from - 1 <= t[0] /\ t[Len(s)] = p.to
  /\ \A i, j \in 0 .. Len(s) : i <= j => t[i] <= t[j]
  /\ \A i \in 1 .. Len(s) :
       /\ s[i].is \in {"line", "state", "snapshot"}
       /\ t[i] = IF s[i].is = "line" THEN t[i - 1] + 1 ELSE t[i - 1]
       /\ s[i].is = "line" => s[i].seq = t[i]
\* A state is no older than those before it, one that shows the end has no lines
\* after it, and the last is the session's unless another is to come.
StatesAre(s, t, p) ==
  /\ \A i \in 1 .. Len(s) : s[i].is # "line" =>
       /\ NotAhead(s[i].state, p)
       /\ s[i].state.gen = p.gen /\ s[i].state.status # "running" => t[i] = p.to
       /\ ~p.soon /\ (\A j \in i + 1 .. Len(s) : s[j].is # "state") => s[i].state = State(p)
  /\ \A i, j \in 1 .. Len(s) :
       i <= j /\ s[i].is # "line" /\ s[j].is # "line" => s[i].state.gen <= s[j].state.gen
\* The one snapshot for the page has the lines before it.
SnapshotsAre(s, t, p, g) ==
  /\ \A i \in 1 .. Len(s) : s[i].is = "snapshot" => s[i].for \in Nat /\ s[i].for <= g.mount
  /\ \A i \in 1 .. Len(s) : g.on /\ s[i].is = "snapshot" /\ s[i].for = g.mount =>
       /\ ~g.asks /\ ~g.loaded /\ s[i].state.gen = p.gen /\ IsRun(s[i].log, First(p.from, t[i]), t[i])
       /\ \A j \in 1 .. Len(s) : s[j].is = "snapshot" /\ s[j].for = g.mount => i = j
\* What a page that has its snapshot shows, with what it has yet to flush.
Shows(s, t, p, g) ==
  /\ g.state.gen = g.gen /\ NotAhead(g.state, p) /\ g.last \in Nat /\ g.last <= t[0]
  /\ \A i \in 1 .. Len(s) : s[i].is # "line" => g.gen <= s[i].state.gen
  /\ g.gen = p.gen \/ g.starting = p.gen
  /\ g.gen = p.gen /\ g.state.status # "running" => t[0] = p.to
  /\ g.gen = p.gen =>
       \E b \in 0 .. t[0] : p.from <= b + 1 /\ IsRun(g.log, First(p.from, b), b) /\ IsRun(g.batch, b + 1, t[0])
  /\ g.gen # p.gen => \E i \in 1 .. Len(s) : s[i].is = "state" /\ s[i].state.gen = p.gen /\ t[i] = p.from - 1
  /\ ~p.soon /\ (\A i \in 1 .. Len(s) : s[i].is # "state") => g.state = State(p)
\* The lines that came before the snapshot are the last ones heard of.
HeardEarly(t, p, g) ==
  IsRun(g.early, t[0] - Len(g.early) + 1, t[0]) /\ p.from <= t[0] - Len(g.early) + 1
Follows(s, t, p, g) ==
  /\ LinesAre(s, t, p) /\ StatesAre(s, t, p) /\ SnapshotsAre(s, t, p, g)
  /\ IF g.loaded THEN Shows(s, t, p, g) ELSE HeardEarly(t, p, g)

PageTyped ==
  /\ DOMAIN page = {"mount", "on", "asks", "loaded", "starting", "gen", "last", "early", "batch", "log", "state"}
  /\ page.mount \in Nat /\ page.on \in BOOLEAN /\ page.asks \in BOOLEAN /\ page.loaded \in BOOLEAN
  /\ page.gen \in Nat /\ page.gen <= prep.gen /\ page.starting \in Nat /\ page.starting <= prep.gen
  /\ page.log \in Seq(Nat) /\ Len(page.log) <= Kept /\ page.early \in Seq(Nat) /\ page.batch \in Seq(Nat)
  /\ ~page.on => ~page.loaded /\ ~page.asks /\ page.early = <<>>
  /\ page.asks => ~page.loaded
  /\ ~page.loaded => page.batch = <<>> /\ page.log = <<>>
Ghosts == [0 .. Len(sent) -> prep.from - 1 .. prep.to]
PageInv == PageTyped /\ \E t \in Ghosts : Follows(sent, t, prep, page)

-------------------------------------------------------------------------------
(* Sequences, lines and progress. *)

\* The names of the four steps.
LEMMA StepsAre == Elems(Steps) = {"hash", "decrypt", "repair", "ileapp"}
<1>1. DOMAIN Steps = 1 .. 4 /\ 1 .. 4 = {1, 2, 3, 4} BY DEF Steps
<1>2. Elems(Steps) = {Steps[1], Steps[2], Steps[3], Steps[4]} BY <1>1 DEF Elems
<1> QED BY <1>2 DEF Steps

\* What is in a sequence.
LEMMA ElemsAre ==
  ASSUME NEW S, NEW s \in Seq(S)
  PROVE  Elems(s) = {s[i] : i \in 1 .. Len(s)} /\ Elems(s) \subseteq S
BY LenProperties, ElementOfSeq DEF Elems

\* The first of a sequence of different things is not among the others.
LEMMA TailIs ==
  ASSUME NEW S, NEW s \in Seq(S), s # <<>>, \A i, j \in 1 .. Len(s) : s[i] = s[j] => i = j
  PROVE  /\ Tail(s) \in Seq(S) /\ Len(Tail(s)) = Len(s) - 1 /\ Head(s) \in Elems(s) /\ Head(s) \in S
         /\ \A i, j \in 1 .. Len(Tail(s)) : Tail(s)[i] = Tail(s)[j] => i = j
         /\ Elems(Tail(s)) \subseteq Elems(s) /\ Head(s) \notin Elems(Tail(s))
<1>1. /\ Tail(s) \in Seq(S) /\ Len(Tail(s)) = Len(s) - 1 /\ Head(s) = s[1]
      /\ \A i \in 1 .. Len(Tail(s)) : Tail(s)[i] = s[i + 1]
  BY HeadTailProperties
<1>2. Len(s) \in Nat /\ Len(s) # 0 BY LenProperties, EmptySeq
<1>3. 1 \in 1 .. Len(s) /\ \A i \in 1 .. Len(Tail(s)) : i + 1 \in 1 .. Len(s) /\ i + 1 # 1 BY <1>1, <1>2
<1>4. Head(s) \in Elems(s) /\ Head(s) \in S BY <1>1, <1>3, ElemsAre
<1>5. \A i, j \in 1 .. Len(Tail(s)) : Tail(s)[i] = Tail(s)[j] => i = j
  <2> SUFFICES ASSUME NEW i \in 1 .. Len(Tail(s)), NEW j \in 1 .. Len(Tail(s)), Tail(s)[i] = Tail(s)[j] PROVE i = j
    OBVIOUS
  <2>1. s[i + 1] = s[j + 1] /\ i + 1 \in 1 .. Len(s) /\ j + 1 \in 1 .. Len(s) BY <1>1, <1>3
  <2>2. i + 1 = j + 1 BY <2>1
  <2> QED BY <2>2
<1>6. Elems(Tail(s)) = {Tail(s)[i] : i \in 1 .. Len(Tail(s))} /\ Elems(s) = {s[i] : i \in 1 .. Len(s)}
  <2>1. Tail(s) \in Seq(S) BY <1>1
  <2> QED BY <2>1, ElemsAre
<1>7. Elems(Tail(s)) \subseteq Elems(s) BY <1>1, <1>3, <1>6
<1>8. Head(s) \notin Elems(Tail(s)) BY <1>1, <1>3, <1>6
<1> QED BY <1>1, <1>4, <1>5, <1>7, <1>8

\* What one line makes of the progress.
LEMMA ApplyLineIs ==
  ASSUME SessionTyped, NEW line \in Lines
  PROVE  LET progress == prep.progress
             q == ApplyLine(progress, line)
         IN
         /\ DOMAIN q = {"current", "by"} /\ DOMAIN q.by = DOMAIN progress.by
         /\ q.by \in [DOMAIN progress.by -> Backup]
         /\ q.current = (IF line.is = "start" /\ line.label \in DOMAIN progress.by THEN line.label ELSE progress.current)
         /\ \A l \in DOMAIN progress.by :
              q.by[l].overall = "done" =>
                progress.by[l].overall = "done" \/ (Ending(line) /\ l = progress.current)
<1> DEFINE progress == prep.progress
           q == ApplyLine(progress, line)
           at == progress.current
           b == progress.by[at]
<1>1. /\ DOMAIN progress = {"current", "by"} /\ at \in DOMAIN progress.by \cup {None}
      /\ progress.by \in [DOMAIN progress.by -> Backup]
  BY DEF SessionTyped
<1>S. {"hash", "decrypt", "repair", "ileapp"} = Elems(Steps) BY StepsAre
<1>2. CASE line.is = "start" /\ line.label \in DOMAIN progress.by
  <2>1. q = [current |-> line.label,
             by |-> [progress.by EXCEPT ![line.label] =
                       [overall |-> "running", steps |-> [@.steps EXCEPT !["hash"] = "running"]]]]
    BY <1>2 DEF ApplyLine
  <2>2. [overall |-> "running", steps |-> [progress.by[line.label].steps EXCEPT !["hash"] = "running"]] \in Backup
    BY <1>1, <1>2, <1>S DEF Backup
  <2> QED BY <1>1, <1>2, <2>1, <2>2
<1>3. CASE line.is = "error" /\ at # None
  <2>1. q = [progress EXCEPT !.by[at] = [overall |-> "failed", steps |-> [b.steps EXCEPT ![line.step] = "error"]]]
    BY <1>3 DEF ApplyLine
  <2>2. [overall |-> "failed", steps |-> [b.steps EXCEPT ![line.step] = "error"]] \in Backup
    BY <1>1, <1>3 DEF Backup
  <2> QED BY <1>1, <1>3, <2>1, <2>2
<1>4. CASE line.is \in {"done", "skipped"} /\ at # None
  <2> DEFINE next == [overall |-> Overall(line.step, b.overall),
                      steps |-> [s \in DOMAIN b.steps |-> IF s = line.step THEN line.is
                                                          ELSE IF s \in After(line.step) THEN "running" ELSE b.steps[s]]]
  <2>1. q = [progress EXCEPT !.by[at] = next] BY <1>4 DEF ApplyLine
  <2>2. b \in Backup /\ at \in DOMAIN progress.by BY <1>1, <1>4
  <2>3. next \in Backup
    <3>1. Overall(line.step, b.overall) \in {"queued", "running", "done", "failed"} BY <2>2 DEF Overall, Backup
    <3>2. next.steps \in [Elems(Steps) -> {"pending", "running", "done", "skipped", "error"}] BY <1>4, <2>2 DEF Backup
    <3> QED BY <3>1, <3>2 DEF Backup
  <2>4. next.overall = "done" => b.overall = "done" \/ line.step = "ileapp" BY DEF Overall
  <2> HIDE DEF next
  <2> QED BY <1>1, <1>4, <2>1, <2>2, <2>3, <2>4 DEF Ending
<1>5. CASE /\ ~(line.is = "start" /\ line.label \in DOMAIN progress.by)
           /\ ~(line.is = "error" /\ at # None) /\ ~(line.is \in {"done", "skipped"} /\ at # None)
  <2>1. q = progress BY <1>5 DEF ApplyLine
  <2> QED BY <1>1, <1>5, <2>1
<1> QED BY <1>2, <1>3, <1>4, <1>5

-------------------------------------------------------------------------------
(* Lines that are written. *)

\* A line on stdout leaves what the earlier lines are about as it was.
LEMMA WritesOut ==
  ASSUME ProcessorTyped, LinesKnown, prep' = prep, NEW line \in Lines, Writes("out", line),
         Names' = Names, \A l \in Names : Over(l) => Over(l)',
         DOMAIN prep.progress.by \subseteq Names,
         line.is \in {"start", "prompt"} => line.label \in DOMAIN prep.progress.by,
         Ending(line) => processor.pc \in AtBackup /\ onDisk'[Name] = "prepared" /\ Name \notin Elems(processor'.todo),
         processor'.pc \in AtBackup =>
           IF line.is = "start" THEN line.label = Name' ELSE processor.pc \in AtBackup /\ Name' = Name
  PROVE  LinesKnown' /\ pipes' \in [out : Seq(Lines), err : Seq(Lines)]
<1> DEFINE out == pipes.out
           n == Len(pipes.out)
<1>1. /\ pipes' \in [out : Seq(Lines), err : Seq(Lines)] /\ pipes'.err = pipes.err
      /\ pipes'.out = Append(out, line) /\ Len(pipes'.out) = n + 1 /\ n \in Nat
      /\ \A i \in 1 .. n : pipes'.out[i] = out[i]
      /\ pipes'.out[n + 1] = line
  <2>1. pipes' = [pipes EXCEPT !["out"] = Append(@, line)] BY DEF Writes
  <2>2. out \in Seq(Lines) /\ pipes.err \in Seq(Lines) BY DEF ProcessorTyped
  <2>3. Append(out, line) \in Seq(Lines) /\ Len(Append(out, line)) = n + 1 /\ n \in Nat
        /\ (\A i \in 1 .. n : Append(out, line)[i] = out[i]) /\ Append(out, line)[n + 1] = line
    BY <2>2, AppendProperties, LenProperties
  <2>4. pipes' \in [out : Seq(Lines), err : Seq(Lines)] /\ pipes'.out = Append(out, line) /\ pipes'.err = pipes.err
    BY <2>1, <2>2, <2>3 DEF ProcessorTyped
  <2> QED BY <2>3, <2>4
<1>2. ASSUME NEW i \in 1 .. n + 1, NEW l, About(i, l)' PROVE About(i, l)
  <2>1. \A j \in 1 .. i - 1 : pipes'.out[j] = out[j] BY <1>1
  <2> QED BY <1>2, <2>1 DEF About
<1>3. ASSUME NEW l, NEW end, end = n + 2, About(end, l)' PROVE IF line.is = "start" THEN l = line.label ELSE About(n + 1, l)
  <2>1. n + 1 \in 1 .. end - 1 BY <1>1, <1>3
  <2>2. CASE line.is = "start"
    <3>1. PICK j \in 1 .. end - 1 : /\ pipes'.out[j].is = "start" /\ pipes'.out[j].label = l
                                        /\ \A k \in j + 1 .. end - 1 : pipes'.out[k].is # "start"
      BY <1>1, <1>3, <2>1, <2>2 DEF About
    <3>2. j = n + 1
      <4>1. j < n + 1 => n + 1 \in j + 1 .. end - 1 BY <1>1, <1>3
      <4> QED BY <1>1, <1>3, <2>2, <3>1, <4>1
    <3> QED BY <1>1, <2>2, <3>1, <3>2
  <2>3. CASE line.is # "start"
    <3>1. CASE \E j \in 1 .. end - 1 : /\ pipes'.out[j].is = "start" /\ pipes'.out[j].label = l
                                           /\ \A k \in j + 1 .. end - 1 : pipes'.out[k].is # "start"
      <4>1. PICK j \in 1 .. end - 1 : /\ pipes'.out[j].is = "start" /\ pipes'.out[j].label = l
                                          /\ \A k \in j + 1 .. end - 1 : pipes'.out[k].is # "start"
        BY <3>1
      <4>2. j # n + 1 BY <1>1, <2>3, <4>1
      <4>3. j \in 1 .. (n + 1) - 1 /\ \A k \in j + 1 .. (n + 1) - 1 : k \in 1 .. n /\ k \in j + 1 .. end - 1 BY <1>1, <1>3, <4>2
      <4>4. out[j].is = "start" /\ out[j].label = l /\ \A k \in j + 1 .. (n + 1) - 1 : out[k].is # "start"
        BY <1>1, <4>1, <4>3
      <4> QED BY <2>3, <4>3, <4>4 DEF About
    <3>2. CASE l = prep'.progress.current /\ \A k \in 1 .. end - 1 : pipes'.out[k].is # "start"
      <4>1. \A k \in 1 .. (n + 1) - 1 : k \in 1 .. n /\ k \in 1 .. end - 1 BY <1>1, <1>3
      <4>2. \A k \in 1 .. (n + 1) - 1 : out[k].is # "start" BY <1>1, <3>2, <4>1
      <4> QED BY <2>3, <3>2, <4>2 DEF About
    <3> QED BY <1>3, <3>1, <3>2 DEF About
  <2> QED BY <2>2, <2>3
<1> HIDE DEF n
<1>I. \A i \in 1 .. n + 1 : i = n + 1 \/ i \in 1 .. n BY <1>1
<1>4. \A i \in 1 .. Len(pipes'.err) : pipes'.err[i].is \in {"error", "other"} BY <1>1 DEF LinesKnown
<1>5. \A i \in 1 .. Len(pipes'.out) :
        pipes'.out[i].is \in {"start", "prompt"} => pipes'.out[i].label \in DOMAIN prep.progress.by
  BY <1>1, <1>I DEF LinesKnown, n
<1>6. ASSUME NEW i \in 1 .. Len(pipes'.out), NEW l \in Names, Ending(pipes'.out[i]), About(i, l)' PROVE Over(l)'
  <2>1. i \in 1 .. n + 1 /\ About(i, l) BY <1>1, <1>2, <1>6
  <2>2. CASE i \in 1 .. n BY <1>1, <1>6, <2>1, <2>2 DEF LinesKnown, n
  <2>3. CASE i = n + 1
    <3>1. Ending(line) BY <1>1, <1>6, <2>3
    <3>2. l = Name BY <2>1, <2>3, <3>1 DEF LinesKnown, n
    <3> QED BY <3>1, <3>2, <1>6 DEF Over
  <2> QED BY <1>I, <2>1, <2>2, <2>3
<1>7. ASSUME NEW l \in Names, processor'.pc \in AtBackup, About(Len(pipes.out) + 1, l)' PROVE l = Name'
  <2>1. \A end : end = Len(pipes'.out) + 1 => About(end, l)' BY <1>7 DEF About
  <2>3. (n + 1) + 1 = n + 2 BY <1>1
  <2>2. IF line.is = "start" THEN l = line.label ELSE About(n + 1, l) BY <1>1, <1>3, <2>1, <2>3
  <2> QED BY <1>7, <2>2 DEF LinesKnown, n
<1>8. \A l \in DOMAIN prep.progress.by : prep.progress.by[l].overall = "done" => Over(l)' BY DEF LinesKnown
<1> QED BY <1>1, <1>4, <1>5, <1>6, <1>7, <1>8 DEF LinesKnown, Ending

\* Nothing said on stdout.
LEMMA SaysNothing ==
  ASSUME ProcessorTyped, LinesKnown, prep' = prep, pipes'.out = pipes.out,
         \A i \in 1 .. Len(pipes'.err) : pipes'.err[i].is \in {"error", "other"},
         Names' = Names, \A l \in Names : Over(l) => Over(l)', DOMAIN prep.progress.by \subseteq Names,
         processor'.pc \in AtBackup => processor.pc \in AtBackup /\ Name' = Name
  PROVE  LinesKnown'
<1>1. \A i, l : About(i, l)' = About(i, l) BY DEF About
<1>2. \A i \in 1 .. Len(pipes'.out) : pipes'.out[i].is \in {"start", "prompt"} => pipes'.out[i].label \in DOMAIN prep'.progress.by
  BY DEF LinesKnown
<1>3. \A i \in 1 .. Len(pipes'.out) : \A l \in Names : Ending(pipes'.out[i]) /\ About(i, l)' => Over(l)'
  BY <1>1 DEF LinesKnown
<1>4. ASSUME NEW l \in Names, processor'.pc \in AtBackup, About(Len(pipes.out) + 1, l)' PROVE l = Name'
  <2>1. About(Len(pipes.out) + 1, l) BY <1>4 DEF About
  <2> QED BY <1>4, <2>1 DEF LinesKnown
<1>5. \A l \in DOMAIN prep'.progress.by : prep'.progress.by[l].overall = "done" => Over(l)' BY DEF LinesKnown
<1> QED BY <1>1, <1>2, <1>3, <1>4, <1>5 DEF LinesKnown, Ending

\* So does a line on stderr that starts, ends and asks nothing.
LEMMA WritesErr ==
  ASSUME ProcessorTyped, LinesKnown, NEW line \in Lines, line.is \in {"error", "other"}, Writes("err", line)
  PROVE  /\ pipes' \in [out : Seq(Lines), err : Seq(Lines)] /\ pipes'.out = pipes.out
         /\ \A i \in 1 .. Len(pipes'.err) : pipes'.err[i].is \in {"error", "other"}
<1>1. pipes' = [pipes EXCEPT !["err"] = Append(@, line)] BY DEF Writes
<1>2. pipes.out \in Seq(Lines) /\ pipes.err \in Seq(Lines) BY DEF ProcessorTyped
<1>3. /\ Append(pipes.err, line) \in Seq(Lines) /\ Len(Append(pipes.err, line)) = Len(pipes.err) + 1
      /\ Len(pipes.err) \in Nat
      /\ \A i \in 1 .. Len(pipes.err) : Append(pipes.err, line)[i] = pipes.err[i]
      /\ Append(pipes.err, line)[Len(pipes.err) + 1] = line
  BY <1>2, AppendProperties, LenProperties
<1>4. pipes' \in [out : Seq(Lines), err : Seq(Lines)] /\ pipes'.out = pipes.out /\ pipes'.err = Append(pipes.err, line)
  BY <1>1, <1>2, <1>3 DEF ProcessorTyped
<1>5. \A i \in 1 .. Len(pipes.err) + 1 : i \in 1 .. Len(pipes.err) \/ i = Len(pipes.err) + 1 BY <1>3
<1> QED BY <1>3, <1>4, <1>5 DEF LinesKnown

-------------------------------------------------------------------------------
(* The processor's steps. *)

\* Onward leaves the other backups, and starts the next or ends.
LeavesBackup ==
  \/ processor' = Onward(processor) \/ processor' = GivenUp(processor)
  \/ processor' = [Onward(processor) EXCEPT !.deaf = TRUE]
LEMMA OnwardIs ==
  ASSUME ProcessorTyped, TodoKnown, processor.pc \in AtBackup, LeavesBackup
  PROVE  /\ processor' \in Processors /\ processor'.pc \in {"start", "summary"}
         /\ processor'.gen = processor.gen /\ processor'.done = processor.done /\ processor'.attempt = 0
         /\ processor'.pc = "start" => processor'.todo # <<>>
         /\ Name \in Names /\ Name \in Elems(processor.todo) /\ Name \notin Elems(processor'.todo)
         /\ Elems(processor'.todo) \subseteq Elems(processor.todo)
         /\ \A i, j \in 1 .. Len(processor'.todo) : processor'.todo[i] = processor'.todo[j] => i = j
<1> DEFINE left == Tail(processor.todo)
           Next(f, d) == [gen |-> processor.gen, pc |-> IF left = <<>> THEN "summary" ELSE "start", todo |-> left,
                       ran |-> FALSE, attempt |-> 0, deaf |-> d, failed |-> f, code |-> processor.code,
                       done |-> processor.done]
<1>1. processor.todo \in Seq(Names) /\ processor.todo # <<>> BY DEF ProcessorTyped, Processors, TodoKnown
<1>2. \A i, j \in 1 .. Len(processor.todo) : processor.todo[i] = processor.todo[j] => i = j BY DEF TodoKnown
<1>3. /\ left \in Seq(Names) /\ Name \in Elems(processor.todo) /\ Name \in Names
      /\ \A i, j \in 1 .. Len(left) : left[i] = left[j] => i = j
      /\ Elems(left) \subseteq Elems(processor.todo) /\ Name \notin Elems(left)
  BY <1>1, <1>2, TailIs DEF Name
<1>4. PICK f \in SUBSET Names, d \in BOOLEAN : processor' = Next(f, d)
  <2>1. processor \in Processors BY DEF ProcessorTyped
  <2>P. ASSUME NEW p \in [gen : Nat, pc : ProcessorPlaces, todo : Seq(Names), ran : BOOLEAN, attempt : 0 .. MaxAttempts,
                          deaf : BOOLEAN, failed : SUBSET Names, code : {0, 1}, done : BOOLEAN],
               p.gen = processor.gen, p.todo = processor.todo, p.code = processor.code, p.done = processor.done,
               p.deaf = processor.deaf
        PROVE  Onward(p) = Next(p.failed, processor.deaf)
    <3>1. Tail(p.todo) = left BY <2>P
    <3>2. Onward(p) = [p EXCEPT !.todo = left, !.pc = IF left = <<>> THEN "summary" ELSE "start", !.ran = FALSE, !.attempt = 0]
      BY <3>1 DEF Onward
    <3> HIDE DEF left
    <3> QED BY <3>2, <2>P
  <2>2. Onward(processor) = Next(processor.failed, processor.deaf) BY <2>1, <2>P DEF Processors
  <2>3. GivenUp(processor) = Next(processor.failed \cup {Name}, processor.deaf)
    <3> DEFINE p == [processor EXCEPT !.failed = @ \cup {Name}]
    <3>1. p.failed = processor.failed \cup {Name} /\ p.gen = processor.gen /\ p.todo = processor.todo
          /\ p.code = processor.code /\ p.done = processor.done /\ p.deaf = processor.deaf
      BY <2>1 DEF Processors
    <3>2. p \in [gen : Nat, pc : ProcessorPlaces, todo : Seq(Names), ran : BOOLEAN, attempt : 0 .. MaxAttempts,
                 deaf : BOOLEAN, failed : SUBSET Names, code : {0, 1}, done : BOOLEAN]
      BY <1>3, <2>1 DEF Processors
    <3>3. GivenUp(processor) = Onward(p) BY DEF GivenUp, Blamed
    <3> HIDE DEF p
    <3> QED BY <2>P, <3>1, <3>2, <3>3
  <2>4. processor.failed \in SUBSET Names /\ processor.failed \cup {Name} \in SUBSET Names
        /\ processor.deaf \in BOOLEAN
    BY <1>3, <2>1 DEF Processors
  <2>5. [Onward(processor) EXCEPT !.deaf = TRUE] = Next(processor.failed, TRUE)
    <3> HIDE DEF left
    <3>1. Next(processor.failed, processor.deaf) \in Processors /\ Next(processor.failed, TRUE) \in Processors
      <4>1. 0 \in 0 .. MaxAttempts BY PreparationAssumption
      <4> QED BY <1>3, <2>1, <2>4, <4>1 DEF Processors, ProcessorPlaces
    <3>2. ASSUME NEW p \in Processors, NEW q \in Processors, p.gen = q.gen, p.pc = q.pc, p.todo = q.todo, p.ran = q.ran,
                 p.attempt = q.attempt, p.deaf = q.deaf, p.failed = q.failed, p.code = q.code, p.done = q.done
          PROVE  p = q
      BY <3>2 DEF Processors
    <3>3. PICK p \in Processors : p = Onward(processor) /\ p = Next(processor.failed, processor.deaf) BY <2>2, <3>1
    <3>4. PICK q \in Processors : q = Next(processor.failed, TRUE) BY <3>1
    <3>5. PICK r : r = [p EXCEPT !.deaf = TRUE] OBVIOUS
    <3>6. /\ r \in Processors /\ r.gen = p.gen /\ r.pc = p.pc /\ r.todo = p.todo /\ r.ran = p.ran
          /\ r.attempt = p.attempt /\ r.deaf = TRUE /\ r.failed = p.failed /\ r.code = p.code /\ r.done = p.done
      BY <3>5 DEF Processors
    <3>7. /\ q.gen = p.gen /\ q.pc = p.pc /\ q.todo = p.todo /\ q.ran = p.ran
          /\ q.attempt = p.attempt /\ q.deaf = TRUE /\ q.failed = p.failed /\ q.code = p.code /\ q.done = p.done
      BY <3>3, <3>4
    <3>8. r = q BY <3>2, <3>6, <3>7
    <3> QED BY <3>3, <3>4, <3>5, <3>8
  <2> QED BY <2>2, <2>3, <2>4, <2>5 DEF LeavesBackup
<1> HIDE DEF left
<1>5. processor' \in Processors
  <2>1. 0 \in 0 .. MaxAttempts BY PreparationAssumption
  <2> QED BY <1>3, <1>4, <2>1 DEF ProcessorTyped, Processors, ProcessorPlaces
<1>6. processor'.todo = left BY <1>4
<1> QED BY <1>3, <1>4, <1>5, <1>6

\* What is known of the progress stays known while the processor stays at its backup.
LEMMA AtSameBackup ==
  ASSUME SessionInv, UNCHANGED <<child, prep, summary>>, processor.pc \in AtBackup \cup {"start"},
         processor' \in Processors, processor'.gen = processor.gen, processor'.done = processor.done,
         processor'.todo = processor.todo, processor'.pc \in AtBackup,
         processor'.pc = "hash" => processor'.attempt = 0,
         processor'.pc = "decrypt" => processor'.attempt < MaxAttempts,
         processor'.pc = "waits" => pipes'.out # <<>> /\ pipes'.out[Len(pipes'.out)] = Line("prompt", None, Name),
         pipes' \in [out : Seq(Lines), err : Seq(Lines)], onDisk' \in [Names -> {"absent", "partial", "prepared"}],
         LinesKnown'
  PROVE  SessionInv'
<1> USE DEF SessionInv
<1>1. processor.pc # "exited" /\ Name' = Name BY DEF AtBackup, Name
<1>2. ProcessorTyped' BY DEF ProcessorTyped
<1>3. SessionTyped' BY DEF SessionTyped
<1>4. OnePreparation' BY <1>1 DEF OnePreparation
<1>5. SummaryKnown' BY <1>1, <1>4 DEF SummaryKnown, OnePreparation, SessionTyped
<1>6. Prompted' BY <1>1 DEF Prompted
<1>7. TodoKnown' BY DEF TodoKnown, AtBackup
<1> QED BY <1>2, <1>3, <1>4, <1>5, <1>6, <1>7

\* And when it leaves it for the next.
LEMMA ToNextBackup ==
  ASSUME SessionInv, UNCHANGED <<child, prep, summary>>, processor.pc \in AtBackup, LeavesBackup,
         pipes' \in [out : Seq(Lines), err : Seq(Lines)], onDisk' \in [Names -> {"absent", "partial", "prepared"}],
         LinesKnown'
  PROVE  SessionInv'
<1> USE DEF SessionInv
<1>1. /\ processor' \in Processors /\ processor'.pc \in {"start", "summary"} /\ processor.pc # "exited"
      /\ processor'.gen = processor.gen /\ processor'.done = processor.done /\ processor'.attempt = 0
      /\ processor'.pc = "start" => processor'.todo # <<>>
      /\ Elems(processor'.todo) \subseteq Elems(processor.todo)
      /\ \A i, j \in 1 .. Len(processor'.todo) : processor'.todo[i] = processor'.todo[j] => i = j
  BY OnwardIs DEF AtBackup
<1>2. ProcessorTyped' BY <1>1 DEF ProcessorTyped
<1>3. SessionTyped' BY DEF SessionTyped
<1>4. OnePreparation' BY <1>1 DEF OnePreparation
<1>5. SummaryKnown' BY <1>1, <1>4 DEF SummaryKnown, OnePreparation, SessionTyped
<1>6. Prompted' BY <1>1 DEF Prompted
<1>7. TodoKnown' BY <1>1 DEF TodoKnown, AtBackup
<1> QED BY <1>2, <1>3, <1>4, <1>5, <1>6, <1>7

\* The lines a processor writes are lines.
LEMMA LineIsOne ==
  ASSUME NEW is \in {"start", "done", "skipped", "error", "prompt", "other"},
         NEW step \in {"hash", "decrypt", "repair", "ileapp", None}, NEW label \in Names \cup {None}
  PROVE  /\ Line(is, step, label) \in Lines /\ Line(is, step, label).is = is /\ Line(is, step, label).label = label
         /\ Line(is, step, label).step = step
BY StepsAre DEF Line, Lines

\* A line on stdout, of a processor that stays at its backup.
LEMMA SaysOut ==
  ASSUME SessionInv, UNCHANGED <<child, prep, summary>>, processor.pc \in AtBackup \cup {"start"},
         processor' \in Processors, processor'.gen = processor.gen, processor'.done = processor.done,
         processor'.todo = processor.todo, processor'.pc \in AtBackup,
         processor'.pc = "hash" => processor'.attempt = 0,
         processor'.pc = "decrypt" => processor'.attempt < MaxAttempts,
         NEW line \in Lines, Writes("out", line), ~Ending(line),
         line.is \in {"start", "prompt"} => line.label = Name,
         processor.pc = "start" => line.is = "start",
         processor'.pc = "waits" => line = Line("prompt", None, Name),
         onDisk' \in [Names -> {"absent", "partial", "prepared"}],
         \A l \in Names : l # Name => onDisk'[l] = onDisk[l]
  PROVE  SessionInv'
<1> USE DEF SessionInv
<1>1. Name' = Name /\ Names' = Names BY DEF Name, Names
<1>2. Name \in Elems(processor.todo) /\ Elems(processor.todo) \subseteq DOMAIN prep.progress.by /\ DOMAIN prep.progress.by \subseteq Names
  <2>1. processor.todo # <<>> /\ processor.todo \in Seq(Names)
    BY DEF TodoKnown, ProcessorTyped, Processors
  <2>2. Elems(processor.todo) \subseteq DOMAIN prep.progress.by /\ DOMAIN prep.progress.by \subseteq Names
    BY DEF TodoKnown, SessionTyped
  <2> QED BY <2>1, <2>2, TailIs DEF Name, TodoKnown
<1>3. \A l \in Names : Over(l) => Over(l)' BY <1>2 DEF Over
<1>4. LinesKnown' /\ pipes' \in [out : Seq(Lines), err : Seq(Lines)]
  BY <1>1, <1>2, <1>3, WritesOut
<1>5. pipes'.out # <<>> /\ pipes'.out[Len(pipes'.out)] = line
  <2>1. pipes'.out = Append(pipes.out, line) /\ pipes.out \in Seq(Lines) BY DEF Writes, ProcessorTyped
  <2> QED BY <2>1, AppendProperties
<1> QED BY <1>4, <1>5, AtSameBackup

\* A line on stderr.
LEMMA SaysErr ==
  ASSUME SessionInv, UNCHANGED <<child, prep, summary, onDisk>>, processor.pc \in AtBackup,
         NEW line \in Lines, line.is \in {"error", "other"}, Writes("err", line),
         \/ LeavesBackup
         \/ /\ processor' \in Processors /\ processor'.gen = processor.gen /\ processor'.done = processor.done
            /\ processor'.todo = processor.todo /\ processor'.pc = "decrypt" /\ processor'.attempt < MaxAttempts
  PROVE  SessionInv'
<1> USE DEF SessionInv
<1>1. /\ pipes' \in [out : Seq(Lines), err : Seq(Lines)] /\ pipes'.out = pipes.out
      /\ \A i \in 1 .. Len(pipes'.err) : pipes'.err[i].is \in {"error", "other"}
  BY WritesErr
<1>2. Names' = Names /\ DOMAIN prep.progress.by \subseteq Names /\ onDisk' \in [Names -> {"absent", "partial", "prepared"}]
  BY DEF Names, SessionTyped, ProcessorTyped
<1>3. CASE LeavesBackup
  <2>1. Elems(processor'.todo) \subseteq Elems(processor.todo) /\ processor'.pc \in {"start", "summary"}
    BY <1>3, OnwardIs
  <2>2. \A l \in Names : Over(l) => Over(l)' BY <2>1 DEF Over
  <2>3. LinesKnown' BY <1>1, <1>2, <2>1, <2>2, SaysNothing DEF AtBackup
  <2> QED BY <1>1, <1>2, <1>3, <2>3, ToNextBackup
<1>4. CASE /\ processor' \in Processors /\ processor'.gen = processor.gen /\ processor'.done = processor.done
           /\ processor'.todo = processor.todo /\ processor'.pc = "decrypt" /\ processor'.attempt < MaxAttempts
  <2>1. Name' = Name BY <1>4 DEF Name
  <2>2. \A l \in Names : Over(l) => Over(l)' BY <1>4 DEF Over
  <2>3. LinesKnown' BY <1>1, <1>2, <2>1, <2>2, SaysNothing
  <2> QED BY <1>1, <1>2, <1>4, <2>3, AtSameBackup DEF AtBackup
<1> QED BY <1>3, <1>4

\* A processor at a backup has one.
LEMMA NameIsLeft ==
  ASSUME SessionInv, processor.pc \in AtBackup \cup {"start"}
  PROVE  /\ Name \in Names /\ Name \in Elems(processor.todo) /\ processor \in Processors /\ processor.todo # <<>>
         /\ Elems(processor.todo) \subseteq DOMAIN prep.progress.by /\ DOMAIN prep.progress.by \subseteq Names
         /\ onDisk \in [Names -> {"absent", "partial", "prepared"}]
<1>1. processor \in Processors /\ processor.todo # <<>> /\ processor.todo \in Seq(Names)
  BY DEF SessionInv, TodoKnown, ProcessorTyped, Processors
<1>2. \A i, j \in 1 .. Len(processor.todo) : processor.todo[i] = processor.todo[j] => i = j BY DEF SessionInv, TodoKnown
<1>3. Name \in Names /\ Name \in Elems(processor.todo) BY <1>1, <1>2, TailIs DEF Name
<1> QED BY <1>1, <1>3 DEF SessionInv, TodoKnown, SessionTyped, ProcessorTyped

\* The lines that end a backup are written when it is prepared.
LEMMA SaysOver ==
  ASSUME SessionInv, UNCHANGED <<child, prep, summary>>, processor.pc \in AtBackup, LeavesBackup,
         NEW line \in Lines, Writes("out", line), line.is \in {"done", "skipped"},
         onDisk' \in [Names -> {"absent", "partial", "prepared"}],
         onDisk'[Name] = "prepared", \A l \in Names : l # Name => onDisk'[l] = onDisk[l]
  PROVE  SessionInv'
<1>1. /\ Name \in Elems(processor.todo) /\ DOMAIN prep.progress.by \subseteq Names BY NameIsLeft
<1>2. /\ Elems(processor'.todo) \subseteq Elems(processor.todo) /\ Name \notin Elems(processor'.todo)
      /\ processor'.pc \notin AtBackup
  BY OnwardIs DEF AtBackup, SessionInv
<1>3. Names' = Names /\ \A l \in Names : Over(l) => Over(l)' BY <1>1, <1>2 DEF Over, Names
<1>4. LinesKnown' /\ pipes' \in [out : Seq(Lines), err : Seq(Lines)]
  BY <1>1, <1>2, <1>3, WritesOut DEF SessionInv
<1> QED BY <1>4, ToNextBackup

\* The steps of the processor.
LEMMA BackupStartsKeeps == ASSUME SessionInv, UNCHANGED <<child, prep>>, BackupStarts PROVE SessionInv'
<1>1. processor.pc = "start" /\ Writes("out", Line("start", None, Name)) /\ processor' = [processor EXCEPT !.pc = "hash"]
      /\ UNCHANGED <<onDisk, summary>>
  BY DEF BackupStarts, Becomes, FilesStay, SummaryStays
<1>2. /\ Name \in Names /\ processor \in Processors /\ onDisk \in [Names -> {"absent", "partial", "prepared"}]
  BY <1>1, NameIsLeft
<1>3. processor.attempt = 0 BY <1>1 DEF SessionInv, TodoKnown
<1>4. /\ processor' \in Processors /\ processor'.gen = processor.gen /\ processor'.done = processor.done
      /\ processor'.todo = processor.todo /\ processor'.pc = "hash" /\ processor'.attempt = 0
  BY <1>1, <1>2, <1>3 DEF Processors, ProcessorPlaces, AtBackup
<1>5. Line("start", None, Name) \in Lines /\ Line("start", None, Name).is = "start" /\ Line("start", None, Name).label = Name
  BY <1>2, LineIsOne
<1> QED BY <1>1, <1>2, <1>4, <1>5, SaysOut DEF AtBackup, Ending

LEMMA HashKeeps == ASSUME SessionInv, UNCHANGED <<child, prep>>, Hash PROVE SessionInv'
<1>1. processor.pc = "hash" /\ UNCHANGED <<onDisk, summary>> BY DEF Hash, FilesStay, SummaryStays
<1>2. /\ Name \in Names /\ processor \in Processors /\ onDisk \in [Names -> {"absent", "partial", "prepared"}]
  BY <1>1, NameIsLeft DEF AtBackup
<1>3. CASE Writes("out", Line("done", "hash", None)) /\ Becomes([processor EXCEPT !.pc = "decrypt"])
  <2>1. processor.attempt = 0 BY <1>1 DEF SessionInv, TodoKnown
  <2>2. /\ processor' \in Processors /\ processor'.gen = processor.gen /\ processor'.done = processor.done
        /\ processor'.todo = processor.todo /\ processor'.pc = "decrypt" /\ processor'.attempt < MaxAttempts
    <3>1. MaxAttempts \in Nat /\ MaxAttempts # 0 BY PreparationAssumption
    <3>2. 0 < MaxAttempts BY <3>1
    <3> HIDE DEF AtBackup
    <3> QED BY <1>2, <1>3, <2>1, <3>2 DEF Processors, ProcessorPlaces, AtBackup, Becomes
  <2>3. /\ Line("done", "hash", None) \in Lines /\ Line("done", "hash", None).is = "done"
        /\ Line("done", "hash", None).step = "hash"
    BY LineIsOne
  <2> QED BY <1>1, <1>2, <1>3, <2>2, <2>3, SaysOut DEF AtBackup, Ending
<1>4. CASE Writes("err", Line("error", "hash", None)) /\ Becomes(GivenUp(processor))
  <2>1. Line("error", "hash", None) \in Lines /\ Line("error", "hash", None).is = "error" BY LineIsOne
  <2> QED BY <1>1, <1>4, <2>1, SaysErr DEF AtBackup, Becomes, LeavesBackup
<1> QED BY <1>3, <1>4 DEF Hash

LEMMA SkipDecryptKeeps == ASSUME SessionInv, UNCHANGED <<child, prep>>, SkipDecrypt PROVE SessionInv'
<1>1. /\ processor.pc = "decrypt" /\ UNCHANGED <<onDisk, summary>>
      /\ Writes("out", Line("skipped", "decrypt", None)) /\ processor' = [processor EXCEPT !.pc = "repair"]
  BY DEF SkipDecrypt, FilesStay, SummaryStays, Becomes
<1>2. /\ Name \in Names /\ processor \in Processors /\ onDisk \in [Names -> {"absent", "partial", "prepared"}]
  BY <1>1, NameIsLeft DEF AtBackup
<1>3. /\ processor' \in Processors /\ processor'.gen = processor.gen /\ processor'.done = processor.done
      /\ processor'.todo = processor.todo /\ processor'.pc = "repair"
  BY <1>1, <1>2 DEF Processors, ProcessorPlaces, AtBackup
<1>4. /\ Line("skipped", "decrypt", None) \in Lines /\ Line("skipped", "decrypt", None).is = "skipped"
      /\ Line("skipped", "decrypt", None).step = "decrypt"
  BY LineIsOne
<1> QED BY <1>1, <1>2, <1>3, <1>4, SaysOut DEF AtBackup, Ending

LEMMA PromptKeeps == ASSUME SessionInv, UNCHANGED <<child, prep>>, Prompt PROVE SessionInv'
<1>1. /\ processor.pc = "decrypt" /\ onDisk' = [onDisk EXCEPT ![Name] = "absent"] /\ UNCHANGED summary
      /\ Writes("out", Line("prompt", None, Name))
      /\ processor' = [processor EXCEPT !.pc = IF processor.deaf THEN "ends" ELSE "waits", !.attempt = @ + 1]
  BY DEF Prompt, SummaryStays, Becomes
<1>2. /\ Name \in Names /\ processor \in Processors /\ onDisk \in [Names -> {"absent", "partial", "prepared"}]
  BY <1>1, NameIsLeft DEF AtBackup
<1>3. processor.attempt < MaxAttempts BY <1>1 DEF SessionInv, Prompted
<1>4. processor.attempt + 1 \in 0 .. MaxAttempts BY <1>2, <1>3, PreparationAssumption DEF Processors
<1>5. /\ processor' \in Processors /\ processor'.gen = processor.gen /\ processor'.done = processor.done
      /\ processor'.todo = processor.todo /\ processor'.pc \in {"waits", "ends"}
  BY <1>1, <1>2, <1>4 DEF Processors, ProcessorPlaces, AtBackup
<1>6. Line("prompt", None, Name) \in Lines /\ Line("prompt", None, Name).is = "prompt" /\ Line("prompt", None, Name).label = Name
  BY <1>2, LineIsOne
<1>7. onDisk' \in [Names -> {"absent", "partial", "prepared"}] /\ \A l \in Names : l # Name => onDisk'[l] = onDisk[l]
  BY <1>1, <1>2
<1> QED BY <1>1, <1>5, <1>6, <1>7, SaysOut DEF AtBackup, Ending

LEMMA PromptRaisesKeeps == ASSUME SessionInv, UNCHANGED <<child, prep>>, PromptRaises PROVE SessionInv'
<1>1. /\ processor.pc = "waits" /\ UNCHANGED <<onDisk, summary>>
      /\ Writes("err", Line("error", "decrypt", None)) /\ LeavesBackup
  BY DEF PromptRaises, FilesStay, SummaryStays, Becomes, LeavesBackup
<1>2. Line("error", "decrypt", None) \in Lines /\ Line("error", "decrypt", None).is = "error" BY LineIsOne
<1> QED BY <1>1, <1>2, SaysErr DEF AtBackup

LEMMA DecryptKeeps == ASSUME SessionInv, UNCHANGED <<child, prep>>, Decrypt PROVE SessionInv'
<1>1. processor.pc = "decrypting" /\ UNCHANGED <<onDisk, summary>> BY DEF Decrypt, FilesStay, SummaryStays
<1>2. /\ Name \in Names /\ processor \in Processors /\ onDisk \in [Names -> {"absent", "partial", "prepared"}]
  BY <1>1, NameIsLeft DEF AtBackup
<1>3. CASE Writes("out", Line("done", "decrypt", None)) /\ Becomes([processor EXCEPT !.pc = "repair", !.ran = TRUE])
  <2>1. /\ processor' \in Processors /\ processor'.gen = processor.gen /\ processor'.done = processor.done
        /\ processor'.todo = processor.todo /\ processor'.pc = "repair"
    BY <1>2, <1>3 DEF Processors, ProcessorPlaces, AtBackup, Becomes
  <2>2. /\ Line("done", "decrypt", None) \in Lines /\ Line("done", "decrypt", None).is = "done"
        /\ Line("done", "decrypt", None).step = "decrypt"
    BY LineIsOne
  <2> QED BY <1>1, <1>2, <1>3, <2>1, <2>2, SaysOut DEF AtBackup, Ending
<1>4. CASE /\ processor.attempt < MaxAttempts /\ Writes("err", Line("other", "decrypt", None))
           /\ Becomes([processor EXCEPT !.pc = "decrypt"])
  <2>1. /\ processor' \in Processors /\ processor'.gen = processor.gen /\ processor'.done = processor.done
        /\ processor'.todo = processor.todo /\ processor'.pc = "decrypt" /\ processor'.attempt < MaxAttempts
    BY <1>2, <1>4 DEF Processors, ProcessorPlaces, AtBackup, Becomes
  <2>2. Line("other", "decrypt", None) \in Lines /\ Line("other", "decrypt", None).is = "other" BY LineIsOne
  <2> QED BY <1>1, <1>4, <2>1, <2>2, SaysErr DEF AtBackup
<1>5. CASE /\ processor.attempt < MaxAttempts /\ Writes("err", Line("error", "decrypt", None))
           /\ Becomes([Blamed(processor) EXCEPT !.pc = "decrypt"])
  <2>1. /\ processor' \in Processors /\ processor'.gen = processor.gen /\ processor'.done = processor.done
        /\ processor'.todo = processor.todo /\ processor'.pc = "decrypt" /\ processor'.attempt < MaxAttempts
    BY <1>2, <1>5 DEF Processors, ProcessorPlaces, AtBackup, Becomes, Blamed
  <2>2. Line("error", "decrypt", None) \in Lines /\ Line("error", "decrypt", None).is = "error" BY LineIsOne
  <2> QED BY <1>1, <1>5, <2>1, <2>2, SaysErr DEF AtBackup
<1>6. CASE /\ \/ processor.attempt = MaxAttempts /\ Writes("err", Line("other", "decrypt", None))
              \/ Writes("err", Line("error", "decrypt", None))
           /\ Becomes(GivenUp(processor))
  <2>1. PICK is \in {"other", "error"} : Writes("err", Line(is, "decrypt", None)) BY <1>6
  <2>2. Line(is, "decrypt", None) \in Lines /\ Line(is, "decrypt", None).is \in {"error", "other"} BY LineIsOne
  <2> QED BY <1>1, <1>6, <2>1, <2>2, SaysErr DEF AtBackup, Becomes, LeavesBackup
<1> QED BY <1>3, <1>4, <1>5, <1>6 DEF Decrypt

LEMMA RepairKeeps == ASSUME SessionInv, UNCHANGED <<child, prep>>, Repair PROVE SessionInv'
<1>1. processor.pc = "repair" /\ UNCHANGED summary BY DEF Repair, SummaryStays
<1>2. /\ Name \in Names /\ processor \in Processors /\ onDisk \in [Names -> {"absent", "partial", "prepared"}]
  BY <1>1, NameIsLeft DEF AtBackup
<1>3. CASE /\ Writes("out", Line(IF processor.ran THEN "done" ELSE "skipped", "repair", None))
           /\ Becomes([processor EXCEPT !.pc = "ileapp"])
           /\ onDisk' = IF processor.ran THEN [onDisk EXCEPT ![Name] = "partial"] ELSE onDisk
  <2>1. /\ processor' \in Processors /\ processor'.gen = processor.gen /\ processor'.done = processor.done
        /\ processor'.todo = processor.todo /\ processor'.pc = "ileapp"
    BY <1>2, <1>3 DEF Processors, ProcessorPlaces, AtBackup, Becomes
  <2>2. PICK is \in {"done", "skipped"} : Writes("out", Line(is, "repair", None)) BY <1>3
  <2>3. /\ Line(is, "repair", None) \in Lines /\ Line(is, "repair", None).is = is
        /\ Line(is, "repair", None).step = "repair"
    BY LineIsOne
  <2>4. onDisk' \in [Names -> {"absent", "partial", "prepared"}] /\ \A l \in Names : l # Name => onDisk'[l] = onDisk[l]
    BY <1>2, <1>3
  <2> QED BY <1>1, <2>1, <2>2, <2>3, <2>4, SaysOut DEF AtBackup, Ending
<1>4. CASE processor.ran /\ Writes("err", Line("error", "repair", None)) /\ Becomes(GivenUp(processor)) /\ UNCHANGED onDisk
  <2>1. Line("error", "repair", None) \in Lines /\ Line("error", "repair", None).is = "error" BY LineIsOne
  <2> QED BY <1>1, <1>4, <2>1, SaysErr DEF AtBackup, Becomes, LeavesBackup
<1> QED BY <1>3, <1>4 DEF Repair

LEMMA SkipIleappKeeps == ASSUME SessionInv, UNCHANGED <<child, prep>>, SkipIleapp PROVE SessionInv'
<1>1. /\ processor.pc = "ileapp" /\ onDisk[Name] = "prepared" /\ UNCHANGED <<onDisk, summary>>
      /\ Writes("out", Line("skipped", "ileapp", None)) /\ LeavesBackup
  BY DEF SkipIleapp, AfterIleapp, FilesStay, SummaryStays, Becomes, LeavesBackup
<1>2. onDisk \in [Names -> {"absent", "partial", "prepared"}] BY <1>1, NameIsLeft DEF AtBackup
<1>3. Line("skipped", "ileapp", None) \in Lines /\ Line("skipped", "ileapp", None).is = "skipped" BY LineIsOne
<1> QED BY <1>1, <1>2, <1>3, SaysOver DEF AtBackup

\* Output is removed only of the backup at hand, whose end was not told.
LEMMA ClearIleappKeeps == ASSUME SessionInv, UNCHANGED <<child, prep>>, ClearIleapp PROVE SessionInv'
<1>1. /\ processor.pc = "ileapp" /\ UNCHANGED <<processor, pipes, summary>>
      /\ onDisk' = [onDisk EXCEPT ![Name] = "partial"]
  BY DEF ClearIleapp, SummaryStays
<1>2. /\ Name \in Elems(processor.todo) /\ processor \in Processors /\ DOMAIN prep.progress.by \subseteq Names
      /\ onDisk \in [Names -> {"absent", "partial", "prepared"}]
  BY <1>1, NameIsLeft DEF AtBackup
<1>3. onDisk' \in [Names -> {"absent", "partial", "prepared"}] /\ \A l \in Names : l # Name => onDisk'[l] = onDisk[l]
  BY <1>1, <1>2
<1>4. Names' = Names /\ Name' = Name BY <1>1 DEF Names, Name
<1>5. \A l \in Names : Over(l) => Over(l)' BY <1>1, <1>2, <1>3 DEF Over
<1>6. LinesKnown'
  <2>1. \A i \in 1 .. Len(pipes'.err) : pipes'.err[i].is \in {"error", "other"} BY <1>1 DEF SessionInv, LinesKnown
  <2> QED BY <1>1, <1>2, <1>4, <1>5, <2>1, SaysNothing DEF SessionInv
<1>7. pipes' \in [out : Seq(Lines), err : Seq(Lines)] BY <1>1 DEF SessionInv, ProcessorTyped
<1> QED BY <1>1, <1>2, <1>3, <1>6, <1>7, AtSameBackup DEF AtBackup

LEMMA IleappKeeps == ASSUME SessionInv, UNCHANGED <<child, prep>>, Ileapp PROVE SessionInv'
<1>1. processor.pc = "ileapp" /\ UNCHANGED summary BY DEF Ileapp, SummaryStays
<1>2. /\ Name \in Names /\ processor \in Processors /\ onDisk \in [Names -> {"absent", "partial", "prepared"}]
  BY <1>1, NameIsLeft DEF AtBackup
<1>3. CASE Writes("out", Line("done", "ileapp", None)) /\ AfterIleapp /\ onDisk' = [onDisk EXCEPT ![Name] = "prepared"]
  <2>1. Line("done", "ileapp", None) \in Lines /\ Line("done", "ileapp", None).is = "done" BY LineIsOne
  <2>2. /\ onDisk' \in [Names -> {"absent", "partial", "prepared"}] /\ onDisk'[Name] = "prepared"
        /\ \A l \in Names : l # Name => onDisk'[l] = onDisk[l]
    BY <1>2, <1>3
  <2> QED BY <1>1, <1>3, <2>1, <2>2, SaysOver DEF AtBackup, AfterIleapp, Becomes, LeavesBackup
<1>4. CASE Writes("err", Line("error", "ileapp", None)) /\ Becomes(GivenUp(processor)) /\ UNCHANGED onDisk
  <2>1. Line("error", "ileapp", None) \in Lines /\ Line("error", "ileapp", None).is = "error" BY LineIsOne
  <2> QED BY <1>1, <1>4, <2>1, SaysErr DEF AtBackup, Becomes, LeavesBackup
<1> QED BY <1>3, <1>4 DEF Ileapp

\* The processor's end: the summary written, or without one.
LEMMA EndKeeps ==
  ASSUME SessionInv, UNCHANGED <<child, prep>>, WriteSummary \/ ProcessorDies
  PROVE  SessionInv'
<1> USE DEF SessionInv
<1>1. processor \in Processors /\ processor.pc # "exited" /\ UNCHANGED <<pipes, onDisk>>
  BY DEF WriteSummary, ProcessorDies, ProcessorTyped
<1>2. /\ processor' \in Processors /\ processor'.gen = processor.gen /\ processor'.todo = processor.todo
      /\ processor'.pc = "exited" /\ processor'.failed = processor.failed /\ processor'.attempt = processor.attempt
      /\ \/ /\ summary' = [gen |-> processor.gen, failed |-> processor.failed] /\ processor'.done
         \/ summary' = summary /\ processor'.done = processor.done
  BY <1>1 DEF WriteSummary, ProcessorDies, Becomes, Processors, ProcessorPlaces
<1>3. ProcessorTyped' BY <1>1, <1>2 DEF ProcessorTyped, Processors
<1>4. SessionTyped' BY DEF SessionTyped
<1>5. OnePreparation' BY <1>1, <1>2 DEF OnePreparation
<1>6. SummaryKnown' BY <1>1, <1>2, <1>5 DEF SummaryKnown, OnePreparation, SessionTyped
<1>7. Prompted' BY <1>2 DEF Prompted
<1>8. TodoKnown' BY <1>2 DEF TodoKnown, AtBackup
<1>9. LinesKnown'
  <2>1. \A i, l : About(i, l)' = About(i, l) BY <1>1 DEF About
  <2>2. \A l : Over(l)' = Over(l) BY <1>1, <1>2 DEF Over
  <2>3. Names' = Names /\ processor'.pc \notin AtBackup BY <1>2 DEF Names, AtBackup
  <2> QED BY <1>1, <1>2, <2>1, <2>2, <2>3 DEF LinesKnown, Ending
<1> QED BY <1>3, <1>4, <1>5, <1>6, <1>7, <1>8, <1>9

LEMMA ProcessorStepKeeps == ASSUME SessionInv, ProcessorStep PROVE SessionInv'
BY BackupStartsKeeps, HashKeeps, SkipDecryptKeeps, PromptKeeps, PromptRaisesKeeps, DecryptKeeps, RepairKeeps,
   SkipIleappKeeps, ClearIleappKeeps, IleappKeeps, EndKeeps
   DEF ProcessorStep

-------------------------------------------------------------------------------
(* The main process's steps. *)

\* What only concerns the page and the notifier leaves the session as it is.
LEMMA SessionStays ==
  ASSUME SessionInv, UNCHANGED <<processor, pipes, onDisk, summary, child>>,
         prep' = prep \/ \E soon \in BOOLEAN : prep' = [prep EXCEPT !.soon = soon]
  PROVE  SessionInv'
<1> USE DEF SessionInv
<1>1. /\ DOMAIN prep' = DOMAIN prep /\ prep'.gen = prep.gen /\ prep'.status = prep.status /\ prep'.progress = prep.progress
      /\ prep'.passwordFor = prep.passwordFor /\ prep'.result = prep.result /\ prep'.from = prep.from
      /\ prep'.to = prep.to /\ prep'.soon \in BOOLEAN
  BY DEF SessionTyped
<1>2. ProcessorTyped' BY DEF ProcessorTyped
<1>3. SessionTyped' BY <1>1 DEF SessionTyped
<1>4. OnePreparation' /\ Prompted' BY <1>1 DEF OnePreparation, Prompted, Name
<1>5. SummaryKnown' BY <1>1 DEF SummaryKnown, ResultIsOfThisPass
<1>6. TodoKnown' BY <1>1 DEF TodoKnown
<1>7. LinesKnown' BY <1>1 DEF LinesKnown, About, Over, Name
<1> QED BY <1>2, <1>3, <1>4, <1>5, <1>6, <1>7

LEMMA NotifierKeeps == ASSUME SessionInv, NotifierFires PROVE SessionInv'
BY SessionStays DEF NotifierFires, Now

\* The end of the child process, and of the session.
LEMMA CloseKeeps == ASSUME SessionInv, Close PROVE SessionInv'
<1> USE DEF SessionInv
<1>1. /\ processor.pc = "exited" /\ pipes.out = <<>> /\ pipes.err = <<>> /\ child.running
      /\ child' = [running |-> FALSE, answer |-> FALSE, ends |-> TRUE]
      /\ UNCHANGED <<processor, pipes, onDisk, summary, prep>>
  BY DEF Close
<1>2. ProcessorTyped' /\ SessionTyped' BY <1>1 DEF ProcessorTyped, SessionTyped
<1>3. OnePreparation' BY <1>1 DEF OnePreparation
<1>4. SummaryKnown' /\ Prompted' BY <1>1 DEF SummaryKnown, ResultIsOfThisPass, Prompted
<1>5. TodoKnown' BY <1>1 DEF TodoKnown
<1>6. LinesKnown' BY <1>1 DEF LinesKnown, About, Over, Name
<1> QED BY <1>2, <1>3, <1>4, <1>5, <1>6

\* What Finish makes of the session.
LEMMA FinishIs ==
  ASSUME SessionInv, Finish
  PROVE  /\ DOMAIN prep' = DOMAIN prep /\ prep'.gen = prep.gen /\ prep'.status = "finished"
         /\ prep'.progress = prep.progress /\ prep'.passwordFor = None
         /\ prep'.result = [success |-> processor.code = 0, failed |-> SummaryOfThisRun]
         /\ prep'.from = prep.from /\ prep'.to = prep.to /\ prep'.soon = FALSE
         /\ sent' = Append(sent, StateMessage(prep'))
<1> DEFINE result == [success |-> processor.code = 0, failed |-> SummaryOfThisRun]
           over == [[prep EXCEPT !.status = "finished", !.result = result] EXCEPT !.passwordFor = None]
<1>1. prep' = [over EXCEPT !.soon = FALSE] /\ sent' = Append(sent, StateMessage(over)) BY DEF Finish, Now, NobodyAsks
<1> HIDE DEF result
<1>2. /\ DOMAIN prep' = DOMAIN prep /\ prep'.gen = prep.gen /\ prep'.status = "finished"
      /\ prep'.progress = prep.progress /\ prep'.passwordFor = None /\ prep'.result = result
      /\ prep'.from = prep.from /\ prep'.to = prep.to /\ prep'.soon = FALSE
      /\ over.gen = prep.gen /\ over.status = "finished" /\ over.progress = prep.progress /\ over.passwordFor = None
      /\ over.result = result
  BY <1>1 DEF SessionInv, SessionTyped
<1>3. StateMessage(prep') = StateMessage(over) BY <1>2 DEF StateMessage, State
<1> QED BY <1>1, <1>2, <1>3 DEF result

LEMMA FinishKeeps == ASSUME SessionInv, Finish PROVE SessionInv'
<1> USE DEF SessionInv
<1>1. /\ DOMAIN prep' = DOMAIN prep /\ prep'.gen = prep.gen /\ prep'.status = "finished"
      /\ prep'.progress = prep.progress /\ prep'.passwordFor = None
      /\ prep'.result = [success |-> processor.code = 0, failed |-> SummaryOfThisRun]
      /\ prep'.from = prep.from /\ prep'.to = prep.to /\ prep'.soon = FALSE
  BY FinishIs
<1>2. /\ child.ends /\ child' = [child EXCEPT !.ends = FALSE] /\ UNCHANGED <<processor, pipes, onDisk, summary>>
  BY DEF Finish
<1>3. /\ ~child.running /\ processor.pc = "exited" /\ prep.gen > 0 BY <1>2 DEF OnePreparation, SessionTyped
<1>4. SummaryOfThisRun \in {None} \cup SUBSET Names
      /\ (SummaryOfThisRun # None => processor.done /\ SummaryOfThisRun = processor.failed)
  BY <1>3 DEF SummaryOfThisRun, SummaryKnown, ProcessorTyped
<1>5. prep'.result \in Results /\ prep'.result.failed = SummaryOfThisRun BY <1>1, <1>4 DEF Results
<1>6. ProcessorTyped' BY <1>2 DEF ProcessorTyped
<1>7. SessionTyped' BY <1>1, <1>2, <1>5 DEF SessionTyped
<1>8. OnePreparation' BY <1>1, <1>2, <1>3 DEF OnePreparation, SessionTyped
<1>9. SummaryKnown' BY <1>1, <1>2, <1>4, <1>5 DEF SummaryKnown, ResultIsOfThisPass
<1>10. Prompted' BY <1>1, <1>2, <1>3 DEF Prompted
<1>11. TodoKnown' BY <1>1, <1>2 DEF TodoKnown
<1>12. LinesKnown' BY <1>1, <1>2 DEF LinesKnown, About, Over, Name
<1> QED BY <1>6, <1>7, <1>8, <1>9, <1>10, <1>11, <1>12

\* What a password makes of the session.
LEMMA PasswordIs ==
  ASSUME SessionInv, SubmitPassword
  PROVE  /\ DOMAIN prep' = DOMAIN prep /\ prep'.gen = prep.gen /\ prep'.status = prep.status
         /\ prep'.progress = prep.progress /\ prep'.passwordFor = None /\ prep'.result = prep.result
         /\ prep'.from = prep.from /\ prep'.to = prep.to /\ prep'.soon = FALSE
         /\ sent' = Append(sent, StateMessage(prep'))
<1> DEFINE told == [prep EXCEPT !.passwordFor = None]
<1>1. prep' = [told EXCEPT !.soon = FALSE] /\ sent' = Append(sent, StateMessage(told)) BY DEF SubmitPassword, Now
<1>2. /\ DOMAIN prep' = DOMAIN prep /\ prep'.gen = prep.gen /\ prep'.status = prep.status
      /\ prep'.progress = prep.progress /\ prep'.passwordFor = None /\ prep'.result = prep.result
      /\ prep'.from = prep.from /\ prep'.to = prep.to /\ prep'.soon = FALSE
      /\ told.gen = prep.gen /\ told.status = prep.status /\ told.progress = prep.progress /\ told.passwordFor = None
      /\ told.result = prep.result
  BY <1>1 DEF SessionInv, SessionTyped
<1>3. StateMessage(prep') = StateMessage(told) BY <1>2 DEF StateMessage, State
<1> QED BY <1>1, <1>2, <1>3

LEMMA PasswordKeeps == ASSUME SessionInv, SubmitPassword PROVE SessionInv'
<1> USE DEF SessionInv
<1>1. /\ DOMAIN prep' = DOMAIN prep /\ prep'.gen = prep.gen /\ prep'.status = prep.status
      /\ prep'.progress = prep.progress /\ prep'.passwordFor = None /\ prep'.result = prep.result
      /\ prep'.from = prep.from /\ prep'.to = prep.to /\ prep'.soon = FALSE
  BY PasswordIs
<1>2. /\ child.running /\ child' = [child EXCEPT !.answer = FALSE] /\ UNCHANGED <<pipes, onDisk, summary>>
      /\ processor' = IF processor.pc = "waits" THEN [processor EXCEPT !.pc = "decrypting"] ELSE processor
  BY DEF SubmitPassword, Becomes
<1>3. processor \in Processors BY DEF ProcessorTyped
<1>4. /\ processor' \in Processors /\ processor'.gen = processor.gen /\ processor'.todo = processor.todo
      /\ processor'.done = processor.done /\ processor'.failed = processor.failed /\ processor'.attempt = processor.attempt
      /\ processor'.pc = IF processor.pc = "waits" THEN "decrypting" ELSE processor.pc
  BY <1>2, <1>3 DEF Processors, ProcessorPlaces, AtBackup
<1>5. ProcessorTyped' BY <1>2, <1>4 DEF ProcessorTyped
<1>6. SessionTyped' BY <1>1, <1>2 DEF SessionTyped
<1>7. OnePreparation' BY <1>1, <1>2, <1>4 DEF OnePreparation, SessionTyped
<1>8. SummaryKnown'
  <2>1. processor'.done => processor'.pc = "exited" BY <1>4 DEF SummaryKnown
  <2>2. prep'.status = "running" BY <1>1, <1>2 DEF OnePreparation
  <2> QED BY <1>1, <1>2, <1>4, <2>1, <2>2 DEF SummaryKnown
<1>9. Prompted' BY <1>1, <1>2, <1>4 DEF Prompted
<1>10. TodoKnown' BY <1>1, <1>4 DEF TodoKnown, AtBackup
<1>11. LinesKnown'
  <2>1. \A i, l : About(i, l)' = About(i, l) BY <1>1, <1>2 DEF About
  <2>2. \A l : Over(l)' = Over(l) BY <1>2, <1>4 DEF Over
  <2>3. Name' = Name /\ Names' = Names /\ (processor'.pc \in AtBackup <=> processor.pc \in AtBackup)
    BY <1>4 DEF Name, Names, AtBackup
  <2> QED BY <1>1, <1>2, <2>1, <2>2, <2>3 DEF LinesKnown, Ending
<1> QED BY <1>5, <1>6, <1>7, <1>8, <1>9, <1>10, <1>11

\* The first backups are backups, each once.
LEMMA LabelsAre ==
  ASSUME NEW n \in 1 .. Len(Labels)
  PROVE  LET todo == SubSeq(Labels, 1, n) IN
         /\ todo \in Seq(Names) /\ todo # <<>> /\ Elems(todo) \subseteq Names
         /\ \A i, j \in 1 .. Len(todo) : todo[i] = todo[j] => i = j
<1> DEFINE todo == SubSeq(Labels, 1, n)
<1>1. Labels \in Seq(Names) /\ Len(Labels) \in Nat BY PreparationAssumption, LenProperties DEF Names
<1>2. /\ todo \in Seq(Names) /\ Len(todo) = n /\ \A i \in 1 .. n : todo[i] = Labels[i]
  BY <1>1, SubSeqProperties
<1>3. DOMAIN Labels = 1 .. Len(Labels) BY <1>1, LenProperties
<1>4. \A i, j \in 1 .. Len(Labels) : Labels[i] = Labels[j] => i = j BY <1>3, PreparationAssumption
<1>5. \A i \in 1 .. n : i \in 1 .. Len(Labels) BY <1>1
<1>6. \A i, j \in 1 .. Len(todo) : todo[i] = todo[j] => i = j BY <1>2, <1>4, <1>5
<1>7. Elems(todo) \subseteq Names
  <2> HIDE DEF todo
  <2> QED BY <1>2, ElemsAre
<1>8. todo # <<>>
  <2> HIDE DEF todo
  <2> QED BY <1>2
<1> QED BY <1>2, <1>6, <1>7, <1>8

\* What StartPipeline makes of the session.
LEMMA StartIs ==
  ASSUME NEW n \in 1 .. Len(Labels), StartPipeline(n)
  PROVE  LET todo == SubSeq(Labels, 1, n) IN
         /\ DOMAIN prep' = {"gen", "status", "progress", "passwordFor", "result", "from", "to", "soon"}
         /\ prep'.gen = prep.gen + 1 /\ prep'.status = "running" /\ prep'.progress = InitProgress(Elems(todo))
         /\ prep'.passwordFor = None /\ prep'.result = None /\ prep'.from = prep.to + 1 /\ prep'.to = prep.to
         /\ prep'.soon = FALSE /\ sent' = Append(sent, StateMessage(prep'))
         /\ processor' = [gen |-> prep.gen + 1, pc |-> "start", todo |-> todo, ran |-> FALSE, attempt |-> 0, deaf |-> FALSE,
                          failed |-> {}, code |-> 0, done |-> FALSE]
         /\ child' = [running |-> TRUE, answer |-> FALSE, ends |-> child.ends] /\ UNCHANGED <<pipes, onDisk, summary>>
         /\ page' = [page EXCEPT !.starting = prep.gen + 1]
         /\ page.loaded /\ page.state.status # "running" /\ page.state.gen >= page.starting /\ ~child.running
<1> DEFINE todo == SubSeq(Labels, 1, n)
           started == [Idle EXCEPT !.gen = prep.gen + 1, !.status = "running", !.progress = InitProgress(Elems(todo)),
                                   !.from = prep.to + 1, !.to = prep.to]
<1>1. prep' = [started EXCEPT !.soon = FALSE] /\ sent' = Append(sent, StateMessage(started)) BY DEF StartPipeline, Now
<1> HIDE DEF todo
<1>2. started = [gen |-> prep.gen + 1, status |-> "running", progress |-> InitProgress(Elems(todo)), passwordFor |-> None,
                 result |-> None, from |-> prep.to + 1, to |-> prep.to, soon |-> FALSE]
  <2> DEFINE progress == InitProgress(Elems(todo))
             none == InitProgress({})
  <2>1. Idle = [gen |-> 0, status |-> "idle", progress |-> none, passwordFor |-> None, result |-> None,
                from |-> 1, to |-> 0, soon |-> FALSE]
    BY DEF Idle
  <2>2. started = [Idle EXCEPT !.gen = prep.gen + 1, !.status = "running", !.progress = progress,
                               !.from = prep.to + 1, !.to = prep.to]
    OBVIOUS
  <2> HIDE DEF progress, none, started
  <2>3. started = [gen |-> prep.gen + 1, status |-> "running", progress |-> progress, passwordFor |-> None,
                   result |-> None, from |-> prep.to + 1, to |-> prep.to, soon |-> FALSE]
    BY <2>1, <2>2
  <2> QED BY <2>3 DEF progress
<1>3. prep' = started BY <1>1, <1>2
<1>4. processor' = [gen |-> prep.gen + 1, pc |-> "start", todo |-> todo, ran |-> FALSE, attempt |-> 0, deaf |-> FALSE,
                    failed |-> {}, code |-> 0, done |-> FALSE]
  BY DEF StartPipeline, NoProcessor, todo
<1> HIDE DEF started
<1>5. StateMessage(prep') = StateMessage(started) BY <1>3
<1> QED BY <1>1, <1>2, <1>3, <1>4, <1>5 DEF StartPipeline, todo

\* A queued backup is one.
LEMMA QueuedIs ==
  ASSUME NEW labels
  PROVE  LET progress == InitProgress(labels) IN
         /\ DOMAIN progress = {"current", "by"} /\ progress.current = None /\ DOMAIN progress.by = labels
         /\ progress.by \in [labels -> Backup] /\ \A l \in labels : progress.by[l].overall = "queued"
BY DEF InitProgress, Queued, Backup

\* Nothing runs any more when a preparation starts.
LEMMA StartKeeps ==
  ASSUME SessionInv, prep.status # "running", NEW n \in 1 .. Len(Labels), StartPipeline(n)
  PROVE  SessionInv'
<1> USE DEF SessionInv
<1> DEFINE todo == SubSeq(Labels, 1, n)
<1>1. /\ DOMAIN prep' = {"gen", "status", "progress", "passwordFor", "result", "from", "to", "soon"}
      /\ prep'.gen = prep.gen + 1 /\ prep'.status = "running" /\ prep'.progress = InitProgress(Elems(todo))
      /\ prep'.passwordFor = None /\ prep'.result = None /\ prep'.from = prep.to + 1 /\ prep'.to = prep.to
      /\ prep'.soon = FALSE
      /\ processor' = [gen |-> prep.gen + 1, pc |-> "start", todo |-> todo, ran |-> FALSE, attempt |-> 0, deaf |-> FALSE,
                       failed |-> {}, code |-> 0, done |-> FALSE]
      /\ child' = [running |-> TRUE, answer |-> FALSE, ends |-> child.ends] /\ UNCHANGED <<pipes, onDisk, summary>>
  BY StartIs
<1>2. /\ todo \in Seq(Names) /\ todo # <<>> /\ Elems(todo) \subseteq Names
      /\ \A i, j \in 1 .. Len(todo) : todo[i] = todo[j] => i = j
  BY LabelsAre
<1> HIDE DEF todo
<1>3. /\ DOMAIN prep'.progress = {"current", "by"} /\ prep'.progress.current = None /\ DOMAIN prep'.progress.by = Elems(todo)
      /\ prep'.progress.by \in [Elems(todo) -> Backup] /\ \A l \in Elems(todo) : prep'.progress.by[l].overall = "queued"
  BY <1>1, QueuedIs
<1>4. ~child.ends /\ pipes.out = <<>> /\ pipes.err = <<>> /\ prep.gen \in Nat /\ ~child.running
  BY DEF OnePreparation, SessionTyped, StartPipeline
<1>5. 0 \in 0 .. MaxAttempts BY PreparationAssumption
<1>6. processor' \in Processors BY <1>1, <1>2, <1>4, <1>5 DEF Processors, ProcessorPlaces
<1>7. ProcessorTyped' BY <1>1, <1>6 DEF ProcessorTyped
<1>8. SessionTyped'
  <2>1. prep'.gen \in Nat /\ prep'.from \in Nat \ {0} /\ prep'.to \in Nat /\ prep'.from <= prep'.to + 1
    BY <1>1 DEF SessionTyped
  <2>2. child' \in [running : BOOLEAN, answer : BOOLEAN, ends : BOOLEAN] BY <1>1 DEF SessionTyped
  <2>3. /\ prep'.status \in {"idle", "running", "finished"} /\ prep'.passwordFor \in Names \cup {None}
        /\ prep'.result \in {None} \cup Results /\ prep'.soon \in BOOLEAN
    BY <1>1
  <2>4. /\ DOMAIN prep'.progress.by \subseteq Names /\ prep'.progress.by \in [DOMAIN prep'.progress.by -> Backup]
        /\ prep'.progress.current \in DOMAIN prep'.progress.by \cup {None}
    BY <1>2, <1>3
  <2> QED BY <1>1, <1>3, <2>1, <2>2, <2>3, <2>4 DEF SessionTyped
<1>9. OnePreparation' BY <1>1, <1>4 DEF OnePreparation
<1>10. SummaryKnown' BY <1>1, <1>4 DEF SummaryKnown, ProcessorTyped
<1>11. Prompted' BY <1>1 DEF Prompted
<1>12. TodoKnown' BY <1>1, <1>2, <1>3 DEF TodoKnown
<1>13. LinesKnown' BY <1>1, <1>3, <1>4 DEF LinesKnown, AtBackup
<1> QED BY <1>7, <1>8, <1>9, <1>10, <1>11, <1>12, <1>13

\* What a line read makes of the session.
LEMMA ReadIs ==
  ASSUME SessionInv, NEW pipe \in {"out", "err"}, ReadLine(pipe)
  PROVE  LET line == Head(pipes[pipe]) IN
         /\ line \in Lines /\ pipes[pipe] # <<>> /\ pipes' = [pipes EXCEPT ![pipe] = Tail(@)]
         /\ DOMAIN prep' = DOMAIN prep /\ prep'.gen = prep.gen /\ prep'.status = prep.status
         /\ prep'.progress = ApplyLine(prep.progress, line) /\ prep'.result = prep.result
         /\ prep'.from = prep.from /\ prep'.to = prep.to + 1
         /\ prep'.passwordFor = (IF line.is = "prompt" THEN line.label ELSE prep.passwordFor)
         /\ prep'.soon = (line.is # "prompt") /\ UNCHANGED <<processor, onDisk, summary, page>>
         /\ child' = IF line.is = "prompt" THEN [child EXCEPT !.answer = TRUE] ELSE child
         /\ sent' = IF line.is = "prompt"
                    THEN Append(Append(sent, [is |-> "line", seq |-> prep'.to]), StateMessage(prep'))
                    ELSE Append(sent, [is |-> "line", seq |-> prep'.to])
<1> DEFINE line == Head(pipes[pipe])
           next == ApplyLine(prep.progress, line)
           p == [prep EXCEPT !.to = prep.to + 1, !.progress = next]
           asked == [p EXCEPT !.passwordFor = line.label]
<1>1. line \in Lines /\ pipes[pipe] # <<>> /\ pipes' = [pipes EXCEPT ![pipe] = Tail(@)]
  BY HeadTailProperties DEF ReadLine, SessionInv, ProcessorTyped
<1>2. WithLine(line) = p BY DEF WithLine
<1>3. \/ /\ line.is # "prompt" /\ prep' = [p EXCEPT !.soon = TRUE] /\ sent' = Append(sent, LineMessage(p)) /\ child' = child
      \/ /\ line.is = "prompt" /\ child' = [child EXCEPT !.answer = TRUE] /\ prep' = [asked EXCEPT !.soon = FALSE]
         /\ sent' = sent \o <<LineMessage(p), StateMessage(asked)>>
  BY <1>2 DEF ReadLine
<1> HIDE DEF line, next
<1>4. /\ p.gen = prep.gen /\ p.status = prep.status /\ p.progress = next /\ p.passwordFor = prep.passwordFor
      /\ p.result = prep.result /\ p.to = prep.to + 1 /\ p.from = prep.from
  BY DEF SessionInv, SessionTyped
<1>5. LineMessage(p) = [is |-> "line", seq |-> prep.to + 1] BY <1>4 DEF LineMessage
<1>6. CASE line.is # "prompt"
  <2>1. prep' = [p EXCEPT !.soon = TRUE] /\ sent' = Append(sent, LineMessage(p)) /\ child' = child BY <1>3, <1>6
  <2>2. /\ DOMAIN prep' = DOMAIN prep /\ prep'.gen = prep.gen /\ prep'.status = prep.status
        /\ prep'.progress = next /\ prep'.result = prep.result /\ prep'.from = prep.from /\ prep'.to = prep.to + 1
        /\ prep'.passwordFor = prep.passwordFor /\ prep'.soon = TRUE
    BY <2>1 DEF SessionInv, SessionTyped
  <2> QED BY <1>1, <1>5, <1>6, <2>1, <2>2 DEF ReadLine, line, next
<1>7. CASE line.is = "prompt"
  <2>1. child' = [child EXCEPT !.answer = TRUE] /\ prep' = [asked EXCEPT !.soon = FALSE]
        /\ sent' = sent \o <<LineMessage(p), StateMessage(asked)>>
    BY <1>3, <1>7
  <2>2. /\ DOMAIN prep' = DOMAIN prep /\ prep'.gen = prep.gen /\ prep'.status = prep.status
        /\ prep'.progress = next /\ prep'.result = prep.result /\ prep'.from = prep.from /\ prep'.to = prep.to + 1
        /\ prep'.passwordFor = line.label /\ prep'.soon = FALSE
        /\ asked.gen = prep.gen /\ asked.status = prep.status /\ asked.progress = next /\ asked.result = prep.result
        /\ asked.passwordFor = line.label
    BY <2>1 DEF SessionInv, SessionTyped
  <2>3. StateMessage(asked) = StateMessage(prep') BY <2>2 DEF StateMessage, State
  <2>4. ASSUME NEW S, NEW s \in Seq(S), NEW x, NEW y PROVE s \o <<x, y>> = Append(Append(s, x), y)
    OBVIOUS
  <2>5. sent \o <<LineMessage(p), StateMessage(asked)>> = Append(Append(sent, LineMessage(p)), StateMessage(asked))
    BY <2>4
  <2> QED BY <1>1, <1>5, <1>7, <2>1, <2>2, <2>3, <2>5 DEF ReadLine, line, next
<1> QED BY <1>6, <1>7

\* And of its progress.
LEMMA ReadProgress ==
  ASSUME SessionInv, NEW pipe \in {"out", "err"}, ReadLine(pipe)
  PROVE  LET line == Head(pipes[pipe]) IN
         /\ DOMAIN prep'.progress = {"current", "by"} /\ DOMAIN prep'.progress.by = DOMAIN prep.progress.by
         /\ prep'.progress.by \in [DOMAIN prep.progress.by -> Backup]
         /\ prep'.progress.current = (IF line.is = "start" /\ line.label \in DOMAIN prep.progress.by THEN line.label
                                      ELSE prep.progress.current)
         /\ \A l \in DOMAIN prep.progress.by :
              prep'.progress.by[l].overall = "done" =>
                prep.progress.by[l].overall = "done" \/ (Ending(line) /\ l = prep.progress.current)
<1> DEFINE line == Head(pipes[pipe])
<1>1. line \in Lines /\ prep'.progress = ApplyLine(prep.progress, line) BY ReadIs
<1>2. SessionTyped BY DEF SessionInv
<1> HIDE DEF line
<1>3. LET progress == prep.progress
          q == ApplyLine(progress, line)
      IN
      /\ DOMAIN q = {"current", "by"} /\ DOMAIN q.by = DOMAIN progress.by
      /\ q.by \in [DOMAIN progress.by -> Backup]
      /\ q.current = (IF line.is = "start" /\ line.label \in DOMAIN progress.by THEN line.label ELSE progress.current)
      /\ \A l \in DOMAIN progress.by :
           q.by[l].overall = "done" =>
             progress.by[l].overall = "done" \/ (Ending(line) /\ l = progress.current)
  BY <1>1, <1>2, ApplyLineIs
<1> QED BY <1>1, <1>3 DEF line

\* A line is read while the preparation runs, and leaves it typed.
LEMMA ReadTypes ==
  ASSUME SessionInv, NEW pipe \in {"out", "err"}, ReadLine(pipe)
  PROVE  ProcessorTyped' /\ SessionTyped' /\ OnePreparation' /\ SummaryKnown' /\ TodoKnown' /\ prep.status = "running"
<1> USE DEF SessionInv
<1> DEFINE line == Head(pipes[pipe])
<1>1. /\ line \in Lines /\ pipes[pipe] # <<>> /\ pipes' = [pipes EXCEPT ![pipe] = Tail(@)]
      /\ DOMAIN prep' = DOMAIN prep /\ prep'.gen = prep.gen /\ prep'.status = prep.status
      /\ prep'.result = prep.result /\ prep'.from = prep.from /\ prep'.to = prep.to + 1
      /\ prep'.passwordFor = (IF line.is = "prompt" THEN line.label ELSE prep.passwordFor)
      /\ prep'.soon = (line.is # "prompt") /\ UNCHANGED <<processor, onDisk, summary, page>>
      /\ child' = IF line.is = "prompt" THEN [child EXCEPT !.answer = TRUE] ELSE child
  BY ReadIs
<1>2. /\ DOMAIN prep'.progress = {"current", "by"} /\ DOMAIN prep'.progress.by = DOMAIN prep.progress.by
      /\ prep'.progress.by \in [DOMAIN prep.progress.by -> Backup]
      /\ prep'.progress.current = (IF line.is = "start" /\ line.label \in DOMAIN prep.progress.by THEN line.label
                                   ELSE prep.progress.current)
  BY ReadProgress
<1>3. Tail(pipes[pipe]) \in Seq(Lines) BY <1>1, HeadTailProperties DEF ProcessorTyped
<1> HIDE DEF line
<1>4. ProcessorTyped' BY <1>1, <1>3 DEF ProcessorTyped
<1>5. SessionTyped'
  <2>1. prep'.to \in Nat /\ prep'.from <= prep'.to + 1 BY <1>1 DEF SessionTyped
  <2>2. prep'.passwordFor \in Names \cup {None} BY <1>1 DEF SessionTyped, Lines
  <2>3. prep'.progress.current \in DOMAIN prep'.progress.by \cup {None} BY <1>2 DEF SessionTyped
  <2>4. child' \in [running : BOOLEAN, answer : BOOLEAN, ends : BOOLEAN] BY <1>1 DEF SessionTyped
  <2>5. prep'.soon \in BOOLEAN BY <1>1
  <2> QED BY <1>1, <1>2, <2>1, <2>2, <2>3, <2>4, <2>5 DEF SessionTyped
<1>6. child.running /\ prep.status = "running" BY <1>1 DEF OnePreparation
<1>7. OnePreparation' BY <1>1, <1>6 DEF OnePreparation, SessionTyped
<1>8. SummaryKnown' BY <1>1, <1>6 DEF SummaryKnown
<1>9. TodoKnown' BY <1>1, <1>2 DEF TodoKnown
<1> QED BY <1>4, <1>5, <1>6, <1>7, <1>8, <1>9

\* Read from the front, the lines left are about the same backups.
LEMMA ReadOutKeeps == ASSUME SessionInv, ReadLine("out") PROVE SessionInv'
<1> DEFINE line == Head(pipes.out)
           n == Len(pipes.out)
           by == prep.progress.by
<1>1. /\ line \in Lines /\ pipes.out # <<>> /\ pipes' = [pipes EXCEPT !["out"] = Tail(@)]
      /\ prep'.status = prep.status
      /\ prep'.passwordFor = (IF line.is = "prompt" THEN line.label ELSE prep.passwordFor)
      /\ UNCHANGED <<processor, onDisk, summary, page>>
      /\ child' = IF line.is = "prompt" THEN [child EXCEPT !.answer = TRUE] ELSE child
  BY ReadIs
<1>2. /\ DOMAIN prep'.progress.by = DOMAIN by
      /\ prep'.progress.current = (IF line.is = "start" /\ line.label \in DOMAIN by THEN line.label ELSE prep.progress.current)
      /\ \A l \in DOMAIN by : prep'.progress.by[l].overall = "done" =>
            by[l].overall = "done" \/ (Ending(line) /\ l = prep.progress.current)
  BY ReadProgress
<1>3. ProcessorTyped' /\ SessionTyped' /\ OnePreparation' /\ SummaryKnown' /\ TodoKnown' /\ prep.status = "running"
  BY ReadTypes
<1>4. /\ n \in Nat /\ n # 0 /\ pipes.out[1] = line /\ pipes'.out = Tail(pipes.out) /\ pipes'.err = pipes.err
      /\ Len(pipes'.out) = n - 1 /\ \A i \in 1 .. n - 1 : pipes'.out[i] = pipes.out[i + 1]
  <2>1. pipes \in [out : Seq(Lines), err : Seq(Lines)] BY DEF SessionInv, ProcessorTyped
  <2>2. n \in Nat /\ n # 0 BY <1>1, <2>1, LenProperties, EmptySeq
  <2>3. /\ Len(Tail(pipes.out)) = n - 1 /\ \A i \in 1 .. n - 1 : Tail(pipes.out)[i] = pipes.out[i + 1]
        /\ line = pipes.out[1]
    BY <1>1, <2>1, HeadTailProperties
  <2> QED BY <1>1, <2>1, <2>2, <2>3
<1>S. \A i \in 1 .. n : pipes.out[i].is \in {"start", "prompt"} => pipes.out[i].label \in DOMAIN by
  BY DEF SessionInv, LinesKnown
<1>L. line.is \in {"start", "prompt"} => line.label \in DOMAIN by
  <2>1. 1 \in 1 .. n BY <1>4
  <2> QED BY <1>4, <1>S, <2>1
<1> HIDE DEF line, n, by
<1>5. ASSUME NEW i \in 1 .. n, NEW l, About(i, l)' PROVE About(i + 1, l)
  <2>1. \A k \in 1 .. i - 1 : k \in 1 .. n - 1 /\ pipes'.out[k] = pipes.out[k + 1] BY <1>4
  <2>2. CASE \E j \in 1 .. i - 1 : /\ pipes'.out[j].is = "start" /\ pipes'.out[j].label = l
                                   /\ \A k \in j + 1 .. i - 1 : pipes'.out[k].is # "start"
    <3>1. PICK j \in 1 .. i - 1 : /\ pipes'.out[j].is = "start" /\ pipes'.out[j].label = l
                                  /\ \A k \in j + 1 .. i - 1 : pipes'.out[k].is # "start"
      BY <2>2
    <3>2. j + 1 \in 1 .. (i + 1) - 1 /\ pipes.out[j + 1].is = "start" /\ pipes.out[j + 1].label = l BY <1>4, <2>1, <3>1
    <3>3. ASSUME NEW k \in (j + 1) + 1 .. (i + 1) - 1 PROVE pipes.out[k].is # "start"
      <4>1. k - 1 \in j + 1 .. i - 1 /\ k - 1 \in 1 .. i - 1 /\ (k - 1) + 1 = k BY <1>4, <3>1
      <4> QED BY <2>1, <3>1, <4>1
    <3> QED BY <3>2, <3>3 DEF About
  <2>3. CASE l = prep'.progress.current /\ \A k \in 1 .. i - 1 : pipes'.out[k].is # "start"
    <3>1. ASSUME NEW k \in 2 .. (i + 1) - 1 PROVE pipes.out[k].is # "start"
      <4>1. k - 1 \in 1 .. i - 1 /\ (k - 1) + 1 = k BY <1>4
      <4> QED BY <2>1, <2>3, <4>1
    <3>2. CASE line.is = "start"
      <4>1. l = line.label BY <1>2, <1>L, <2>3, <3>2
      <4>2. 1 \in 1 .. (i + 1) - 1 /\ pipes.out[1].is = "start" /\ pipes.out[1].label = l /\ 1 + 1 = 2 BY <1>4, <3>2, <4>1
      <4>3. \A k \in 1 + 1 .. (i + 1) - 1 : pipes.out[k].is # "start" BY <3>1
      <4> QED BY <4>2, <4>3 DEF About
    <3>3. CASE line.is # "start"
      <4>1. l = prep.progress.current BY <1>2, <2>3, <3>3
      <4>2. \A k \in 1 .. (i + 1) - 1 : k = 1 \/ k \in 2 .. (i + 1) - 1 BY <1>4
      <4>3. \A k \in 1 .. (i + 1) - 1 : pipes.out[k].is # "start" BY <1>4, <3>1, <3>3, <4>2
      <4> QED BY <4>1, <4>3 DEF About
    <3> QED BY <3>2, <3>3
  <2> QED BY <1>5, <2>2, <2>3 DEF About
<1>6. \A l : Over(l)' = Over(l) BY <1>1 DEF Over
<1>7. Name' = Name /\ Names' = Names BY <1>1 DEF Name, Names
<1>8. LinesKnown'
  <2>1. \A i \in 1 .. n - 1 : i \in 1 .. n /\ i + 1 \in 1 .. n BY <1>4
  <2>2. \A i \in 1 .. n - 1 : pipes'.out[i].is \in {"start", "prompt"} => pipes'.out[i].label \in DOMAIN prep'.progress.by
    BY <1>2, <1>4, <1>S, <2>1
  <2>3. ASSUME NEW i \in 1 .. n - 1, NEW l \in Names, Ending(pipes'.out[i]), About(i, l)' PROVE Over(l)'
    <3>1. About(i + 1, l) /\ i + 1 \in 1 .. n /\ Ending(pipes.out[i + 1]) BY <1>4, <1>5, <2>1, <2>3
    <3>2. Over(l) BY <3>1 DEF SessionInv, LinesKnown, n
    <3> QED BY <1>6, <3>2
  <2>4. ASSUME NEW l \in Names, processor'.pc \in AtBackup, About(Len(pipes.out) + 1, l)' PROVE l = Name'
    <3>1. PICK end \in Nat : end = n BY <1>4
    <3>2. Len(pipes'.out) + 1 = end /\ end \in 1 .. n BY <1>4, <3>1
    <3>3. About(end, l)' BY <2>4, <3>2 DEF About
    <3>4. About(n + 1, l) BY <1>5, <3>1, <3>2, <3>3
    <3> QED BY <1>1, <1>7, <2>4, <3>4 DEF SessionInv, LinesKnown, n
  <2>5. ASSUME NEW l \in DOMAIN by, prep'.progress.by[l].overall = "done" PROVE Over(l)'
    <3>1. CASE by[l].overall = "done"
      <4>1. Over(l) BY <3>1 DEF SessionInv, LinesKnown, by
      <4> QED BY <1>6, <4>1
    <3>2. CASE Ending(line) /\ l = prep.progress.current
      <4>1. About(1, l) BY <3>2 DEF About
      <4>2. 1 \in 1 .. n /\ Ending(pipes.out[1]) BY <1>4, <3>2
      <4>3. l \in Names BY DEF SessionInv, SessionTyped, by
      <4>4. Over(l) BY <4>1, <4>2, <4>3 DEF SessionInv, LinesKnown, n
      <4> QED BY <1>6, <4>4
    <3> QED BY <1>2, <2>5, <3>1, <3>2
  <2>6. \A i \in 1 .. Len(pipes'.err) : pipes'.err[i].is \in {"error", "other"} BY <1>4 DEF SessionInv, LinesKnown
  <2> QED BY <1>2, <1>4, <1>7, <2>2, <2>3, <2>4, <2>5, <2>6 DEF LinesKnown, Ending
<1>9. Prompted'
  <2>1. ASSUME processor.pc = "waits", pipes'.out = <<>> PROVE prep'.passwordFor = Name /\ child'.answer
    <3>1. n = 1
      <4>1. Len(pipes'.out) = 0 BY <2>1
      <4>2. Len(pipes'.out) = n - 1 /\ n \in Nat BY <1>4
      <4> QED BY <4>1, <4>2
    <3>2. line = Line("prompt", None, Name) BY <1>1, <1>4, <2>1, <3>1 DEF SessionInv, Prompted, n
    <3>3. line.is = "prompt" /\ line.label = Name BY <3>2 DEF Line
    <3> QED BY <1>1, <3>3 DEF SessionInv, SessionTyped
  <2>2. ASSUME processor.pc = "waits", pipes'.out # <<>> PROVE pipes'.out[Len(pipes'.out)] = Line("prompt", None, Name)
    <3>1. pipes.out[n] = Line("prompt", None, Name) BY <1>1, <2>2 DEF SessionInv, Prompted, n
    <3>2. pipes'.out \in Seq(Lines) BY <1>3 DEF ProcessorTyped
    <3>3. n - 1 # 0 BY <1>4, <2>2, <3>2, EmptySeq
    <3>4. n - 1 \in 1 .. n - 1 /\ (n - 1) + 1 = n BY <1>4, <3>3
    <3> QED BY <1>4, <3>1, <3>4
  <2>3. processor'.pc = "decrypt" => processor'.attempt < MaxAttempts BY <1>1 DEF SessionInv, Prompted
  <2> QED BY <1>1, <1>3, <1>7, <2>1, <2>2, <2>3 DEF Prompted
<1> QED BY <1>3, <1>8, <1>9 DEF SessionInv

\* stderr's lines start, end and ask nothing.
LEMMA ReadErrKeeps == ASSUME SessionInv, ReadLine("err") PROVE SessionInv'
<1> DEFINE line == Head(pipes.err)
           by == prep.progress.by
<1>1. /\ line \in Lines /\ pipes.err # <<>> /\ pipes' = [pipes EXCEPT !["err"] = Tail(@)]
      /\ prep'.status = prep.status
      /\ prep'.passwordFor = (IF line.is = "prompt" THEN line.label ELSE prep.passwordFor)
      /\ UNCHANGED <<processor, onDisk, summary, page>>
      /\ child' = IF line.is = "prompt" THEN [child EXCEPT !.answer = TRUE] ELSE child
  BY ReadIs
<1>2. /\ DOMAIN prep'.progress.by = DOMAIN by
      /\ prep'.progress.current = (IF line.is = "start" /\ line.label \in DOMAIN by THEN line.label ELSE prep.progress.current)
      /\ \A l \in DOMAIN by : prep'.progress.by[l].overall = "done" =>
            by[l].overall = "done" \/ (Ending(line) /\ l = prep.progress.current)
  BY ReadProgress
<1>3. ProcessorTyped' /\ SessionTyped' /\ OnePreparation' /\ SummaryKnown' /\ TodoKnown' /\ prep.status = "running"
  BY ReadTypes
<1>4. /\ line.is \in {"error", "other"} /\ pipes'.out = pipes.out
      /\ \A i \in 1 .. Len(pipes'.err) : pipes'.err[i].is \in {"error", "other"}
  <2>1. pipes \in [out : Seq(Lines), err : Seq(Lines)] BY DEF SessionInv, ProcessorTyped
  <2>2. Len(pipes.err) \in Nat /\ Len(pipes.err) # 0 BY <1>1, <2>1, LenProperties, EmptySeq
  <2>3. /\ Len(Tail(pipes.err)) = Len(pipes.err) - 1 /\ line = pipes.err[1]
        /\ \A i \in 1 .. Len(pipes.err) - 1 : Tail(pipes.err)[i] = pipes.err[i + 1]
    BY <1>1, <2>1, HeadTailProperties
  <2>4. pipes'.out = pipes.out /\ pipes'.err = Tail(pipes.err) BY <1>1, <2>1
  <2>5. 1 \in 1 .. Len(pipes.err) /\ \A i \in 1 .. Len(pipes.err) - 1 : i + 1 \in 1 .. Len(pipes.err) BY <2>2
  <2> HIDE DEF line
  <2> QED BY <2>3, <2>4, <2>5 DEF SessionInv, LinesKnown
<1> HIDE DEF line, by
<1>5. prep'.progress.current = prep.progress.current /\ prep'.passwordFor = prep.passwordFor /\ child' = child /\ ~Ending(line)
  BY <1>1, <1>2, <1>4 DEF Ending
<1>6. \A i, l : About(i, l)' = About(i, l) BY <1>4, <1>5 DEF About
<1>7. (\A l : Over(l)' = Over(l)) /\ Name' = Name /\ Names' = Names BY <1>1 DEF Over, Name, Names
<1>8. LinesKnown'
  <2>1. \A l \in DOMAIN prep'.progress.by : prep'.progress.by[l].overall = "done" => Over(l)'
    BY <1>2, <1>5, <1>7 DEF SessionInv, LinesKnown, by
  <2>2. \A i \in 1 .. Len(pipes'.out) : pipes'.out[i].is \in {"start", "prompt"} => pipes'.out[i].label \in DOMAIN prep'.progress.by
    BY <1>2, <1>4 DEF SessionInv, LinesKnown, by
  <2>3. \A i \in 1 .. Len(pipes'.out) : \A l \in Names : Ending(pipes'.out[i]) /\ About(i, l)' => Over(l)'
    BY <1>4, <1>6, <1>7 DEF SessionInv, LinesKnown
  <2>4. ASSUME NEW l \in Names, processor'.pc \in AtBackup, About(Len(pipes.out) + 1, l)' PROVE l = Name'
    <3>1. About(Len(pipes.out) + 1, l) BY <1>4, <1>5, <2>4 DEF About
    <3> QED BY <1>1, <1>7, <2>4, <3>1 DEF SessionInv, LinesKnown
  <2> QED BY <1>4, <1>7, <2>1, <2>2, <2>3, <2>4 DEF LinesKnown, Ending
<1>9. Prompted' BY <1>1, <1>4, <1>5, <1>7 DEF SessionInv, Prompted
<1> QED BY <1>3, <1>8, <1>9 DEF SessionInv

-------------------------------------------------------------------------------
(* Runs of numbers. *)

\* At least one line is kept.
LEMMA KeptIs == Kept \in Nat /\ 0 < Kept
<1>1. Kept \in Nat /\ Kept # 0 BY PreparationAssumption
<1> QED BY <1>1

\* No numbers.
LEMMA EmptyRun == ASSUME NEW a \in Int, NEW b \in Int, a = b + 1 PROVE IsRun(<<>>, a, b)
<1>1. <<>> \in Seq(Nat) /\ Len(<<>>) = 0 BY EmptySeq
<1> QED BY <1>1 DEF IsRun

\* A run is known by its ends.
LEMMA RunIsOne == ASSUME NEW s, NEW r, NEW a, NEW b, IsRun(s, a, b), IsRun(r, a, b) PROVE s = r
<1>1. s \in Seq(Nat) /\ r \in Seq(Nat) /\ Len(s) = Len(r) /\ \A i \in 1 .. Len(s) : s[i] = r[i] BY DEF IsRun
<1> QED BY <1>1, SeqEqual

\* The next number.
LEMMA RunGrows ==
  ASSUME NEW s, NEW a \in Nat, NEW b \in Int, b + 1 \in Nat, IsRun(s, a, b)
  PROVE  IsRun(Append(s, b + 1), a, b + 1)
<1>1. /\ Append(s, b + 1) \in Seq(Nat) /\ Len(Append(s, b + 1)) = Len(s) + 1 /\ Len(s) \in Nat
      /\ \A i \in 1 .. Len(s) : Append(s, b + 1)[i] = s[i]
      /\ Append(s, b + 1)[Len(s) + 1] = b + 1
  BY AppendProperties, LenProperties DEF IsRun
<1>2. \A i \in 1 .. Len(s) + 1 : i = Len(s) + 1 \/ i \in 1 .. Len(s) BY <1>1
<1> HIDE DEF IsRun
<1>3. Len(s) = b - a + 1 /\ \A i \in 1 .. Len(s) : s[i] = a + i - 1 BY DEF IsRun
<1>4. \A i \in 1 .. Len(Append(s, b + 1)) : Append(s, b + 1)[i] = a + i - 1 BY <1>1, <1>2, <1>3
<1>5. Len(Append(s, b + 1)) = (b + 1) - a + 1 BY <1>1, <1>3
<1> QED BY <1>1, <1>4, <1>5 DEF IsRun

\* Two runs, the second after the first.
LEMMA RunsJoin ==
  ASSUME NEW s, NEW r, NEW a \in Nat, NEW b \in Int, NEW c \in Int, IsRun(s, a, b), IsRun(r, b + 1, c)
  PROVE  IsRun(s \o r, a, c)
<1>1. /\ s \in Seq(Nat) /\ r \in Seq(Nat) /\ Len(s) = b - a + 1 /\ Len(r) = c - (b + 1) + 1
      /\ (\A i \in 1 .. Len(s) : s[i] = a + i - 1) /\ \A i \in 1 .. Len(r) : r[i] = (b + 1) + i - 1
  BY DEF IsRun
<1>2. Len(s) \in Nat /\ Len(r) \in Nat BY <1>1, LenProperties
<1>3. /\ s \o r \in Seq(Nat) /\ Len(s \o r) = Len(s) + Len(r)
      /\ \A i \in 1 .. Len(s) + Len(r) : (s \o r)[i] = IF i <= Len(s) THEN s[i] ELSE r[i - Len(s)]
  BY <1>1, ConcatProperties
<1>4. ASSUME NEW i \in 1 .. Len(s \o r) PROVE (s \o r)[i] = a + i - 1
  <2>1. CASE i <= Len(s)
    <3>1. i \in 1 .. Len(s) BY <1>2, <1>3, <2>1
    <3> QED BY <1>1, <1>3, <2>1, <3>1
  <2>2. CASE ~(i <= Len(s))
    <3>1. i - Len(s) \in 1 .. Len(r) BY <1>2, <1>3, <2>2
    <3>2. (s \o r)[i] = (b + 1) + (i - Len(s)) - 1 BY <1>1, <1>3, <2>2, <3>1
    <3> QED BY <1>1, <1>2, <3>2
  <2> QED BY <2>1, <2>2
<1>5. Len(s \o r) = c - a + 1 BY <1>1, <1>2, <1>3
<1> QED BY <1>3, <1>4, <1>5 DEF IsRun

\* The last Kept of a run that starts no later than the first one kept.
LEMMA RunKept ==
  ASSUME NEW s, NEW from \in Nat, NEW a \in Nat, NEW c \in Int, from <= a, a <= First(from, c), IsRun(s, a, c)
  PROVE  IsRun(LastOf(s, Kept), First(from, c), c) /\ Len(LastOf(s, Kept)) <= Kept
<1>K. Kept \in Nat /\ 0 < Kept BY KeptIs
<1>1. s \in Seq(Nat) /\ Len(s) = c - a + 1 /\ \A i \in 1 .. Len(s) : s[i] = a + i - 1 BY DEF IsRun
<1>2. Len(s) \in Nat BY <1>1, LenProperties
<1>3. CASE Len(s) > Kept
  <2> DEFINE m == Len(s) - Kept + 1
             r == SubSeq(s, m, Len(s))
  <2>1. LastOf(s, Kept) = r BY <1>3 DEF LastOf
  <2>2. m \in Int /\ Len(s) \in Int /\ m <= Len(s) /\ 1 <= m /\ \A i \in m .. Len(s) : i \in 1 .. Len(s) BY <1>2, <1>3, <1>K
  <2>3. \A i \in m .. Len(s) : s[i] \in Nat BY <1>1, <2>2, ElementOfSeq
  <2> HIDE DEF m
  <2>4. r \in Seq(Nat) /\ Len(r) = Len(s) - m + 1 /\ \A i \in 1 .. Len(s) - m + 1 : r[i] = s[m + i - 1]
    BY <2>2, <2>3, SubSeqProperties
  <2>5. First(from, c) = c - Kept + 1 BY <1>1, <1>3, <1>K DEF First
  <2>6. Len(r) = Kept BY <1>2, <2>4, <1>K DEF m
  <2>7. \A i \in 1 .. Len(r) : r[i] = First(from, c) + i - 1
    <3> SUFFICES ASSUME NEW i \in 1 .. Len(r) PROVE r[i] = First(from, c) + i - 1
      OBVIOUS
    <3>1. i \in 1 .. Len(s) - m + 1 /\ m + i - 1 \in 1 .. Len(s) BY <1>2, <2>2, <2>4
    <3>2. r[i] = a + (m + i - 1) - 1 BY <1>1, <2>4, <3>1
    <3> QED BY <1>1, <1>2, <1>K, <2>5, <3>2 DEF m
  <2>8. Len(r) = c - First(from, c) + 1 BY <1>K, <2>5, <2>6
  <2> HIDE DEF r
  <2> QED BY <2>1, <2>4, <2>6, <2>7, <2>8, <1>K DEF IsRun
<1>4. CASE ~(Len(s) > Kept)
  <2>1. LastOf(s, Kept) = SubSeq(s, 1, Len(s)) BY <1>4 DEF LastOf
  <2>2. LastOf(s, Kept) = s BY <1>1, <2>1, SubSeqFull
  <2>3. First(from, c) = a BY <1>1, <1>2, <1>4, <1>K DEF First
  <2> QED BY <1>2, <1>4, <1>K, <2>2, <2>3
<1> QED BY <1>3, <1>4

\* The first line kept moves on.
LEMMA FirstIs ==
  ASSUME NEW from \in Nat, NEW b \in Int, NEW c \in Int, b <= c, from <= b + 1
  PROVE  /\ First(from, b) \in Nat /\ from <= First(from, b) /\ First(from, b) <= First(from, c)
         /\ First(from, b) <= b + 1 /\ First(from, from - 1) = from
BY KeptIs DEF First

\* The session's log.
LEMMA LogIs ==
  ASSUME SessionInv
  PROVE  IsRun(Log(prep), First(prep.from, prep.to), prep.to) /\ Len(Log(prep)) <= Kept
<1> DEFINE n == prep.to - prep.from + 1
           all == [i \in 1 .. n |-> prep.from + i - 1]
<1>1. prep.from \in Nat /\ prep.to \in Nat /\ prep.from <= prep.to + 1 BY DEF SessionInv, SessionTyped
<1>2. n \in Nat /\ \A i \in 1 .. n : prep.from + i - 1 \in Nat BY <1>1
<1>3. all \in Seq(Nat) /\ Len(all) = n /\ \A i \in 1 .. n : all[i] = prep.from + i - 1
  <2>1. all \in [1 .. n -> Nat] BY <1>2
  <2>2. all \in Seq(Nat) BY <1>2, <2>1, SeqDef
  <2>3. Len(all) \in Nat /\ 1 .. Len(all) = 1 .. n BY <2>2, LenProperties
  <2>4. Len(all) = n BY <1>2, <2>3
  <2> QED BY <2>2, <2>4
<1>4. IsRun(all, prep.from, prep.to) BY <1>1, <1>3 DEF IsRun
<1>5. Log(prep) = LastOf(all, Kept) BY DEF Log
<1>6. prep.from <= First(prep.from, prep.to) BY <1>1, FirstIs
<1> HIDE DEF all, n
<1> QED BY <1>1, <1>4, <1>5, <1>6, RunKept

-------------------------------------------------------------------------------
(* A message more on its way. *)

\* m is sent as the session goes from p to q.
Sends(m, p, q) ==
  /\ p.gen <= q.gen /\ (q.gen = p.gen => q.from = p.from /\ (p.status # "running" => q.status # "running"))
  /\ \/ m.is = "line" /\ m.seq = q.to /\ q.to = p.to + 1 /\ q.gen = p.gen /\ p.status = "running" /\ q.soon
     \/ m.is \in {"state", "snapshot"} /\ m.state = State(q) /\ q.to = p.to /\ (m.is = "snapshot" => q = p)
Numbers(p) == p.gen \in Nat /\ p.from \in Nat /\ p.to \in Nat
Grown(s, t, q) == [i \in 0 .. Len(s) + 1 |-> IF i <= Len(s) THEN t[i] ELSE q.to]

\* A sequence is one of its own elements.
LEMMA OwnElems == ASSUME NEW S, NEW s \in Seq(S) PROVE s \in Seq(Elems(s))
<1>1. Len(s) \in Nat /\ s \in [1 .. Len(s) -> S] /\ DOMAIN s = 1 .. Len(s) BY LenProperties
<1>2. s \in [1 .. Len(s) -> Elems(s)] BY <1>1 DEF Elems
<1> QED BY <1>1, <1>2, SeqDef

\* What is at each place once a message is sent.
LEMMA Appended ==
  ASSUME NEW s, s \in Seq(Elems(s)), NEW m
  PROVE  /\ Append(s, m) \in Seq(Elems(Append(s, m))) /\ Len(s) \in Nat /\ Len(Append(s, m)) = Len(s) + 1
         /\ \A i \in 1 .. Len(s) : Append(s, m)[i] = s[i]
         /\ Append(s, m)[Len(s) + 1] = m
         /\ \A i \in 1 .. Len(s) + 1 : i = Len(s) + 1 \/ i \in 1 .. Len(s)
<1> DEFINE S == Elems(s) \cup {m}
<1>1. s \in Seq(S) BY SeqMonotonic
<1>2. m \in S OBVIOUS
<1> HIDE DEF S
<1>3. /\ Append(s, m) \in Seq(S) /\ Len(Append(s, m)) = Len(s) + 1 /\ Len(s) \in Nat
      /\ (\A i \in 1 .. Len(s) : Append(s, m)[i] = s[i]) /\ Append(s, m)[Len(s) + 1] = m
  BY <1>1, <1>2, AppendProperties, LenProperties
<1>4. Append(s, m) \in Seq(Elems(Append(s, m))) BY <1>3, OwnElems
<1>5. \A i \in 1 .. Len(s) + 1 : i = Len(s) + 1 \/ i \in 1 .. Len(s) BY <1>3
<1> QED BY <1>3, <1>4, <1>5

\* A line more, or a state between lines.
LEMMA LinesGrow ==
  ASSUME NEW s, NEW t, NEW p, NEW q, NEW m, Numbers(p), Numbers(q), t \in [0 .. Len(s) -> Int], LinesAre(s, t, p), Sends(m, p, q),
         q.from - 1 <= t[0], NEW u, u = Grown(s, t, q)
  PROVE  /\ u \in [0 .. Len(s) + 1 -> Int] /\ LinesAre(Append(s, m), u, q)
         /\ (\A i \in 0 .. Len(s) : u[i] = t[i]) /\ u[Len(s) + 1] = q.to
<1> DEFINE n == Len(s)
           r == Append(s, m)
<1>1. /\ r \in Seq(Elems(r)) /\ n \in Nat /\ Len(r) = n + 1 /\ \A i \in 1 .. n : r[i] = s[i]
      /\ r[n + 1] = m /\ \A i \in 1 .. n + 1 : i = n + 1 \/ i \in 1 .. n
  BY Appended DEF LinesAre
<1>2. /\ u \in [0 .. n + 1 -> Int] /\ (\A i \in 0 .. n : u[i] = t[i]) /\ u[n + 1] = q.to
  BY <1>1 DEF Grown, Numbers
<1>3. t[n] = p.to /\ 0 \in 0 .. n /\ n \in 0 .. n BY <1>1 DEF LinesAre
<1>4. p.to <= q.to /\ q.to \in Nat /\ p.to \in Nat BY DEF Sends, Numbers
<1> HIDE DEF n, r
<1>5. \A i \in 0 .. n + 1 : i = n + 1 \/ i \in 0 .. n BY <1>1
<1>6. ASSUME NEW i \in 0 .. n + 1, NEW j \in 0 .. n + 1, i <= j PROVE u[i] <= u[j]
  <2>1. CASE j \in 0 .. n
    <3>1. i \in 0 .. n BY <1>1, <1>6, <2>1
    <3> QED BY <1>2, <1>6, <2>1, <3>1 DEF LinesAre, n
  <2>2. CASE j = n + 1 /\ i \in 0 .. n
    <3>0. i \in 0 .. Len(s) /\ Len(s) \in 0 .. Len(s) /\ i <= Len(s) BY <1>1, <2>2 DEF n
    <3>1. t[i] <= t[n] /\ t[i] \in Int BY <3>0 DEF LinesAre, n
    <3> QED BY <1>2, <1>3, <1>4, <2>2, <3>1
  <2>3. CASE j = n + 1 /\ i = n + 1 BY <1>2, <1>4, <2>3
  <2> QED BY <1>5, <2>1, <2>2, <2>3
<1>7. ASSUME NEW i \in 1 .. n + 1
      PROVE  /\ r[i].is \in {"line", "state", "snapshot"}
             /\ u[i] = IF r[i].is = "line" THEN u[i - 1] + 1 ELSE u[i - 1]
             /\ r[i].is = "line" => r[i].seq = u[i]
  <2>1. CASE i \in 1 .. n
    <3>1. i \in 0 .. n /\ i - 1 \in 0 .. n BY <1>1, <2>1
    <3> QED BY <1>1, <1>2, <2>1, <3>1 DEF LinesAre, n
  <2>2. CASE i = n + 1
    <3>1. u[i - 1] = p.to /\ u[i] = q.to /\ r[i] = m BY <1>1, <1>2, <1>3, <2>2
    <3> QED BY <3>1 DEF Sends
  <2> QED BY <1>1, <2>1, <2>2
<1>8. q.from - 1 <= u[0] /\ u[n + 1] = q.to BY <1>2, <1>3
<1>9. LinesAre(r, u, q) BY <1>1, <1>6, <1>7, <1>8 DEF LinesAre
<1> QED BY <1>2, <1>9 DEF n, r

\* The state sent last is the session's, unless a line follows.
LEMMA StatesGrow ==
  ASSUME NEW s, NEW t, NEW u, NEW p, NEW q, NEW m, Numbers(p), Numbers(q), s \in Seq(Elems(s)), StatesAre(s, t, p), Sends(m, p, q),
         (\A i \in 0 .. Len(s) : u[i] = t[i]) /\ u[Len(s) + 1] = q.to
  PROVE  StatesAre(Append(s, m), u, q)
<1> DEFINE n == Len(s)
           r == Append(s, m)
<1>1. /\ r \in Seq(Elems(r)) /\ n \in Nat /\ Len(r) = n + 1 /\ \A i \in 1 .. n : r[i] = s[i]
      /\ r[n + 1] = m /\ \A i \in 1 .. n + 1 : i = n + 1 \/ i \in 1 .. n
  BY Appended
<1>2. \A i \in 1 .. n : u[i] = t[i]
  <2>1. \A i \in 1 .. n : i \in 0 .. n BY <1>1
  <2> QED BY <2>1
<1>S. State(q).gen = q.gen /\ State(q).status = q.status BY DEF State
<1> HIDE DEF n, r
<1>3. ASSUME NEW i \in 1 .. n, s[i].is # "line"
      PROVE  /\ NotAhead(s[i].state, q) /\ s[i].state.gen <= q.gen
             /\ s[i].state.gen = q.gen /\ s[i].state.status # "running" => t[i] = q.to
  <2>1. /\ NotAhead(s[i].state, p)
        /\ s[i].state.gen = p.gen /\ s[i].state.status # "running" => t[i] = p.to
    BY <1>3 DEF StatesAre, n
  <2>2. s[i].state.gen \in Nat /\ s[i].state.gen <= q.gen /\ (s[i].state.gen = q.gen => q.gen = p.gen)
    BY <2>1 DEF NotAhead, Sends, Numbers
  <2>3. s[i].state.gen = q.gen /\ s[i].state.status # "running" => p.status # "running" BY <2>1, <2>2 DEF NotAhead
  <2> QED BY <2>1, <2>2, <2>3 DEF NotAhead, Sends
<1>4. ASSUME NEW i \in 1 .. n, s[i].is # "line", ~q.soon, \A j \in i + 1 .. n + 1 : r[j].is # "state"
      PROVE  s[i].state = State(q)
  <2>1. n + 1 \in i + 1 .. n + 1 BY <1>1
  <2>2. m.is = "snapshot" /\ q = p BY <1>1, <1>4, <2>1 DEF Sends
  <2>3. \A j \in i + 1 .. n : j \in i + 1 .. n + 1 /\ j \in 1 .. n BY <1>1
  <2>4. \A j \in i + 1 .. n : s[j].is # "state" BY <1>1, <1>4, <2>3
  <2> QED BY <1>4, <2>2, <2>4 DEF StatesAre, n
<1>5. ASSUME m.is # "line"
      PROVE  m.state.gen = q.gen /\ NotAhead(m.state, q) /\ m.state = State(q)
  BY <1>5, <1>S DEF Sends, NotAhead, Numbers
<1>6. ASSUME NEW i \in 1 .. n + 1, r[i].is # "line"
      PROVE  /\ NotAhead(r[i].state, q)
             /\ r[i].state.gen = q.gen /\ r[i].state.status # "running" => u[i] = q.to
             /\ ~q.soon /\ (\A j \in i + 1 .. n + 1 : r[j].is # "state") => r[i].state = State(q)
  <2>1. CASE i \in 1 .. n BY <1>1, <1>2, <1>3, <1>4, <1>6, <2>1
  <2>2. CASE i = n + 1
    <3>1. u[n + 1] = q.to BY DEF n
    <3> QED BY <1>1, <1>5, <1>6, <2>2, <3>1
  <2> QED BY <1>1, <2>1, <2>2
<1>7. ASSUME NEW i \in 1 .. n + 1, NEW j \in 1 .. n + 1, i <= j, r[i].is # "line", r[j].is # "line"
      PROVE  r[i].state.gen <= r[j].state.gen
  <2>1. CASE j \in 1 .. n
    <3>1. i \in 1 .. n BY <1>1, <1>7, <2>1
    <3> QED BY <1>1, <1>7, <2>1, <3>1 DEF StatesAre, n
  <2>2. CASE j = n + 1 /\ i \in 1 .. n BY <1>1, <1>3, <1>5, <1>7, <2>2
  <2>3. CASE j = n + 1 /\ i = n + 1 BY <1>1, <1>5, <1>7, <2>3 DEF Numbers
  <2> QED BY <1>1, <2>1, <2>2, <2>3
<1>8. StatesAre(r, u, q) BY <1>1, <1>6, <1>7 DEF StatesAre
<1> QED BY <1>8 DEF r

\* A line or a state; h is the page, which may note that it started a preparation.
LEMMA SnapshotsGrow ==
  ASSUME NEW s, NEW t, NEW u, NEW p, NEW q, NEW m, NEW g, NEW h, s \in Seq(Elems(s)), SnapshotsAre(s, t, p, g),
         m.is # "snapshot", (q.gen = p.gen /\ q.from = p.from) \/ g.loaded,
         h.mount = g.mount, h.on = g.on, h.asks = g.asks, h.loaded = g.loaded,
         \A i \in 0 .. Len(s) : u[i] = t[i]
  PROVE  SnapshotsAre(Append(s, m), u, q, h)
<1> DEFINE n == Len(s)
           r == Append(s, m)
<1>1. /\ n \in Nat /\ Len(r) = n + 1 /\ \A i \in 1 .. n : r[i] = s[i]
      /\ r[n + 1] = m /\ \A i \in 1 .. n + 1 : i = n + 1 \/ i \in 1 .. n
  BY Appended
<1>2. \A i \in 1 .. n : u[i] = t[i]
  <2>1. \A i \in 1 .. n : i \in 0 .. n BY <1>1
  <2> QED BY <2>1
<1> HIDE DEF n, r
<1>3. ASSUME NEW i \in 1 .. n + 1, r[i].is = "snapshot" PROVE i \in 1 .. n /\ s[i].is = "snapshot" /\ r[i] = s[i]
  BY <1>1, <1>3
<1>4. \A i \in 1 .. n + 1 : r[i].is = "snapshot" => r[i].for \in Nat /\ r[i].for <= h.mount
  BY <1>3 DEF SnapshotsAre, n
<1>5. ASSUME NEW i \in 1 .. n + 1, h.on, r[i].is = "snapshot", r[i].for = h.mount
      PROVE  /\ ~h.asks /\ ~h.loaded /\ r[i].state.gen = q.gen /\ IsRun(r[i].log, First(q.from, u[i]), u[i])
             /\ \A j \in 1 .. n + 1 : r[j].is = "snapshot" /\ r[j].for = h.mount => i = j
  <2>1. i \in 1 .. n /\ s[i].is = "snapshot" /\ r[i] = s[i] BY <1>3, <1>5
  <2>2. /\ ~g.asks /\ ~g.loaded /\ s[i].state.gen = p.gen /\ IsRun(s[i].log, First(p.from, t[i]), t[i])
        /\ \A j \in 1 .. n : s[j].is = "snapshot" /\ s[j].for = g.mount => i = j
    BY <1>5, <2>1 DEF SnapshotsAre, n
  <2>3. q.gen = p.gen /\ q.from = p.from /\ u[i] = t[i] BY <1>2, <2>1, <2>2
  <2>4. \A j \in 1 .. n + 1 : r[j].is = "snapshot" /\ r[j].for = h.mount => i = j BY <1>3, <2>2
  <2> QED BY <2>1, <2>2, <2>3, <2>4
<1>6. SnapshotsAre(r, u, q, h) BY <1>1, <1>4, <1>5 DEF SnapshotsAre
<1> QED BY <1>6 DEF r

\* What the page shows stays true of what is now on its way.
LEMMA ShowsGrow ==
  ASSUME NEW s, NEW t, NEW u, NEW p, NEW q, NEW m, NEW g, Numbers(p), Numbers(q), s \in Seq(Elems(s)), Shows(s, t, p, g),
         Sends(m, p, q), m.is # "snapshot", q.gen = p.gen, g.gen <= p.gen,
         \A i \in 0 .. Len(s) : u[i] = t[i]
  PROVE  Shows(Append(s, m), u, q, g)
<1> DEFINE n == Len(s)
           r == Append(s, m)
<1>1. /\ n \in Nat /\ Len(r) = n + 1 /\ \A i \in 1 .. n : r[i] = s[i]
      /\ r[n + 1] = m /\ \A i \in 1 .. n + 1 : i = n + 1 \/ i \in 1 .. n
  BY Appended
<1>2. (\A i \in 1 .. n : u[i] = t[i]) /\ u[0] = t[0]
  <2>1. \A i \in 1 .. n : i \in 0 .. n BY <1>1
  <2>2. 0 \in 0 .. n BY <1>1
  <2> QED BY <2>1, <2>2
<1>S. State(q).gen = q.gen BY DEF State
<1> HIDE DEF n, r
<1>3. /\ g.state.gen = g.gen /\ NotAhead(g.state, p) /\ g.last \in Nat /\ g.last <= t[0]
      /\ g.gen = p.gen \/ g.starting = p.gen
  BY DEF Shows
<1>4. q.from = p.from /\ (p.status # "running" => q.status # "running") BY DEF Sends
<1>5. NotAhead(g.state, q) BY <1>3, <1>4 DEF NotAhead
<1>6. ASSUME NEW i \in 1 .. n + 1, r[i].is # "line" PROVE g.gen <= r[i].state.gen
  <2>1. CASE i \in 1 .. n BY <1>1, <1>6, <2>1 DEF Shows, n
  <2>2. CASE i = n + 1
    <3>1. m.state = State(q) BY <1>1, <1>6, <2>2 DEF Sends
    <3> QED BY <1>1, <1>S, <2>2, <3>1
  <2> QED BY <1>1, <2>1, <2>2
<1>7. ASSUME g.gen = q.gen, g.state.status # "running" PROVE u[0] = q.to
  <2>1. p.status # "running" BY <1>3, <1>7 DEF NotAhead
  <2>2. q.to = p.to BY <2>1 DEF Sends
  <2> QED BY <1>2, <1>7, <2>2 DEF Shows
<1>8. g.gen = q.gen =>
        \E b \in 0 .. u[0] : q.from <= b + 1 /\ IsRun(g.log, First(q.from, b), b) /\ IsRun(g.batch, b + 1, u[0])
  BY <1>2, <1>4 DEF Shows
<1>9. ASSUME g.gen # q.gen
      PROVE  \E i \in 1 .. n + 1 : r[i].is = "state" /\ r[i].state.gen = q.gen /\ u[i] = q.from - 1
  <2>1. PICK i \in 1 .. n : s[i].is = "state" /\ s[i].state.gen = p.gen /\ t[i] = p.from - 1 BY <1>9 DEF Shows, n
  <2>2. i \in 1 .. n + 1 BY <1>1
  <2> QED BY <1>1, <1>2, <1>4, <2>1, <2>2
<1>10. ASSUME ~q.soon, \A i \in 1 .. n + 1 : r[i].is # "state" PROVE FALSE
  <2>1. n + 1 \in 1 .. n + 1 BY <1>1
  <2> QED BY <1>1, <1>10, <2>1 DEF Sends
<1>11. Shows(r, u, q, g) BY <1>1, <1>2, <1>3, <1>5, <1>6, <1>7, <1>8, <1>9, <1>10 DEF Shows
<1> QED BY <1>11 DEF r

\* The page that starts a preparation still shows the one before.
LEMMA ShowsStart ==
  ASSUME NEW s, NEW t, NEW u, NEW p, NEW q, NEW m, NEW g, NEW h, Numbers(p), Numbers(q), s \in Seq(Elems(s)),
         Shows(s, t, p, g), m = StateMessage(q), q.gen = p.gen + 1, q.from = p.to + 1, g.gen \in Nat, g.gen <= p.gen,
         h.gen = g.gen, h.state = g.state, h.last = g.last, h.starting = q.gen,
         \A i \in 0 .. Len(s) : u[i] = t[i], u[Len(s) + 1] = p.to
  PROVE  Shows(Append(s, m), u, q, h)
<1> DEFINE n == Len(s)
           r == Append(s, m)
<1>1. /\ n \in Nat /\ Len(r) = n + 1 /\ \A i \in 1 .. n : r[i] = s[i]
      /\ r[n + 1] = m /\ \A i \in 1 .. n + 1 : i = n + 1 \/ i \in 1 .. n
  BY Appended
<1>2. u[0] = t[0]
  <2>1. 0 \in 0 .. n BY <1>1
  <2> QED BY <2>1
<1>S. m.is = "state" /\ m.state.gen = q.gen BY DEF State, StateMessage
<1>N. u[n + 1] = q.from - 1 BY DEF Numbers
<1> HIDE DEF n, r
<1>3. g.gen < q.gen /\ h.gen # q.gen BY DEF Numbers
<1>4. h.state.gen = h.gen /\ NotAhead(h.state, q) /\ h.last \in Nat /\ h.last <= u[0]
  BY <1>2, <1>3 DEF Shows, NotAhead, Numbers
<1>5. ASSUME NEW i \in 1 .. n + 1, r[i].is # "line" PROVE h.gen <= r[i].state.gen
  <2>1. CASE i \in 1 .. n BY <1>1, <1>5, <2>1 DEF Shows, n
  <2>2. CASE i = n + 1 BY <1>1, <1>3, <1>S, <2>2 DEF Numbers
  <2> QED BY <1>1, <2>1, <2>2
<1>6. \E i \in 1 .. n + 1 : r[i].is = "state" /\ r[i].state.gen = q.gen /\ u[i] = q.from - 1
  <2>1. n + 1 \in 1 .. n + 1 BY <1>1
  <2> QED BY <1>1, <1>S, <1>N, <2>1
<1>7. ~\A i \in 1 .. n + 1 : r[i].is # "state" BY <1>6
<1>8. Shows(r, u, q, h) BY <1>1, <1>3, <1>4, <1>5, <1>6, <1>7 DEF Shows
<1> QED BY <1>8 DEF r

\* A line or a state sent while the page stays as it is.
LEMMA FollowsGrow ==
  ASSUME NEW s, NEW t, NEW p, NEW q, NEW m, NEW g, Numbers(p), Numbers(q), t \in [0 .. Len(s) -> Int], Follows(s, t, p, g),
         Sends(m, p, q), m.is # "snapshot", q.gen = p.gen, g.gen <= p.gen
  PROVE  \E u \in [0 .. Len(Append(s, m)) -> Int] : Follows(Append(s, m), u, q, g)
<1>0. PICK u : u = Grown(s, t, q) OBVIOUS
<1>1. LinesAre(s, t, p) /\ StatesAre(s, t, p) /\ SnapshotsAre(s, t, p, g) /\ s \in Seq(Elems(s)) BY DEF Follows, LinesAre
<1>2. q.from = p.from /\ q.from - 1 <= t[0] BY <1>1 DEF Sends, LinesAre
<1>3. /\ u \in [0 .. Len(s) + 1 -> Int] /\ LinesAre(Append(s, m), u, q)
      /\ (\A i \in 0 .. Len(s) : u[i] = t[i]) /\ u[Len(s) + 1] = q.to
  <2>1. LinesAre(s, t, p) /\ q.from - 1 <= t[0] BY <1>1, <1>2
  <2> QED BY <1>0, <2>1, LinesGrow
<1>4. StatesAre(Append(s, m), u, q) BY <1>1, <1>3, StatesGrow
<1>5. SnapshotsAre(Append(s, m), u, q, g) BY <1>1, <1>2, <1>3, SnapshotsGrow
<1>6. IF g.loaded THEN Shows(Append(s, m), u, q, g) ELSE HeardEarly(u, q, g)
  <2>1. CASE g.loaded BY <1>1, <1>3, <2>1, ShowsGrow DEF Follows
  <2>2. CASE ~g.loaded
    <3>1. 0 \in 0 .. Len(s) BY <1>1, Appended
    <3> QED BY <1>2, <1>3, <2>2, <3>1 DEF Follows, HeardEarly
  <2> QED BY <2>1, <2>2
<1>7. Len(Append(s, m)) = Len(s) + 1 BY <1>1, Appended
<1> QED BY <1>3, <1>4, <1>5, <1>6, <1>7 DEF Follows

-------------------------------------------------------------------------------
(* A message delivered. *)

Shifted(s, t) == [i \in 0 .. Len(s) - 1 |-> t[i + 1]]

\* What is at each place once a message is delivered.
LEMMA Delivered ==
  ASSUME NEW s, s \in Seq(Elems(s)), s # <<>>
  PROVE  /\ Tail(s) \in Seq(Elems(Tail(s))) /\ Len(s) \in Nat /\ Len(s) # 0 /\ Len(Tail(s)) = Len(s) - 1
         /\ Head(s) = s[1] /\ 1 \in 1 .. Len(s)
         /\ \A i \in 1 .. Len(s) - 1 : Tail(s)[i] = s[i + 1] /\ i + 1 \in 1 .. Len(s)
         /\ \A i \in 1 .. Len(s) : i = 1 \/ i - 1 \in 1 .. Len(s) - 1
<1>1. /\ Tail(s) \in Seq(Elems(s)) /\ Len(Tail(s)) = Len(s) - 1 /\ Head(s) = s[1]
      /\ \A i \in 1 .. Len(Tail(s)) : Tail(s)[i] = s[i + 1]
  BY HeadTailProperties
<1>2. Len(s) \in Nat /\ Len(s) # 0 BY LenProperties, EmptySeq
<1>3. Tail(s) \in Seq(Elems(Tail(s))) BY <1>1, OwnElems
<1>4. /\ 1 \in 1 .. Len(s) /\ \A i \in 1 .. Len(s) - 1 : i + 1 \in 1 .. Len(s)
      /\ \A i \in 1 .. Len(s) : i = 1 \/ i - 1 \in 1 .. Len(s) - 1
  BY <1>2
<1> QED BY <1>1, <1>2, <1>3, <1>4

\* The lines left are numbered from the one delivered.
LEMMA LinesShrink ==
  ASSUME NEW s, NEW t, NEW p, Numbers(p), t \in [0 .. Len(s) -> Int], LinesAre(s, t, p), s # <<>>,
         NEW u, u = Shifted(s, t)
  PROVE  /\ u \in [0 .. Len(Tail(s)) -> Int] /\ LinesAre(Tail(s), u, p)
         /\ \A i \in 0 .. Len(s) - 1 : u[i] = t[i + 1]
         /\ u[0] = (IF Head(s).is = "line" THEN t[0] + 1 ELSE t[0]) /\ u[0] \in Int /\ t[0] \in Int /\ u[0] <= p.to
         /\ Head(s).is \in {"line", "state", "snapshot"} /\ (Head(s).is = "line" => Head(s).seq = u[0])
         /\ p.from - 1 <= t[0]
<1> DEFINE n == Len(s)
           r == Tail(s)
<1>1. /\ r \in Seq(Elems(r)) /\ n \in Nat /\ n # 0 /\ Len(r) = n - 1 /\ Head(s) = s[1] /\ 1 \in 1 .. n
      /\ \A i \in 1 .. n - 1 : r[i] = s[i + 1] /\ i + 1 \in 1 .. n
  BY Delivered DEF LinesAre
<1>2. \A i \in 0 .. n - 1 : i + 1 \in 0 .. n /\ i + 1 \in 1 .. n BY <1>1
<1>3. u \in [0 .. n - 1 -> Int] /\ \A i \in 0 .. n - 1 : u[i] = t[i + 1] BY <1>2 DEF Shifted
<1>4. \A i, j \in 0 .. n : i <= j => t[i] <= t[j] BY DEF LinesAre
<1>5. \A i \in 1 .. n :
        /\ s[i].is \in {"line", "state", "snapshot"}
        /\ t[i] = IF s[i].is = "line" THEN t[i - 1] + 1 ELSE t[i - 1]
        /\ s[i].is = "line" => s[i].seq = t[i]
  BY DEF LinesAre
<1>6. t[n] = p.to /\ p.from - 1 <= t[0] BY DEF LinesAre
<1> HIDE DEF n, r
<1>7. 0 \in 0 .. n - 1 /\ n - 1 \in 0 .. n - 1 /\ (n - 1) + 1 = n /\ 0 + 1 = 1 /\ 0 \in 0 .. n /\ 1 \in 0 .. n /\ n \in 0 .. n
      /\ 1 <= n /\ 0 <= 1 /\ 1 - 1 = 0
  BY <1>1
<1>8. u[0] = t[1] /\ u[n - 1] = p.to /\ t[0] <= t[1] /\ t[1] <= p.to /\ t[0] \in Int /\ t[1] \in Int
  BY <1>3, <1>4, <1>6, <1>7 DEF n
<1>9. \A i, j \in 0 .. n - 1 : i <= j => u[i] <= u[j]
  <2> SUFFICES ASSUME NEW i \in 0 .. n - 1, NEW j \in 0 .. n - 1, i <= j PROVE u[i] <= u[j]
    OBVIOUS
  <2>1. i + 1 \in 0 .. n /\ j + 1 \in 0 .. n /\ i + 1 <= j + 1 BY <1>2
  <2> QED BY <1>3, <1>4, <2>1
<1>10. ASSUME NEW i \in 1 .. n - 1
       PROVE  /\ r[i].is \in {"line", "state", "snapshot"}
              /\ u[i] = IF r[i].is = "line" THEN u[i - 1] + 1 ELSE u[i - 1]
              /\ r[i].is = "line" => r[i].seq = u[i]
  <2>1. i \in 0 .. n - 1 /\ i - 1 \in 0 .. n - 1 /\ (i - 1) + 1 = i /\ (i + 1) - 1 = i BY <1>1
  <2>2. u[i] = t[i + 1] /\ u[i - 1] = t[i] BY <1>3, <2>1
  <2>3. r[i] = s[i + 1] /\ i + 1 \in 1 .. n BY <1>1
  <2>4. /\ s[i + 1].is \in {"line", "state", "snapshot"}
        /\ t[i + 1] = IF s[i + 1].is = "line" THEN t[(i + 1) - 1] + 1 ELSE t[(i + 1) - 1]
        /\ s[i + 1].is = "line" => s[i + 1].seq = t[i + 1]
    BY <1>5, <2>3
  <2> QED BY <2>1, <2>2, <2>3, <2>4
<1>11. p.from - 1 <= u[0] BY <1>6, <1>8 DEF Numbers
<1>12. LinesAre(r, u, p) BY <1>1, <1>8, <1>9, <1>10, <1>11 DEF LinesAre
<1>13. /\ s[1].is \in {"line", "state", "snapshot"}
       /\ t[1] = IF s[1].is = "line" THEN t[0] + 1 ELSE t[0]
       /\ s[1].is = "line" => s[1].seq = t[1]
  BY <1>1, <1>5, <1>7
<1> QED BY <1>1, <1>3, <1>6, <1>8, <1>12, <1>13 DEF n, r

\* The states left are still in order.
LEMMA StatesShrink ==
  ASSUME NEW s, NEW t, NEW u, NEW p, s \in Seq(Elems(s)), s # <<>>, StatesAre(s, t, p),
         \A i \in 0 .. Len(s) - 1 : u[i] = t[i + 1]
  PROVE  StatesAre(Tail(s), u, p)
<1> DEFINE n == Len(s)
           r == Tail(s)
<1>1. /\ n \in Nat /\ n # 0 /\ Len(r) = n - 1
      /\ \A i \in 1 .. n - 1 : r[i] = s[i + 1] /\ i + 1 \in 1 .. n
  BY Delivered
<1>2. \A i \in 1 .. n - 1 : u[i] = t[i + 1]
  <2>1. \A i \in 1 .. n - 1 : i \in 0 .. n - 1 BY <1>1
  <2> QED BY <2>1
<1> HIDE DEF n, r
<1>3. ASSUME NEW i \in 1 .. n - 1, r[i].is # "line"
      PROVE  /\ NotAhead(r[i].state, p)
             /\ r[i].state.gen = p.gen /\ r[i].state.status # "running" => u[i] = p.to
  BY <1>1, <1>2, <1>3 DEF StatesAre, n
<1>4. ASSUME NEW i \in 1 .. n - 1, r[i].is # "line", ~p.soon, \A j \in i + 1 .. n - 1 : r[j].is # "state"
      PROVE  r[i].state = State(p)
  <2>1. ASSUME NEW j \in (i + 1) + 1 .. n PROVE s[j].is # "state"
    <3>1. j - 1 \in i + 1 .. n - 1 /\ j - 1 \in 1 .. n - 1 /\ (j - 1) + 1 = j BY <1>1
    <3> QED BY <1>1, <1>4, <3>1
  <2> QED BY <1>1, <1>4, <2>1 DEF StatesAre, n
<1>5. ASSUME NEW i \in 1 .. n - 1, NEW j \in 1 .. n - 1, i <= j, r[i].is # "line", r[j].is # "line"
      PROVE  r[i].state.gen <= r[j].state.gen
  <2>1. i + 1 <= j + 1 BY <1>1, <1>5
  <2> QED BY <1>1, <1>5, <2>1 DEF StatesAre, n
<1>6. StatesAre(r, u, p) BY <1>1, <1>3, <1>4, <1>5 DEF StatesAre
<1> QED BY <1>6 DEF r

\* The page's snapshot, once delivered, is no longer on its way.
LEMMA SnapshotsShrink ==
  ASSUME NEW s, NEW t, NEW u, NEW p, NEW g, NEW h, s \in Seq(Elems(s)), s # <<>>, SnapshotsAre(s, t, p, g),
         \A i \in 0 .. Len(s) - 1 : u[i] = t[i + 1],
         h.mount = g.mount, h.on = g.on, h.asks = g.asks,
         h.loaded = g.loaded \/ (g.on /\ Head(s).is = "snapshot" /\ Head(s).for = g.mount)
  PROVE  SnapshotsAre(Tail(s), u, p, h)
<1> DEFINE n == Len(s)
           r == Tail(s)
<1>1. /\ n \in Nat /\ n # 0 /\ Len(r) = n - 1 /\ Head(s) = s[1] /\ 1 \in 1 .. n
      /\ \A i \in 1 .. n - 1 : r[i] = s[i + 1] /\ i + 1 \in 1 .. n
  BY Delivered
<1>2. \A i \in 1 .. n - 1 : u[i] = t[i + 1]
  <2>1. \A i \in 1 .. n - 1 : i \in 0 .. n - 1 BY <1>1
  <2> QED BY <2>1
<1> HIDE DEF n, r
<1>3. \A i \in 1 .. n - 1 : r[i].is = "snapshot" => r[i].for \in Nat /\ r[i].for <= h.mount
  BY <1>1 DEF SnapshotsAre, n
<1>4. ASSUME NEW i \in 1 .. n - 1, h.on, r[i].is = "snapshot", r[i].for = h.mount
      PROVE  /\ ~h.asks /\ ~h.loaded /\ r[i].state.gen = p.gen /\ IsRun(r[i].log, First(p.from, u[i]), u[i])
             /\ \A j \in 1 .. n - 1 : r[j].is = "snapshot" /\ r[j].for = h.mount => i = j
  <2>1. /\ ~g.asks /\ ~g.loaded /\ r[i].state.gen = p.gen /\ IsRun(r[i].log, First(p.from, u[i]), u[i])
        /\ \A j \in 1 .. n : s[j].is = "snapshot" /\ s[j].for = g.mount => i + 1 = j
    BY <1>1, <1>2, <1>4 DEF SnapshotsAre, n
  <2>2. i + 1 # 1 BY <1>1
  <2>3. h.loaded = g.loaded BY <1>1, <1>4, <2>1, <2>2
  <2>4. ASSUME NEW j \in 1 .. n - 1, r[j].is = "snapshot", r[j].for = h.mount PROVE i = j
    <3>1. i + 1 = j + 1 BY <1>1, <2>1, <2>4
    <3> QED BY <3>1
  <2> QED BY <2>1, <2>3, <2>4
<1>5. SnapshotsAre(r, u, p, h) BY <1>1, <1>3, <1>4 DEF SnapshotsAre
<1> QED BY <1>5 DEF r

\* Nothing of the page's own: another page's snapshot.
LEMMA ShowsOther ==
  ASSUME NEW s, NEW t, NEW u, NEW p, NEW g, s \in Seq(Elems(s)), s # <<>>, Shows(s, t, p, g),
         \A i \in 0 .. Len(s) - 1 : u[i] = t[i + 1], u[0] = t[0], Head(s).is = "snapshot"
  PROVE  Shows(Tail(s), u, p, g)
<1> DEFINE n == Len(s)
           r == Tail(s)
<1>1. /\ n \in Nat /\ n # 0 /\ Len(r) = n - 1 /\ Head(s) = s[1] /\ 1 \in 1 .. n
      /\ \A i \in 1 .. n - 1 : r[i] = s[i + 1] /\ i + 1 \in 1 .. n
      /\ \A i \in 1 .. n : i = 1 \/ i - 1 \in 1 .. n - 1
  BY Delivered
<1>2. \A i \in 1 .. n - 1 : u[i] = t[i + 1]
  <2>1. \A i \in 1 .. n - 1 : i \in 0 .. n - 1 BY <1>1
  <2> QED BY <2>1
<1> HIDE DEF n, r
<1>3. ASSUME NEW i \in 1 .. n, s[i].is = "state" PROVE i - 1 \in 1 .. n - 1 /\ r[i - 1] = s[i] /\ u[i - 1] = t[i]
  <2>1. i - 1 \in 1 .. n - 1 /\ (i - 1) + 1 = i BY <1>1, <1>3
  <2> QED BY <1>1, <1>2, <2>1
<1>4. \A i \in 1 .. n - 1 : r[i].is # "line" => g.gen <= r[i].state.gen BY <1>1 DEF Shows, n
<1>5. g.gen # p.gen => \E i \in 1 .. n - 1 : r[i].is = "state" /\ r[i].state.gen = p.gen /\ u[i] = p.from - 1
  <2> SUFFICES ASSUME g.gen # p.gen PROVE \E i \in 1 .. n - 1 : r[i].is = "state" /\ r[i].state.gen = p.gen /\ u[i] = p.from - 1
    OBVIOUS
  <2>1. PICK i \in 1 .. n : s[i].is = "state" /\ s[i].state.gen = p.gen /\ t[i] = p.from - 1 BY DEF Shows, n
  <2> QED BY <1>3, <2>1
<1>6. ~p.soon /\ (\A i \in 1 .. n - 1 : r[i].is # "state") => g.state = State(p)
  <2>1. (\A i \in 1 .. n - 1 : r[i].is # "state") => \A i \in 1 .. n : s[i].is # "state" BY <1>3
  <2> QED BY <2>1 DEF Shows, n
<1>7. Shows(r, u, p, g) BY <1>1, <1>4, <1>5, <1>6 DEF Shows
<1> QED BY <1>7 DEF r

\* A line joins those yet to be flushed.
LEMMA ShowsLine ==
  ASSUME NEW s, NEW t, NEW u, NEW p, NEW g, NEW h, Numbers(p), s \in Seq(Elems(s)), s # <<>>, Shows(s, t, p, g),
         \A i \in 0 .. Len(s) - 1 : u[i] = t[i + 1], u[0] = t[0] + 1, t[0] \in Int, u[0] <= p.to,
         Head(s).is = "line", p.from - 1 <= t[0],
         h.gen = g.gen, h.state = g.state, h.starting = g.starting, h.log = g.log,
         h.last = u[0], h.batch = Append(g.batch, u[0])
  PROVE  Shows(Tail(s), u, p, h)
<1> DEFINE n == Len(s)
           r == Tail(s)
<1>1. /\ n \in Nat /\ n # 0 /\ Len(r) = n - 1 /\ Head(s) = s[1] /\ 1 \in 1 .. n
      /\ \A i \in 1 .. n - 1 : r[i] = s[i + 1] /\ i + 1 \in 1 .. n
      /\ \A i \in 1 .. n : i = 1 \/ i - 1 \in 1 .. n - 1
  BY Delivered
<1>2. \A i \in 1 .. n - 1 : u[i] = t[i + 1]
  <2>1. \A i \in 1 .. n - 1 : i \in 0 .. n - 1 BY <1>1
  <2> QED BY <2>1
<1> HIDE DEF n, r
<1>3. ASSUME NEW i \in 1 .. n, s[i].is = "state" PROVE i - 1 \in 1 .. n - 1 /\ r[i - 1] = s[i] /\ u[i - 1] = t[i]
  <2>1. i - 1 \in 1 .. n - 1 /\ (i - 1) + 1 = i BY <1>1, <1>3
  <2> QED BY <1>1, <1>2, <2>1
<1>4. ASSUME NEW i \in 1 .. n - 1, r[i].is # "line" PROVE h.gen <= r[i].state.gen
  <2>1. r[i] = s[i + 1] /\ i + 1 \in 1 .. n BY <1>1
  <2>2. g.gen <= s[i + 1].state.gen BY <1>4, <2>1 DEF Shows, n
  <2> QED BY <2>1, <2>2
<1>5. h.gen # p.gen => \E i \in 1 .. n - 1 : r[i].is = "state" /\ r[i].state.gen = p.gen /\ u[i] = p.from - 1
  <2> SUFFICES ASSUME g.gen # p.gen PROVE \E i \in 1 .. n - 1 : r[i].is = "state" /\ r[i].state.gen = p.gen /\ u[i] = p.from - 1
    OBVIOUS
  <2>1. PICK i \in 1 .. n : s[i].is = "state" /\ s[i].state.gen = p.gen /\ t[i] = p.from - 1 BY DEF Shows, n
  <2> QED BY <1>3, <2>1
<1>6. ~p.soon /\ (\A i \in 1 .. n - 1 : r[i].is # "state") => h.state = State(p)
  <2>1. (\A i \in 1 .. n - 1 : r[i].is # "state") => \A i \in 1 .. n : s[i].is # "state" BY <1>3
  <2> QED BY <2>1 DEF Shows, n
<1>7. u[0] \in Nat /\ t[0] \in Nat
  <2>1. g.last \in Nat /\ g.last <= t[0] BY DEF Shows
  <2> QED BY <2>1
<1>8. ASSUME h.gen = p.gen, h.state.status # "running" PROVE FALSE
  <2>1. t[0] = p.to BY <1>8 DEF Shows
  <2> QED BY <2>1
<1>9. ASSUME h.gen = p.gen
      PROVE  \E b \in 0 .. u[0] : p.from <= b + 1 /\ IsRun(h.log, First(p.from, b), b) /\ IsRun(h.batch, b + 1, u[0])
  <2>1. PICK b \in 0 .. t[0] : p.from <= b + 1 /\ IsRun(g.log, First(p.from, b), b) /\ IsRun(g.batch, b + 1, t[0])
    BY <1>9 DEF Shows
  <2>2. b \in 0 .. u[0] /\ b + 1 \in Nat /\ t[0] + 1 \in Nat /\ t[0] \in Int BY <1>7
  <2>3. IsRun(Append(g.batch, t[0] + 1), b + 1, t[0] + 1) BY <2>1, <2>2, RunGrows
  <2> QED BY <2>1, <2>2, <2>3
<1>10. h.state.gen = h.gen /\ NotAhead(h.state, p) /\ h.last \in Nat /\ h.last <= u[0]
       /\ (h.gen = p.gen \/ h.starting = p.gen)
  BY <1>7 DEF Shows
<1>11. Shows(r, u, p, h) BY <1>1, <1>4, <1>5, <1>6, <1>8, <1>9, <1>10 DEF Shows
<1> QED BY <1>11 DEF r

\* A state, of the preparation shown or of a later one, whose lines replace those shown.
LEMMA ShowsState ==
  ASSUME NEW s, NEW t, NEW u, NEW p, NEW g, NEW h, Numbers(p), s \in Seq(Elems(s)), s # <<>>, Shows(s, t, p, g),
         StatesAre(s, t, p), g.gen \in Nat, g.gen <= p.gen, \A i, j \in 0 .. Len(s) : i <= j => t[i] <= t[j],
         \A i \in 0 .. Len(s) - 1 : u[i] = t[i + 1], u[0] = t[0], t[1] = t[0], t[0] \in Int, p.from - 1 <= t[0],
         Head(s).is = "state",
         h.state = Head(s).state, h.gen = Head(s).state.gen, h.starting = g.starting, h.last = g.last,
         IF Head(s).state.gen = g.gen THEN h.log = g.log /\ h.batch = g.batch ELSE h.log = <<>> /\ h.batch = <<>>
  PROVE  Shows(Tail(s), u, p, h)
<1> DEFINE n == Len(s)
           r == Tail(s)
           state == Head(s).state
<1>1. /\ n \in Nat /\ n # 0 /\ Len(r) = n - 1 /\ Head(s) = s[1] /\ 1 \in 1 .. n
      /\ \A i \in 1 .. n - 1 : r[i] = s[i + 1] /\ i + 1 \in 1 .. n
      /\ \A i \in 1 .. n : i = 1 \/ i - 1 \in 1 .. n - 1
  BY Delivered
<1>2. \A i \in 1 .. n - 1 : u[i] = t[i + 1]
  <2>1. \A i \in 1 .. n - 1 : i \in 0 .. n - 1 BY <1>1
  <2> QED BY <2>1
<1>A. s[1].is # "line" /\ s[1].state = state BY <1>1
<1> HIDE DEF n, r, state
<1>3. /\ NotAhead(state, p) /\ g.gen <= state.gen
      /\ state.gen = p.gen /\ state.status # "running" => t[1] = p.to
  BY <1>1, <1>A DEF StatesAre, Shows, n
<1>4. ASSUME NEW i \in 1 .. n - 1, r[i].is # "line" PROVE h.gen <= r[i].state.gen
  <2>1. 1 <= i + 1 BY <1>1
  <2> QED BY <1>1, <1>4, <1>A, <2>1 DEF StatesAre, n, state
<1>5. ASSUME h.gen # p.gen
      PROVE  \E i \in 1 .. n - 1 : r[i].is = "state" /\ r[i].state.gen = p.gen /\ u[i] = p.from - 1
  <2>1. state.gen # p.gen /\ g.gen # p.gen BY <1>3, <1>5 DEF NotAhead, Numbers, state
  <2>2. PICK i \in 1 .. n : s[i].is = "state" /\ s[i].state.gen = p.gen /\ t[i] = p.from - 1 BY <2>1 DEF Shows, n
  <2>3. i - 1 \in 1 .. n - 1 /\ (i - 1) + 1 = i BY <1>1, <1>A, <2>1, <2>2
  <2>4. r[i - 1] = s[i] /\ u[i - 1] = t[i] BY <1>1, <1>2, <2>3
  <2> QED BY <2>2, <2>3, <2>4
<1>6. ASSUME ~p.soon, \A i \in 1 .. n - 1 : r[i].is # "state" PROVE h.state = State(p)
  <2>1. ASSUME NEW j \in 1 + 1 .. n PROVE s[j].is # "state"
    <3>1. j - 1 \in 1 .. n - 1 /\ (j - 1) + 1 = j BY <1>1
    <3> QED BY <1>1, <1>6, <3>1
  <2> QED BY <1>1, <1>6, <1>A, <2>1 DEF StatesAre, n, state
<1>7. g.last \in Nat /\ g.last <= t[0] /\ t[0] \in Nat
  <2>1. g.last \in Nat /\ g.last <= t[0] BY DEF Shows
  <2> QED BY <2>1
<1>8. h.gen = p.gen /\ h.state.status # "running" => u[0] = p.to BY <1>3 DEF state
<1>9. ASSUME h.gen = p.gen
      PROVE  \E b \in 0 .. u[0] : p.from <= b + 1 /\ IsRun(h.log, First(p.from, b), b) /\ IsRun(h.batch, b + 1, u[0])
  <2>1. CASE Head(s).state.gen = g.gen BY <1>9, <2>1 DEF Shows
  <2>2. CASE Head(s).state.gen # g.gen
    <3>1. g.gen # p.gen BY <1>9, <2>2
    <3>2. PICK i \in 1 .. n : s[i].is = "state" /\ s[i].state.gen = p.gen /\ t[i] = p.from - 1 BY <3>1 DEF Shows, n
    <3>3. 0 \in 0 .. n /\ i \in 0 .. n /\ 0 <= i BY <1>1
    <3>4. t[0] <= t[i] BY <3>3 DEF n
    <3>5. u[0] = p.from - 1 BY <3>2, <3>4 DEF Numbers
    <3>6. u[0] \in 0 .. u[0] /\ p.from <= u[0] + 1 /\ First(p.from, u[0]) = u[0] + 1
      <4>1. First(p.from, p.from - 1) = p.from BY KeptIs DEF First, Numbers
      <4> QED BY <1>7, <3>5, <4>1 DEF Numbers
    <3>7. IsRun(<<>>, u[0] + 1, u[0])
      <4>1. u[0] \in Int /\ u[0] + 1 \in Int BY <1>7
      <4> QED BY <4>1, EmptyRun
    <3> QED BY <2>2, <3>6, <3>7
  <2> QED BY <2>1, <2>2
<1>10. h.state.gen = h.gen /\ NotAhead(h.state, p) /\ h.last \in Nat /\ h.last <= u[0]
       /\ (h.gen = p.gen \/ h.starting = p.gen)
  <2>1. h.gen = p.gen \/ h.starting = p.gen
    <3>1. g.gen = p.gen \/ g.starting = p.gen BY DEF Shows
    <3> QED BY <1>3, <3>1 DEF NotAhead, Numbers, state
  <2> QED BY <1>3, <1>7, <2>1 DEF state
<1>11. Shows(r, u, p, h) BY <1>1, <1>4, <1>5, <1>6, <1>8, <1>9, <1>10 DEF Shows
<1> QED BY <1>11 DEF r

\* No early line is later than the last of the snapshot's.
LEMMA LaterIs ==
  ASSUME NEW early \in Seq(Nat), NEW last, \A i \in 1 .. Len(early) : early[i] <= last
  PROVE  Later(early, last) = <<>>
<1>1. DOMAIN early = 1 .. Len(early) /\ Len(early) \in Nat BY LenProperties
<1>2. {i \in DOMAIN early : early[i] <= last} = 1 .. Len(early) BY <1>1
<1>3. Cardinality(1 .. Len(early)) = Len(early)
  <2>1. 1 \in Int /\ Len(early) \in Int BY <1>1
  <2>2. Cardinality(1 .. Len(early)) = IF 1 > Len(early) THEN 0 ELSE Len(early) - 1 + 1 BY <2>1, FS_Interval
  <2> QED BY <1>1, <2>2
<1>4. SubSeq(early, Len(early) + 1, Len(early)) = <<>> BY <1>1, SubSeqEmpty
<1> QED BY <1>2, <1>3, <1>4 DEF Later

\* The snapshot has all the lines that came before it.
LEMMA SnapshotIs ==
  ASSUME PageTyped, NEW m, NEW c \in Nat, Numbers(prep), IsRun(m.log, First(prep.from, c), c), prep.from <= c + 1,
         IsRun(page.early, c - Len(page.early) + 1, c), prep.from <= c - Len(page.early) + 1
  PROVE  /\ OnSnapshot(m).log \in Seq(Nat) /\ Len(OnSnapshot(m).log) <= Kept
         /\ IsRun(OnSnapshot(m).log, First(prep.from, c), c)
         /\ OnSnapshot(m).last \in Nat /\ OnSnapshot(m).last <= c
         /\ DOMAIN OnSnapshot(m) = DOMAIN page /\ OnSnapshot(m).mount = page.mount /\ OnSnapshot(m).on = page.on
         /\ OnSnapshot(m).asks = page.asks /\ OnSnapshot(m).loaded = TRUE /\ OnSnapshot(m).starting = page.starting
         /\ OnSnapshot(m).gen = m.state.gen /\ OnSnapshot(m).state = m.state /\ OnSnapshot(m).early = <<>>
         /\ OnSnapshot(m).batch = page.batch
<1> DEFINE last == IF m.log = <<>> THEN 0 ELSE m.log[Len(m.log)]
           later == Later(page.early, last)
           n == Len(page.early)
           first == First(prep.from, c)
<1>K. Kept \in Nat /\ 0 < Kept BY KeptIs
<1>F. first \in Nat /\ prep.from <= first /\ first <= c + 1 BY FirstIs DEF Numbers
<1>1. /\ m.log \in Seq(Nat) /\ Len(m.log) = c - first + 1 /\ \A i \in 1 .. Len(m.log) : m.log[i] = first + i - 1
      /\ Len(m.log) \in Nat
  BY LenProperties DEF IsRun
<1>2. /\ page.early \in Seq(Nat) /\ n \in Nat /\ \A i \in 1 .. n : page.early[i] = (c - n + 1) + i - 1
  BY LenProperties DEF IsRun
<1>L. prep.from <= c - n + 1 /\ prep.from \in Nat BY DEF Numbers
<1>3. last \in Nat /\ last <= c /\ later = <<>>
  <2>1. CASE m.log = <<>>
    <3>1. Len(m.log) = 0 BY <2>1
    <3>2. first = c + 1 BY <1>1, <1>F, <3>1
    <3>3. prep.from = c + 1 BY <1>K, <3>2 DEF First, Numbers
    <3>4. n = 0
      <4> HIDE DEF n
      <4> QED BY <1>2, <1>L, <3>3
    <3>5. \A i \in 1 .. Len(page.early) : page.early[i] <= last BY <3>4
    <3> HIDE DEF last
    <3>6. later = <<>> BY <1>2, <3>5, LaterIs
    <3> QED BY <2>1, <3>6 DEF last
  <2>2. CASE m.log # <<>>
    <3>1. Len(m.log) # 0 BY <1>1, <2>2, EmptySeq
    <3>2. Len(m.log) \in 1 .. Len(m.log) BY <1>1, <3>1
    <3>3. last = c BY <1>1, <1>F, <2>2, <3>2
    <3>4. \A i \in 1 .. n : page.early[i] <= last
      <4> HIDE DEF n, last
      <4>1. \A i \in 1 .. n : page.early[i] = (c - n + 1) + i - 1 BY <1>2
      <4>2. \A i \in 1 .. n : (c - n + 1) + i - 1 <= c BY <1>2
      <4> QED BY <3>3, <4>1, <4>2
    <3> HIDE DEF last
    <3>5. later = <<>> BY <1>2, <3>4, LaterIs
    <3> QED BY <3>3, <3>5
  <2> QED BY <2>1, <2>2
<1> HIDE DEF last, later, first
<1>4. LET q == OnSnapshot(m) IN
      /\ DOMAIN q = DOMAIN page /\ q.mount = page.mount /\ q.on = page.on /\ q.asks = page.asks /\ q.loaded = TRUE
      /\ q.starting = page.starting /\ q.gen = m.state.gen /\ q.state = m.state /\ q.early = <<>> /\ q.batch = page.batch
      /\ q.last = IF later = <<>> THEN last ELSE later[Len(later)]
      /\ q.log = LastOf(m.log \o later, Kept)
  <2>1. OnSnapshot(m) = [page EXCEPT !.loaded = TRUE, !.gen = m.state.gen, !.early = <<>>, !.state = m.state,
                                     !.last = IF later = <<>> THEN last ELSE later[Len(later)],
                                     !.log = LastOf(m.log \o later, Kept)]
    BY DEF OnSnapshot, last, later
  <2> QED BY <2>1 DEF PageTyped
<1>5. m.log \o later = m.log BY <1>1, <1>3, ConcatEmptySeq
<1>6. IsRun(LastOf(m.log, Kept), first, c) /\ Len(LastOf(m.log, Kept)) <= Kept
  <2>1. prep.from \in Nat /\ IsRun(m.log, first, c) BY DEF Numbers, first
  <2>2. IsRun(LastOf(m.log, Kept), First(prep.from, c), c) /\ Len(LastOf(m.log, Kept)) <= Kept
    BY <1>F, <2>1, RunKept DEF first
  <2> QED BY <2>2 DEF first
<1>7. LastOf(m.log, Kept) \in Seq(Nat) BY <1>6 DEF IsRun
<1> QED BY <1>3, <1>4, <1>5, <1>6, <1>7 DEF first

\* A page that has just had its snapshot.
LEMMA ShowsSnapshot ==
  ASSUME NEW s, NEW t, NEW u, NEW p, NEW h, Numbers(p), s \in Seq(Elems(s)), s # <<>>, StatesAre(s, t, p),
         u[0] = t[0], t[1] = t[0], t[0] \in Nat, p.from - 1 <= t[0],
         Head(s).is = "snapshot", Head(s).state.gen = p.gen,
         h.state = Head(s).state, h.gen = p.gen, h.batch = <<>>, h.last \in Nat, h.last <= t[0],
         IsRun(h.log, First(p.from, t[0]), t[0])
  PROVE  Shows(Tail(s), u, p, h)
<1> DEFINE n == Len(s)
           r == Tail(s)
<1>1. /\ n \in Nat /\ n # 0 /\ Len(r) = n - 1 /\ Head(s) = s[1] /\ 1 \in 1 .. n
      /\ \A i \in 1 .. n - 1 : r[i] = s[i + 1] /\ i + 1 \in 1 .. n
  BY Delivered
<1>A. s[1].is # "line" /\ s[1].state = h.state BY <1>1
<1> HIDE DEF n, r
<1>2. /\ NotAhead(h.state, p)
      /\ h.state.gen = p.gen /\ h.state.status # "running" => t[1] = p.to
  BY <1>1, <1>A DEF StatesAre, n
<1>3. ASSUME NEW i \in 1 .. n - 1, r[i].is # "line" PROVE h.gen <= r[i].state.gen
  <2>1. 1 <= i + 1 BY <1>1
  <2> QED BY <1>1, <1>3, <1>A, <2>1 DEF StatesAre, n
<1>4. ASSUME ~p.soon, \A i \in 1 .. n - 1 : r[i].is # "state" PROVE h.state = State(p)
  <2>1. ASSUME NEW j \in 1 + 1 .. n PROVE s[j].is # "state"
    <3>1. j - 1 \in 1 .. n - 1 /\ (j - 1) + 1 = j BY <1>1
    <3> QED BY <1>1, <1>4, <3>1
  <2> QED BY <1>1, <1>4, <1>A, <2>1 DEF StatesAre, n
<1>5. \E b \in 0 .. u[0] : p.from <= b + 1 /\ IsRun(h.log, First(p.from, b), b) /\ IsRun(h.batch, b + 1, u[0])
  <2>1. u[0] \in Int /\ u[0] + 1 \in Int /\ u[0] \in 0 .. u[0] /\ p.from <= u[0] + 1 BY DEF Numbers
  <2>2. IsRun(<<>>, u[0] + 1, u[0]) BY <2>1, EmptyRun
  <2> QED BY <2>1, <2>2
<1>6. Shows(r, u, p, h) BY <1>1, <1>2, <1>3, <1>4, <1>5 DEF Shows
<1> QED BY <1>6 DEF r

-------------------------------------------------------------------------------
(* The steps that send. *)

\* The numbers of a session.
LEMMA NumbersAre == ASSUME SessionInv PROVE Numbers(prep) /\ prep.from <= prep.to + 1
BY DEF SessionInv, SessionTyped, Numbers

\* The invariant, with the ghost as a function to the integers.
LEMMA FollowsIs ==
  ASSUME PageInv, SessionInv
  PROVE  PageTyped /\ \E t \in [0 .. Len(sent) -> Int] : Follows(sent, t, prep, page)
<1>1. PICK t \in Ghosts : Follows(sent, t, prep, page) BY DEF PageInv
<1>2. \A i \in prep.from - 1 .. prep.to : i \in Int OBVIOUS
<1>3. t \in [0 .. Len(sent) -> Int] BY <1>1, <1>2 DEF Ghosts
<1> QED BY <1>1, <1>3 DEF PageInv

\* The lines heard of are the session's.
LEMMA GhostIn ==
  ASSUME NEW s, NEW t, NEW p, Numbers(p), t \in [0 .. Len(s) -> Int], LinesAre(s, t, p)
  PROVE  t \in [0 .. Len(s) -> p.from - 1 .. p.to]
<1>1. Len(s) \in Nat BY LenProperties DEF LinesAre
<1>2. ASSUME NEW i \in 0 .. Len(s) PROVE t[i] \in p.from - 1 .. p.to
  <2>1. 0 \in 0 .. Len(s) /\ Len(s) \in 0 .. Len(s) /\ 0 <= i /\ i <= Len(s) BY <1>1
  <2>2. t[0] <= t[i] /\ t[i] <= t[Len(s)] /\ t[i] \in Int /\ t[0] \in Int BY <2>1 DEF LinesAre
  <2>3. p.from - 1 <= t[0] /\ t[Len(s)] = p.to BY DEF LinesAre
  <2> QED BY <2>2, <2>3 DEF Numbers
<1> QED BY <1>2

\* To keep the invariant it is enough to follow.
LEMMA PageFollows ==
  ASSUME SessionInv', PageTyped', \E t \in [0 .. Len(sent') -> Int] : Follows(sent', t, prep', page')
  PROVE  PageInv'
<1>1. PICK t \in [0 .. Len(sent') -> Int] : Follows(sent', t, prep', page') OBVIOUS
<1>2. Numbers(prep') BY DEF SessionInv, SessionTyped, Numbers
<1>3. LinesAre(sent', t, prep') BY <1>1 DEF Follows
<1>4. t \in [0 .. Len(sent') -> prep'.from - 1 .. prep'.to] BY <1>2, <1>3, GhostIn
<1> QED BY <1>1, <1>4 DEF PageInv, Ghosts

\* Steps that neither send nor are heard.
LEMMA PageUntouched ==
  ASSUME PageInv, UNCHANGED <<sent, prep, page>>
  PROVE  PageInv'
BY DEF PageInv, PageTyped, Ghosts

\* A state sent by a session whose lines stay as they are.
LEMMA StateIsSent ==
  ASSUME PageInv, SessionInv, SessionInv', UNCHANGED page, sent' = Append(sent, StateMessage(prep')),
         prep'.gen = prep.gen, prep'.from = prep.from, prep'.to = prep.to, prep.status # "running" => prep'.status # "running"
  PROVE  PageInv'
<1>1. Numbers(prep) /\ Numbers(prep') BY DEF SessionInv, SessionTyped, Numbers
<1>2. PageTyped /\ PageTyped' /\ page.gen <= prep.gen BY FollowsIs DEF PageTyped
<1>3. PICK t \in [0 .. Len(sent) -> Int] : Follows(sent, t, prep, page) BY FollowsIs
<1>4. StateMessage(prep').is = "state" /\ StateMessage(prep').state = State(prep') BY DEF StateMessage
<1>5. Sends(StateMessage(prep'), prep, prep') BY <1>1, <1>4 DEF Sends, Numbers
<1>6. \E u \in [0 .. Len(Append(sent, StateMessage(prep'))) -> Int] :
         Follows(Append(sent, StateMessage(prep')), u, prep', page)
  BY <1>1, <1>2, <1>3, <1>4, <1>5, FollowsGrow
<1> QED BY <1>2, <1>6, PageFollows

\* The steps that send one.
LEMMA NotifierPages == ASSUME PageInv, SessionInv, SessionInv', NotifierFires PROVE PageInv'
<1>1. /\ prep' = [prep EXCEPT !.soon = FALSE] /\ sent' = Append(sent, StateMessage(prep)) /\ UNCHANGED page
  BY DEF NotifierFires, Now
<1>2. /\ prep'.gen = prep.gen /\ prep'.status = prep.status /\ prep'.progress = prep.progress
      /\ prep'.passwordFor = prep.passwordFor /\ prep'.result = prep.result /\ prep'.from = prep.from /\ prep'.to = prep.to
  BY <1>1 DEF SessionInv, SessionTyped
<1>3. StateMessage(prep') = StateMessage(prep) BY <1>2 DEF StateMessage, State
<1> QED BY <1>1, <1>2, <1>3, StateIsSent

LEMMA FinishPages == ASSUME PageInv, SessionInv, SessionInv', Finish PROVE PageInv'
<1>1. UNCHANGED page BY DEF Finish
<1> QED BY <1>1, FinishIs, StateIsSent

LEMMA PasswordPages == ASSUME PageInv, SessionInv, SessionInv', SubmitPassword PROVE PageInv'
<1>1. UNCHANGED page BY DEF SubmitPassword
<1> QED BY <1>1, PasswordIs, StateIsSent

\* A line read is sent, and after a prompt the state.
LEMMA ReadPages ==
  ASSUME PageInv, SessionInv, SessionInv', NEW pipe \in {"out", "err"}, ReadLine(pipe)
  PROVE  PageInv'
<1> DEFINE line == Head(pipes[pipe])
           said == [is |-> "line", seq |-> prep'.to]
<1>1. /\ prep'.gen = prep.gen /\ prep'.status = prep.status /\ prep'.from = prep.from /\ prep'.to = prep.to + 1
      /\ prep'.soon = (line.is # "prompt") /\ UNCHANGED page
      /\ sent' = IF line.is = "prompt" THEN Append(Append(sent, said), StateMessage(prep')) ELSE Append(sent, said)
  BY ReadIs
<1> HIDE DEF line
<1>2. Numbers(prep) /\ Numbers(prep') BY DEF SessionInv, SessionTyped, Numbers
<1>3. prep.status = "running" BY ReadTypes
<1>4. PageTyped /\ PageTyped' /\ page.gen <= prep.gen BY <1>1, FollowsIs DEF PageTyped
<1>5. PICK t \in [0 .. Len(sent) -> Int] : Follows(sent, t, prep, page) BY FollowsIs
<1>6. PICK mid : mid = [gen |-> prep'.gen, status |-> prep'.status, from |-> prep'.from, to |-> prep'.to, soon |-> TRUE]
  OBVIOUS
<1>7. Numbers(mid) /\ mid.gen = prep.gen /\ mid.from = prep.from /\ mid.to = prep.to + 1 /\ mid.soon /\ mid.status = "running"
  BY <1>1, <1>2, <1>3, <1>6 DEF Numbers
<1>8. said.is = "line" /\ said.seq = prep.to + 1 BY <1>1
<1>9. StateMessage(prep').is = "state" /\ StateMessage(prep').state = State(prep') BY DEF StateMessage
<1> HIDE DEF said
<1>10. CASE line.is # "prompt"
  <2>0. prep'.soon BY <1>1, <1>10
  <2>1. Sends(said, prep, prep') BY <1>1, <1>2, <1>3, <1>8, <2>0 DEF Sends, Numbers
  <2>2. \E u \in [0 .. Len(Append(sent, said)) -> Int] : Follows(Append(sent, said), u, prep', page)
    BY <1>1, <1>2, <1>4, <1>5, <1>8, <2>1, FollowsGrow
  <2> QED BY <1>1, <1>4, <1>10, <2>2, PageFollows
<1>11. CASE line.is = "prompt"
  <2>1. Sends(said, prep, mid) BY <1>2, <1>3, <1>7, <1>8 DEF Sends, Numbers
  <2>2. PICK u \in [0 .. Len(Append(sent, said)) -> Int] : Follows(Append(sent, said), u, mid, page)
    BY <1>2, <1>4, <1>5, <1>7, <1>8, <2>1, FollowsGrow
  <2>3. Sends(StateMessage(prep'), mid, prep') BY <1>1, <1>2, <1>3, <1>7, <1>9 DEF Sends, Numbers
  <2>4. PICK s : s = Append(sent, said) OBVIOUS
  <2>5. \E v \in [0 .. Len(Append(s, StateMessage(prep'))) -> Int] : Follows(Append(s, StateMessage(prep')), v, prep', page)
    BY <1>1, <1>2, <1>4, <1>7, <1>9, <2>2, <2>3, <2>4, FollowsGrow
  <2> QED BY <1>1, <1>4, <1>11, <2>4, <2>5, PageFollows
<1> QED BY <1>10, <1>11

\* The page that starts a preparation is told of it like any other.
LEMMA StartPages ==
  ASSUME PageInv, SessionInv, SessionInv', NEW n \in 1 .. Len(Labels), StartPipeline(n)
  PROVE  PageInv'
<1>1. /\ prep'.gen = prep.gen + 1 /\ prep'.status = "running" /\ prep'.from = prep.to + 1 /\ prep'.to = prep.to
      /\ sent' = Append(sent, StateMessage(prep')) /\ page' = [page EXCEPT !.starting = prep.gen + 1]
      /\ page.loaded /\ page.state.status # "running" /\ page.state.gen >= page.starting
  BY StartIs
<1>2. Numbers(prep) /\ Numbers(prep') BY DEF SessionInv, SessionTyped, Numbers
<1>3. PageTyped /\ page.gen \in Nat /\ page.gen <= prep.gen BY FollowsIs DEF PageTyped
<1>4. PICK t \in [0 .. Len(sent) -> Int] : Follows(sent, t, prep, page) BY FollowsIs
<1>5. LinesAre(sent, t, prep) /\ StatesAre(sent, t, prep) /\ SnapshotsAre(sent, t, prep, page) /\ Shows(sent, t, prep, page)
      /\ sent \in Seq(Elems(sent))
  BY <1>1, <1>4 DEF Follows, LinesAre
<1>6. page.gen = prep.gen /\ prep.status # "running" /\ t[0] = prep.to
  <2>1. page.state.gen = page.gen /\ NotAhead(page.state, prep) /\ (page.gen = prep.gen \/ page.starting = prep.gen)
    BY <1>5 DEF Shows
  <2>2. page.gen = prep.gen BY <1>1, <1>2, <1>3, <2>1 DEF Numbers
  <2> QED BY <1>1, <1>5, <2>1, <2>2 DEF Shows, NotAhead
<1>7. /\ DOMAIN page' = DOMAIN page /\ page'.mount = page.mount /\ page'.on = page.on /\ page'.asks = page.asks
      /\ page'.loaded = page.loaded /\ page'.starting = prep'.gen /\ page'.gen = page.gen /\ page'.last = page.last
      /\ page'.early = page.early /\ page'.batch = page.batch /\ page'.log = page.log /\ page'.state = page.state
  BY <1>1, <1>3 DEF PageTyped
<1>8. PageTyped'
  <2>1. page'.gen \in Nat /\ page'.gen <= prep'.gen /\ page'.starting \in Nat /\ page'.starting <= prep'.gen
    BY <1>1, <1>2, <1>3, <1>7 DEF Numbers
  <2> QED BY <1>3, <1>7, <2>1 DEF PageTyped
<1>9. PICK m : m = StateMessage(prep') OBVIOUS
<1>10. m.is = "state" /\ m.state = State(prep') BY <1>9 DEF StateMessage
<1>11. Sends(m, prep, prep') BY <1>1, <1>2, <1>10 DEF Sends, Numbers
<1>12. PICK u : u = Grown(sent, t, prep') OBVIOUS
<1>13. /\ u \in [0 .. Len(sent) + 1 -> Int] /\ LinesAre(Append(sent, m), u, prep')
       /\ (\A i \in 0 .. Len(sent) : u[i] = t[i]) /\ u[Len(sent) + 1] = prep'.to
  <2>1. LinesAre(sent, t, prep) /\ prep'.from - 1 <= t[0] BY <1>1, <1>2, <1>5, <1>6 DEF Numbers
  <2>2. PICK q : q = prep' OBVIOUS
  <2>3. Numbers(prep) /\ Numbers(q) /\ Sends(m, prep, q) /\ q.from - 1 <= t[0] /\ u = Grown(sent, t, q)
    BY <1>2, <1>11, <1>12, <2>1, <2>2
  <2>4. t \in [0 .. Len(sent) -> Int] BY <1>4
  <2>5. /\ u \in [0 .. Len(sent) + 1 -> Int] /\ LinesAre(Append(sent, m), u, q)
        /\ (\A i \in 0 .. Len(sent) : u[i] = t[i]) /\ u[Len(sent) + 1] = q.to
    BY <2>1, <2>3, <2>4, LinesGrow
  <2> QED BY <2>2, <2>5
<1>14. StatesAre(Append(sent, m), u, prep') BY <1>2, <1>5, <1>11, <1>13, StatesGrow
<1>15. SnapshotsAre(Append(sent, m), u, prep', page') BY <1>1, <1>5, <1>7, <1>10, <1>13, SnapshotsGrow
<1>16. Shows(Append(sent, m), u, prep', page')
  <2>1. u[Len(sent) + 1] = prep.to BY <1>1, <1>13
  <2> QED BY <1>1, <1>2, <1>3, <1>5, <1>7, <1>9, <1>13, <2>1, ShowsStart
<1>17. Len(Append(sent, m)) = Len(sent) + 1 BY <1>5, Appended
<1>18. \E v \in [0 .. Len(sent') -> Int] : Follows(sent', v, prep', page')
  BY <1>1, <1>7, <1>9, <1>13, <1>14, <1>15, <1>16, <1>17 DEF Follows
<1> QED BY <1>8, <1>18, PageFollows

\* The snapshot is sent once, and has the lines sent before it.
LEMMA AnswerPages == ASSUME PageInv, SessionInv, SessionInv', AnswerRead PROVE PageInv'
<1>1. PICK m : m = [is |-> "snapshot", for |-> page.mount, state |-> State(prep), log |-> Log(prep)] OBVIOUS
<1>2. /\ page.asks /\ sent' = Append(sent, m) /\ page' = [page EXCEPT !.asks = FALSE] /\ UNCHANGED prep
  BY <1>1 DEF AnswerRead, Page
<1>3. Numbers(prep) BY NumbersAre
<1>4. PageTyped /\ ~page.loaded /\ page.on /\ page.mount \in Nat BY <1>2, FollowsIs DEF PageTyped
<1>5. PICK t \in [0 .. Len(sent) -> Int] : Follows(sent, t, prep, page) BY FollowsIs
<1>6. LinesAre(sent, t, prep) /\ StatesAre(sent, t, prep) /\ SnapshotsAre(sent, t, prep, page) /\ HeardEarly(t, prep, page)
      /\ sent \in Seq(Elems(sent))
  BY <1>4, <1>5 DEF Follows, LinesAre
<1>7. /\ DOMAIN page' = DOMAIN page /\ page'.mount = page.mount /\ page'.on = page.on /\ page'.asks = FALSE
      /\ page'.loaded = page.loaded /\ page'.starting = page.starting /\ page'.gen = page.gen /\ page'.last = page.last
      /\ page'.early = page.early /\ page'.batch = page.batch /\ page'.log = page.log
  BY <1>2, <1>4 DEF PageTyped
<1>8. PageTyped' BY <1>2, <1>4, <1>7 DEF PageTyped
<1>9. m.is = "snapshot" /\ m.for = page.mount /\ m.state = State(prep) /\ m.log = Log(prep) /\ m.state.gen = prep.gen
  BY <1>1 DEF State
<1>10. Sends(m, prep, prep) BY <1>3, <1>9 DEF Sends, Numbers
<1>11. PICK u : u = Grown(sent, t, prep) OBVIOUS
<1>12. /\ u \in [0 .. Len(sent) + 1 -> Int] /\ LinesAre(Append(sent, m), u, prep)
       /\ (\A i \in 0 .. Len(sent) : u[i] = t[i]) /\ u[Len(sent) + 1] = prep.to
  <2>1. prep.from - 1 <= t[0] BY <1>6 DEF LinesAre
  <2> QED BY <1>3, <1>6, <1>10, <1>11, <2>1, LinesGrow
<1>13. StatesAre(Append(sent, m), u, prep) BY <1>3, <1>6, <1>10, <1>12, StatesGrow
<1>14. /\ Len(sent) \in Nat /\ Len(Append(sent, m)) = Len(sent) + 1
       /\ \A i \in 1 .. Len(sent) : Append(sent, m)[i] = sent[i]
       /\ Append(sent, m)[Len(sent) + 1] = m
       /\ \A i \in 1 .. Len(sent) + 1 : i = Len(sent) + 1 \/ i \in 1 .. Len(sent)
  BY <1>6, Appended
<1>15. SnapshotsAre(Append(sent, m), u, prep, page')
  <2>1. PICK r : r = Append(sent, m) OBVIOUS
  <2>2. ASSUME NEW i \in 1 .. Len(r), r[i].is = "snapshot" PROVE r[i].for \in Nat /\ r[i].for <= page'.mount
    <3>1. i = Len(sent) + 1 \/ i \in 1 .. Len(sent) BY <1>14, <2>1
    <3>2. CASE i \in 1 .. Len(sent) BY <1>6, <1>7, <1>14, <2>1, <2>2, <3>2 DEF SnapshotsAre
    <3>3. CASE i = Len(sent) + 1 BY <1>4, <1>7, <1>9, <1>14, <2>1, <3>3
    <3> QED BY <3>1, <3>2, <3>3
  <2>3. ASSUME NEW i \in 1 .. Len(r), r[i].is = "snapshot", r[i].for = page'.mount PROVE i = Len(sent) + 1
    <3>1. i = Len(sent) + 1 \/ i \in 1 .. Len(sent) BY <1>14, <2>1
    <3>2. CASE i \in 1 .. Len(sent)
      <4>1. sent[i].is = "snapshot" /\ sent[i].for = page.mount BY <1>7, <1>14, <2>1, <2>3, <3>2
      <4> QED BY <1>2, <1>4, <1>6, <3>2, <4>1 DEF SnapshotsAre
    <3> QED BY <3>1, <3>2
  <2>4. IsRun(m.log, First(prep.from, u[Len(sent) + 1]), u[Len(sent) + 1]) BY <1>9, <1>12, LogIs
  <2>5. ASSUME NEW i \in 1 .. Len(r), page'.on, r[i].is = "snapshot", r[i].for = page'.mount
        PROVE  /\ ~page'.asks /\ ~page'.loaded /\ r[i].state.gen = prep.gen /\ IsRun(r[i].log, First(prep.from, u[i]), u[i])
               /\ \A j \in 1 .. Len(r) : r[j].is = "snapshot" /\ r[j].for = page'.mount => i = j
    <3>1. i = Len(sent) + 1 /\ r[i] = m BY <1>14, <2>1, <2>3, <2>5
    <3>2. \A j \in 1 .. Len(r) : r[j].is = "snapshot" /\ r[j].for = page'.mount => i = j BY <2>3, <3>1
    <3>3. ~page'.asks /\ ~page'.loaded BY <1>4, <1>7
    <3>4. r[i].state.gen = prep.gen /\ IsRun(r[i].log, First(prep.from, u[i]), u[i]) BY <1>9, <2>4, <3>1
    <3> QED BY <3>2, <3>3, <3>4
  <2> QED BY <2>1, <2>2, <2>5 DEF SnapshotsAre
<1>16. HeardEarly(u, prep, page')
  <2>1. 0 \in 0 .. Len(sent) BY <1>14
  <2> QED BY <1>6, <1>7, <1>12, <2>1 DEF HeardEarly
<1>17. \E v \in [0 .. Len(sent') -> Int] : Follows(sent', v, prep', page')
  BY <1>2, <1>4, <1>7, <1>12, <1>13, <1>14, <1>15, <1>16 DEF Follows
<1> QED BY <1>8, <1>17, PageFollows

-------------------------------------------------------------------------------
(* The page's steps. *)

\* The fields of a page that is not there.
LEMMA AwayIs ==
  /\ DOMAIN Away = {"mount", "on", "asks", "loaded", "starting", "gen", "last", "early", "batch", "log", "state"}
  /\ Away.mount = 0 /\ Away.on = FALSE /\ Away.asks = FALSE /\ Away.loaded = FALSE /\ Away.starting = 0 /\ Away.gen = 0
  /\ Away.last = 0 /\ Away.early = <<>> /\ Away.batch = <<>> /\ Away.log = <<>>
BY DEF Away

\* A page that is just there, or gone.
LEMMA NewPages ==
  ASSUME PageInv, SessionInv, SessionInv', UNCHANGED <<sent, prep>>, DOMAIN page' = DOMAIN Away,
         page'.mount \in Nat, page'.mount > page.mount \/ (page'.mount = page.mount /\ page'.on = FALSE),
         page'.on \in BOOLEAN, page'.asks = page'.on, page'.loaded = FALSE, page'.starting = 0, page'.gen = 0,
         page'.early = <<>>, page'.batch = <<>>, page'.log = <<>>
  PROVE  PageInv'
<1>1. Numbers(prep) /\ PageTyped BY NumbersAre, FollowsIs
<1>2. PICK t \in [0 .. Len(sent) -> Int] : Follows(sent, t, prep, page) BY FollowsIs
<1>3. LinesAre(sent, t, prep) /\ StatesAre(sent, t, prep) /\ SnapshotsAre(sent, t, prep, page) BY <1>2 DEF Follows
<1>4. <<>> \in Seq(Nat) /\ Len(<<>>) = 0 /\ 0 <= Kept BY EmptySeq, KeptIs
<1>5. PageTyped'
  <2>1. DOMAIN page' = {"mount", "on", "asks", "loaded", "starting", "gen", "last", "early", "batch", "log", "state"}
    BY AwayIs
  <2>2. 0 <= prep'.gen BY <1>1 DEF Numbers
  <2>3. page'.log \in Seq(Nat) /\ Len(page'.log) <= Kept /\ page'.early \in Seq(Nat) /\ page'.batch \in Seq(Nat) BY <1>4
  <2>4. page'.mount \in Nat /\ page'.on \in BOOLEAN /\ page'.asks \in BOOLEAN /\ page'.loaded \in BOOLEAN
    <3>1. page'.mount \in Nat /\ page'.on \in BOOLEAN OBVIOUS
    <3>2. page'.asks \in BOOLEAN BY <3>1
    <3>3. page'.loaded \in BOOLEAN OBVIOUS
    <3> QED BY <3>1, <3>2, <3>3
  <2>5. page'.gen \in Nat /\ page'.gen <= prep'.gen /\ page'.starting \in Nat /\ page'.starting <= prep'.gen BY <2>2
  <2>6. ~page'.on => ~page'.loaded /\ ~page'.asks /\ page'.early = <<>> OBVIOUS
  <2>7. page'.asks => ~page'.loaded OBVIOUS
  <2>8. ~page'.loaded => page'.batch = <<>> /\ page'.log = <<>> OBVIOUS
  <2> QED BY <2>1, <2>3, <2>4, <2>5, <2>6, <2>7, <2>8 DEF PageTyped
<1>6. SnapshotsAre(sent, t, prep, page')
  <2>1. \A i \in 1 .. Len(sent) : sent[i].is = "snapshot" =>
          sent[i].for \in Nat /\ sent[i].for <= page'.mount /\ (page'.on => sent[i].for # page'.mount)
    <3>1. page.mount \in Nat BY <1>1 DEF PageTyped
    <3> QED BY <1>3, <3>1 DEF SnapshotsAre
  <2> QED BY <2>1 DEF SnapshotsAre
<1>7. HeardEarly(t, prep, page')
  <2>1. 0 \in 0 .. Len(sent)
    <3>1. Len(sent) \in Nat BY <1>3, LenProperties DEF LinesAre
    <3> QED BY <3>1
  <2>2. t[0] \in Int /\ prep.from - 1 <= t[0] BY <1>3, <2>1 DEF LinesAre
  <2>3. t[0] - Len(<<>>) + 1 \in Int /\ t[0] - Len(<<>>) + 1 = t[0] + 1 BY <1>4, <2>2
  <2>4. IsRun(<<>>, t[0] - Len(<<>>) + 1, t[0]) BY <2>2, <2>3, EmptyRun
  <2> QED BY <1>1, <2>2, <2>3, <2>4 DEF HeardEarly, Numbers
<1>8. \E v \in [0 .. Len(sent') -> Int] : Follows(sent', v, prep', page') BY <1>2, <1>3, <1>6, <1>7 DEF Follows
<1> QED BY <1>5, <1>8, PageFollows

\* A page mounts, or goes; its old snapshot is not for the next one.
LEMMA MountPages == ASSUME PageInv, SessionInv, SessionInv', Mount PROVE PageInv'
<1>1. page' = [Away EXCEPT !.mount = page.mount + 1, !.on = TRUE, !.asks = TRUE] /\ UNCHANGED <<sent, prep>>
  BY DEF Mount, Page
<1>2. page.mount \in Nat BY FollowsIs DEF PageTyped
<1>3. /\ DOMAIN page' = DOMAIN Away /\ page'.mount = page.mount + 1 /\ page'.on = TRUE /\ page'.asks = TRUE
      /\ page'.loaded = Away.loaded /\ page'.starting = Away.starting /\ page'.gen = Away.gen
      /\ page'.early = Away.early /\ page'.batch = Away.batch /\ page'.log = Away.log
  BY <1>1, AwayIs
<1>4. page'.mount \in Nat /\ page'.mount > page.mount BY <1>2, <1>3
<1> QED BY <1>1, <1>3, <1>4, AwayIs, NewPages

LEMMA UnmountPages == ASSUME PageInv, SessionInv, SessionInv', Unmount PROVE PageInv'
<1>1. page' = [Away EXCEPT !.mount = page.mount] /\ UNCHANGED <<sent, prep>> BY DEF Unmount, Page
<1>2. page.mount \in Nat BY FollowsIs DEF PageTyped
<1>3. /\ DOMAIN page' = DOMAIN Away /\ page'.mount = page.mount /\ page'.on = Away.on /\ page'.asks = Away.asks
      /\ page'.loaded = Away.loaded /\ page'.starting = Away.starting /\ page'.gen = Away.gen
      /\ page'.early = Away.early /\ page'.batch = Away.batch /\ page'.log = Away.log
  BY <1>1, AwayIs
<1> QED BY <1>1, <1>2, <1>3, AwayIs, NewPages

\* No more than Kept lines are shown.
LEMMA LastOfIs == ASSUME NEW s \in Seq(Nat) PROVE LastOf(s, Kept) \in Seq(Nat) /\ Len(LastOf(s, Kept)) <= Kept
<1>K. Kept \in Nat /\ 0 < Kept BY KeptIs
<1>1. PICK m : m = IF Len(s) > Kept THEN Len(s) - Kept + 1 ELSE 1 OBVIOUS
<1>2. Len(s) \in Nat BY LenProperties
<1>3. m \in Int /\ Len(s) \in Int /\ (\A i \in m .. Len(s) : i \in 1 .. Len(s)) /\ Len(s) - m + 1 <= Kept
  BY <1>1, <1>2, <1>K
<1>4. \A i \in m .. Len(s) : s[i] \in Nat BY <1>3, ElementOfSeq
<1>5. SubSeq(s, m, Len(s)) \in Seq(Nat) /\ Len(SubSeq(s, m, Len(s))) = IF m <= Len(s) THEN Len(s) - m + 1 ELSE 0
  BY <1>3, <1>4, SubSeqProperties
<1>6. LastOf(s, Kept) = SubSeq(s, m, Len(s)) BY <1>1 DEF LastOf
<1> QED BY <1>K, <1>2, <1>3, <1>5, <1>6

\* Flushed lines join those shown, of which the last Kept stay.
LEMMA FlushPages == ASSUME PageInv, SessionInv, SessionInv', Flush PROVE PageInv'
<1> DEFINE log == LastOf(page.log \o page.batch, Kept)
<1>1. page.batch # <<>> /\ page' = [page EXCEPT !.batch = <<>>, !.log = log] /\ UNCHANGED <<sent, prep>>
  BY DEF Flush, Page
<1> HIDE DEF log
<1>2. Numbers(prep) /\ PageTyped BY NumbersAre, FollowsIs
<1>3. PICK t \in [0 .. Len(sent) -> Int] : Follows(sent, t, prep, page) BY FollowsIs
<1>4. page.loaded /\ page.on BY <1>1, <1>2 DEF PageTyped
<1>5. LinesAre(sent, t, prep) /\ StatesAre(sent, t, prep) /\ SnapshotsAre(sent, t, prep, page) /\ Shows(sent, t, prep, page)
  BY <1>3, <1>4 DEF Follows
<1>6. /\ DOMAIN page' = DOMAIN page /\ page'.mount = page.mount /\ page'.on = page.on /\ page'.asks = page.asks
      /\ page'.loaded = page.loaded /\ page'.starting = page.starting /\ page'.gen = page.gen /\ page'.last = page.last
      /\ page'.early = page.early /\ page'.batch = <<>> /\ page'.log = log /\ page'.state = page.state
  BY <1>1, <1>2 DEF PageTyped
<1>7. log \in Seq(Nat) /\ Len(log) <= Kept
  <2>1. page.log \o page.batch \in Seq(Nat) BY <1>2, ConcatProperties DEF PageTyped
  <2> QED BY <2>1, LastOfIs DEF log
<1>8. PageTyped'
  <2>1. DOMAIN page' = {"mount", "on", "asks", "loaded", "starting", "gen", "last", "early", "batch", "log", "state"}
    BY <1>2, <1>6 DEF PageTyped
  <2>2. page'.mount \in Nat /\ page'.on \in BOOLEAN /\ page'.asks \in BOOLEAN /\ page'.loaded \in BOOLEAN
    BY <1>2, <1>6 DEF PageTyped
  <2>3. page'.gen \in Nat /\ page'.gen <= prep'.gen /\ page'.starting \in Nat /\ page'.starting <= prep'.gen
    BY <1>1, <1>2, <1>6 DEF PageTyped
  <2>4. page'.log \in Seq(Nat) /\ Len(page'.log) <= Kept /\ page'.early \in Seq(Nat) /\ page'.batch \in Seq(Nat)
    <3>1. page.early \in Seq(Nat) BY <1>2 DEF PageTyped
    <3>2. <<>> \in Seq(Nat) BY EmptySeq
    <3> QED BY <1>6, <1>7, <3>1, <3>2
  <2>5. page'.on /\ page'.loaded BY <1>4, <1>6
  <2>6. page'.asks => ~page'.loaded BY <1>2, <1>6 DEF PageTyped
  <2> QED BY <2>1, <2>2, <2>3, <2>4, <2>5, <2>6 DEF PageTyped
<1>9. SnapshotsAre(sent, t, prep, page') BY <1>5, <1>6 DEF SnapshotsAre
<1>10. ASSUME page.gen = prep.gen
       PROVE  \E b \in 0 .. t[0] : prep.from <= b + 1 /\ IsRun(log, First(prep.from, b), b) /\ IsRun(<<>>, b + 1, t[0])
  <2>1. PICK b \in 0 .. t[0] : prep.from <= b + 1 /\ IsRun(page.log, First(prep.from, b), b) /\ IsRun(page.batch, b + 1, t[0])
    BY <1>5, <1>10 DEF Shows
  <2>2. t[0] \in Int
    <3>1. Len(sent) \in Nat BY <1>5, LenProperties DEF LinesAre
    <3>2. 0 \in 0 .. Len(sent) BY <3>1
    <3> QED BY <3>2
  <2>3. PICK c : c = t[0] OBVIOUS
  <2>4. b \in Int /\ c \in Int /\ b <= c /\ 0 <= b /\ prep.from <= c + 1 BY <1>2, <2>1, <2>2, <2>3 DEF Numbers
  <2>5. PICK a : a = First(prep.from, b) OBVIOUS
  <2>6. a \in Nat /\ prep.from <= a /\ a <= First(prep.from, c) BY <1>2, <2>1, <2>4, <2>5, FirstIs DEF Numbers
  <2>7. IsRun(page.log \o page.batch, a, c) BY <2>1, <2>3, <2>4, <2>5, <2>6, RunsJoin
  <2>8. IsRun(log, First(prep.from, c), c) BY <1>2, <2>4, <2>6, <2>7, RunKept DEF Numbers, log
  <2>9. IsRun(<<>>, c + 1, c)
    <3>1. c + 1 \in Int BY <2>4
    <3> QED BY <2>4, <3>1, EmptyRun
  <2>10. c \in 0 .. t[0] BY <2>3, <2>4
  <2> QED BY <2>3, <2>4, <2>8, <2>9, <2>10
<1>11. Shows(sent, t, prep, page') BY <1>5, <1>6, <1>10 DEF Shows
<1>12. \E v \in [0 .. Len(sent') -> Int] : Follows(sent', v, prep', page')
  BY <1>1, <1>3, <1>4, <1>5, <1>6, <1>9, <1>11 DEF Follows
<1> QED BY <1>8, <1>12, PageFollows

-------------------------------------------------------------------------------
(* A message arrives. *)

\* What a delivery changes, whoever hears it.
LEMMA DeliverIs ==
  ASSUME PageInv, SessionInv, sent # <<>>
  PROVE  \E t, u :
           /\ Follows(sent, t, prep, page) /\ LinesAre(sent, t, prep) /\ StatesAre(sent, t, prep)
           /\ SnapshotsAre(sent, t, prep, page) /\ sent \in Seq(Elems(sent)) /\ 1 \in 1 .. Len(sent) /\ Head(sent) = sent[1]
           /\ u \in [0 .. Len(Tail(sent)) -> Int] /\ LinesAre(Tail(sent), u, prep) /\ StatesAre(Tail(sent), u, prep)
           /\ (\A i \in 0 .. Len(sent) - 1 : u[i] = t[i + 1]) /\ t[1] = u[0]
           /\ u[0] = (IF Head(sent).is = "line" THEN t[0] + 1 ELSE t[0]) /\ u[0] \in Int /\ t[0] \in Nat /\ u[0] <= prep.to
           /\ Head(sent).is \in {"line", "state", "snapshot"} /\ (Head(sent).is = "line" => Head(sent).seq = u[0])
           /\ prep.from - 1 <= t[0] /\ (\A i, j \in 0 .. Len(sent) : i <= j => t[i] <= t[j])
<1>1. Numbers(prep) /\ prep.from # 0 BY NumbersAre DEF SessionInv, SessionTyped
<1>2. PICK t \in [0 .. Len(sent) -> Int] : Follows(sent, t, prep, page) BY FollowsIs
<1>3. LinesAre(sent, t, prep) /\ StatesAre(sent, t, prep) /\ SnapshotsAre(sent, t, prep, page) /\ sent \in Seq(Elems(sent))
  BY <1>2 DEF Follows, LinesAre
<1>4. Len(sent) \in Nat /\ Len(sent) # 0 /\ Head(sent) = sent[1] /\ 1 \in 1 .. Len(sent) BY <1>3, Delivered
<1>5. PICK u : u = Shifted(sent, t) OBVIOUS
<1>6. /\ u \in [0 .. Len(Tail(sent)) -> Int] /\ LinesAre(Tail(sent), u, prep)
      /\ \A i \in 0 .. Len(sent) - 1 : u[i] = t[i + 1]
      /\ u[0] = (IF Head(sent).is = "line" THEN t[0] + 1 ELSE t[0]) /\ u[0] \in Int /\ t[0] \in Int /\ u[0] <= prep.to
      /\ Head(sent).is \in {"line", "state", "snapshot"} /\ (Head(sent).is = "line" => Head(sent).seq = u[0])
      /\ prep.from - 1 <= t[0]
  BY <1>1, <1>2, <1>3, <1>5, LinesShrink
<1>7. StatesAre(Tail(sent), u, prep) BY <1>3, <1>6, StatesShrink
<1>8. t[1] = u[0]
  <2>1. 0 \in 0 .. Len(sent) - 1 /\ 0 + 1 = 1 BY <1>4
  <2> QED BY <1>6, <2>1
<1>9. t[0] \in Nat BY <1>1, <1>6 DEF Numbers
<1>10. \A i, j \in 0 .. Len(sent) : i <= j => t[i] <= t[j] BY <1>3 DEF LinesAre
<1> QED BY <1>2, <1>3, <1>4, <1>6, <1>7, <1>8, <1>9, <1>10

\* Who heard nothing hears nothing more.
LEMMA Unheard ==
  ASSUME NEW t, NEW u, NEW p, NEW g, Numbers(p), HeardEarly(t, p, g), t[0] \in Nat, u[0] \in Int,
         \/ u[0] = t[0]
         \/ g.early = <<>> /\ t[0] <= u[0]
  PROVE  HeardEarly(u, p, g)
<1>1. CASE u[0] = t[0] BY <1>1 DEF HeardEarly
<1>2. CASE g.early = <<>> /\ t[0] <= u[0]
  <2>1. Len(g.early) = 0 BY <1>2, EmptySeq
  <2>2. p.from <= u[0] + 1 BY <1>2, <2>1 DEF HeardEarly, Numbers
  <2>3. u[0] - Len(g.early) + 1 = u[0] + 1 /\ u[0] + 1 \in Int BY <2>1
  <2>4. IsRun(<<>>, u[0] + 1, u[0]) BY <2>3, EmptyRun
  <2> QED BY <1>2, <2>2, <2>3, <2>4 DEF HeardEarly
<1> QED BY <1>1, <1>2

\* A message, whatever it is and whatever the page has of it.
LEMMA DeliverPages == ASSUME PageInv, SessionInv, SessionInv', Deliver PROVE PageInv'
<1>1. PICK m : m = Head(sent) OBVIOUS
<1>2. /\ sent # <<>> /\ sent' = Tail(sent) /\ UNCHANGED prep
      /\ page' = IF ~page.on THEN page
                 ELSE CASE m.is = "line" -> OnLine(m.seq)
                        [] m.is = "state" -> OnState(m.state)
                        [] m.is = "snapshot" -> IF m.for = page.mount THEN OnSnapshot(m) ELSE page
  BY <1>1 DEF Deliver, Page
<1>3. Numbers(prep) /\ PageTyped BY NumbersAre, FollowsIs
<1>4. PICK t, u :
           /\ Follows(sent, t, prep, page) /\ LinesAre(sent, t, prep) /\ StatesAre(sent, t, prep)
           /\ SnapshotsAre(sent, t, prep, page) /\ sent \in Seq(Elems(sent)) /\ 1 \in 1 .. Len(sent) /\ m = sent[1]
           /\ u \in [0 .. Len(Tail(sent)) -> Int] /\ LinesAre(Tail(sent), u, prep) /\ StatesAre(Tail(sent), u, prep)
           /\ (\A i \in 0 .. Len(sent) - 1 : u[i] = t[i + 1]) /\ t[1] = u[0]
           /\ u[0] = (IF m.is = "line" THEN t[0] + 1 ELSE t[0]) /\ u[0] \in Int /\ t[0] \in Nat /\ u[0] <= prep.to
           /\ m.is \in {"line", "state", "snapshot"} /\ (m.is = "line" => m.seq = u[0])
           /\ prep.from - 1 <= t[0] /\ (\A i, j \in 0 .. Len(sent) : i <= j => t[i] <= t[j])
  BY <1>1, <1>2, DeliverIs
<1>5. t[0] <= u[0] /\ u[0] \in Nat BY <1>4
<1>S. /\ page.loaded => Shows(sent, t, prep, page)
      /\ ~page.loaded => HeardEarly(t, prep, page)
  BY <1>4 DEF Follows
<1>D. DOMAIN page = {"mount", "on", "asks", "loaded", "starting", "gen", "last", "early", "batch", "log", "state"}
  BY <1>3 DEF PageTyped
<1>N. ASSUME m.is # "line" PROVE NotAhead(m.state, prep) /\ m.state.gen \in Nat /\ m.state.gen <= prep.gen
  BY <1>4, <1>N DEF StatesAre, NotAhead
\* What is left to show of the page in each case.
<1>E. ASSUME PageTyped', page'.mount = page.mount, page'.on = page.on, page'.asks = page.asks,
             page'.loaded = page.loaded \/ (page.on /\ m.is = "snapshot" /\ m.for = page.mount),
             page'.loaded => Shows(Tail(sent), u, prep, page'), ~page'.loaded => HeardEarly(u, prep, page')
      PROVE  PageInv'
  <2>1. SnapshotsAre(Tail(sent), u, prep, page') BY <1>1, <1>2, <1>4, <1>E, SnapshotsShrink
  <2>2. Follows(Tail(sent), u, prep, page') BY <1>4, <1>E, <2>1 DEF Follows
  <2>3. \E v \in [0 .. Len(sent') -> Int] : Follows(sent', v, prep', page') BY <1>2, <1>4, <2>2
  <2> QED BY <1>E, <2>3, PageFollows
<1>6. CASE ~page.on
  <2>1. page' = page /\ ~page.loaded /\ page.early = <<>> BY <1>2, <1>3, <1>6 DEF PageTyped
  <2>2. PageTyped' BY <1>2, <1>3, <2>1 DEF PageTyped
  <2>3. HeardEarly(u, prep, page') BY <1>3, <1>4, <1>5, <1>S, <2>1, Unheard
  <2> QED BY <1>6, <1>E, <2>1, <2>2, <2>3
<1>7. CASE page.on /\ m.is = "line" /\ ~page.loaded
  <2>1. page' = [page EXCEPT !.early = Append(page.early, u[0])] BY <1>2, <1>4, <1>7 DEF OnLine
  <2>2. /\ DOMAIN page' = DOMAIN page /\ page'.mount = page.mount /\ page'.on = page.on /\ page'.asks = page.asks
        /\ page'.loaded = page.loaded /\ page'.starting = page.starting /\ page'.gen = page.gen /\ page'.last = page.last
        /\ page'.early = Append(page.early, u[0]) /\ page'.batch = page.batch /\ page'.log = page.log
    BY <1>D, <2>1
  <2>3. page.early \in Seq(Nat) BY <1>3 DEF PageTyped
  <2>4. Append(page.early, u[0]) \in Seq(Nat) /\ Len(Append(page.early, u[0])) = Len(page.early) + 1 /\ Len(page.early) \in Nat
    BY <1>5, <2>3, AppendProperties, LenProperties
  <2>5. PageTyped' BY <1>2, <1>3, <1>7, <2>2, <2>4 DEF PageTyped
  <2>6. PICK a : a = t[0] - Len(page.early) + 1 OBVIOUS
  <2>7. IsRun(page.early, a, t[0]) /\ prep.from <= a BY <1>7, <1>S, <2>6 DEF HeardEarly
  <2>8. a \in Nat /\ u[0] = t[0] + 1 /\ t[0] \in Int /\ t[0] + 1 \in Nat /\ a = u[0] - Len(Append(page.early, u[0])) + 1
    <3>1. u[0] = t[0] + 1 /\ t[0] \in Int /\ prep.from \in Nat BY <1>3, <1>4, <1>7 DEF Numbers
    <3>2. a \in Int /\ a = u[0] - Len(Append(page.early, u[0])) + 1
      <4>1. PICK x : x = Len(page.early) OBVIOUS
      <4>2. PICK y : y = Len(Append(page.early, u[0])) OBVIOUS
      <4>3. x \in Nat /\ y = x + 1 /\ a = t[0] - x + 1 BY <2>4, <2>6, <4>1, <4>2
      <4>4. a \in Int /\ a = u[0] - y + 1 BY <3>1, <4>3
      <4> QED BY <4>2, <4>4
    <3> QED BY <1>3, <1>4, <1>7, <2>7, <3>1, <3>2 DEF Numbers
  <2>9. IsRun(Append(page.early, u[0]), a, u[0]) BY <2>7, <2>8, RunGrows
  <2>10. HeardEarly(u, prep, page') BY <2>2, <2>7, <2>8, <2>9 DEF HeardEarly
  <2> QED BY <1>7, <1>E, <2>2, <2>5, <2>10
<1>8. CASE page.on /\ m.is = "line" /\ page.loaded
  <2>1. Shows(sent, t, prep, page) BY <1>8, <1>S
  <2>2. page.last \in Nat /\ page.last <= t[0] /\ u[0] = t[0] + 1 BY <1>4, <1>8, <2>1 DEF Shows
  <2>3. ~(u[0] <= page.last) BY <1>4, <2>2
  <2>4. page' = [page EXCEPT !.last = u[0], !.batch = Append(page.batch, u[0])] BY <1>2, <1>4, <1>8, <2>3 DEF OnLine
  <2>5. /\ DOMAIN page' = DOMAIN page /\ page'.mount = page.mount /\ page'.on = page.on /\ page'.asks = page.asks
        /\ page'.loaded = page.loaded /\ page'.starting = page.starting /\ page'.gen = page.gen /\ page'.last = u[0]
        /\ page'.early = page.early /\ page'.batch = Append(page.batch, u[0]) /\ page'.log = page.log
        /\ page'.state = page.state
    BY <1>D, <2>4
  <2>6. Append(page.batch, u[0]) \in Seq(Nat)
    <3>1. page.batch \in Seq(Nat) BY <1>3 DEF PageTyped
    <3> QED BY <1>5, <3>1, AppendProperties
  <2>7. PageTyped' BY <1>2, <1>3, <1>8, <2>5, <2>6 DEF PageTyped
  <2>8. Shows(Tail(sent), u, prep, page')
    <3>1. Head(sent).is = "line" /\ t[0] \in Int BY <1>1, <1>4, <1>8
    <3> QED BY <1>2, <1>3, <1>4, <2>1, <2>2, <2>5, <3>1, ShowsLine
  <2> QED BY <1>8, <1>E, <2>5, <2>7, <2>8
<1>9. CASE page.on /\ m.is = "state" /\ page.loaded
  <2>1. page' = IF m.state.gen # page.gen THEN Cleared([[page EXCEPT !.state = m.state] EXCEPT !.gen = m.state.gen])
                ELSE [page EXCEPT !.state = m.state]
    BY <1>2, <1>9 DEF OnState
  <2>2. /\ DOMAIN page' = DOMAIN page /\ page'.mount = page.mount /\ page'.on = page.on /\ page'.asks = page.asks
        /\ page'.loaded = page.loaded /\ page'.starting = page.starting /\ page'.last = page.last
        /\ page'.early = page.early /\ page'.state = m.state
    BY <1>D, <2>1 DEF Cleared
  <2>3. page'.gen = m.state.gen BY <1>D, <2>1 DEF Cleared
  <2>4. IF m.state.gen = page.gen THEN page'.log = page.log /\ page'.batch = page.batch
        ELSE page'.log = <<>> /\ page'.batch = <<>>
    BY <1>D, <2>1 DEF Cleared
  <2>5. m.state.gen \in Nat /\ m.state.gen <= prep.gen BY <1>9, <1>N
  <2>6. page'.log \in Seq(Nat) /\ Len(page'.log) <= Kept /\ page'.batch \in Seq(Nat)
    <3>1. <<>> \in Seq(Nat) /\ Len(<<>>) = 0 /\ 0 <= Kept BY EmptySeq, KeptIs
    <3>2. page.log \in Seq(Nat) /\ Len(page.log) <= Kept /\ page.batch \in Seq(Nat) BY <1>3 DEF PageTyped
    <3> QED BY <2>4, <3>1, <3>2
  <2>7. PageTyped' BY <1>2, <1>3, <1>9, <2>2, <2>3, <2>5, <2>6 DEF PageTyped
  <2>8. Shows(Tail(sent), u, prep, page')
    <3>1. Head(sent).is = "state" /\ t[0] \in Int /\ u[0] = t[0] /\ t[1] = t[0] BY <1>1, <1>4, <1>9
    <3>2. page.gen \in Nat /\ page.gen <= prep.gen BY <1>3 DEF PageTyped
    <3>3. Shows(sent, t, prep, page) BY <1>9, <1>S
    <3>4. /\ page'.state = Head(sent).state /\ page'.gen = Head(sent).state.gen
          /\ IF Head(sent).state.gen = page.gen THEN page'.log = page.log /\ page'.batch = page.batch
             ELSE page'.log = <<>> /\ page'.batch = <<>>
      BY <1>1, <2>2, <2>3, <2>4
    <3> QED BY <1>2, <1>3, <1>4, <2>2, <3>1, <3>2, <3>3, <3>4, ShowsState
  <2> QED BY <1>9, <1>E, <2>2, <2>7, <2>8
<1>10. CASE page.on /\ m.is = "state" /\ ~page.loaded
  <2>1. page' = [page EXCEPT !.state = m.state] BY <1>2, <1>10 DEF OnState
  <2>2. /\ DOMAIN page' = DOMAIN page /\ page'.mount = page.mount /\ page'.on = page.on /\ page'.asks = page.asks
        /\ page'.loaded = page.loaded /\ page'.starting = page.starting /\ page'.gen = page.gen /\ page'.last = page.last
        /\ page'.early = page.early /\ page'.batch = page.batch /\ page'.log = page.log
    BY <1>D, <2>1
  <2>3. PageTyped' BY <1>2, <1>3, <2>2 DEF PageTyped
  <2>4. u[0] = t[0] BY <1>4, <1>10
  <2>5. HeardEarly(u, prep, page') BY <1>10, <1>S, <2>2, <2>4 DEF HeardEarly
  <2> QED BY <1>10, <1>E, <2>2, <2>3, <2>5
<1>11. CASE page.on /\ m.is = "snapshot" /\ m.for = page.mount
  <2>1. page' = OnSnapshot(m) BY <1>2, <1>11
  <2>2. u[0] = t[0] /\ t[1] = t[0] BY <1>4, <1>11
  <2>3. ~page.asks /\ ~page.loaded /\ m.state.gen = prep.gen /\ IsRun(m.log, First(prep.from, t[0]), t[0])
    BY <1>4, <1>11, <2>2 DEF SnapshotsAre
  <2>4. IsRun(page.early, t[0] - Len(page.early) + 1, t[0]) /\ prep.from <= t[0] - Len(page.early) + 1
    BY <1>S, <2>3 DEF HeardEarly
  <2>5. prep.from <= t[0] + 1 BY <1>3, <1>4 DEF Numbers
  <2>6. PICK c : c = t[0] OBVIOUS
  <2>7. /\ page'.log \in Seq(Nat) /\ Len(page'.log) <= Kept
        /\ IsRun(page'.log, First(prep.from, c), c)
        /\ page'.last \in Nat /\ page'.last <= c
        /\ DOMAIN page' = DOMAIN page /\ page'.mount = page.mount /\ page'.on = page.on
        /\ page'.asks = page.asks /\ page'.loaded = TRUE /\ page'.starting = page.starting
        /\ page'.gen = m.state.gen /\ page'.state = m.state /\ page'.early = <<>>
        /\ page'.batch = page.batch
    <3>1. c \in Nat BY <1>4, <2>6
    <3> QED BY <1>3, <2>1, <2>3, <2>4, <2>5, <2>6, <3>1, SnapshotIs
  <2>8. page.batch = <<>> BY <1>3, <2>3 DEF PageTyped
  <2>9. PageTyped'
    <3>1. DOMAIN page' = {"mount", "on", "asks", "loaded", "starting", "gen", "last", "early", "batch", "log", "state"}
      BY <1>D, <2>7
    <3>2. page'.mount \in Nat /\ page'.on \in BOOLEAN /\ page'.asks \in BOOLEAN /\ page'.loaded \in BOOLEAN
      BY <1>3, <2>7 DEF PageTyped
    <3>3. page'.gen \in Nat /\ page'.gen <= prep'.gen /\ page'.starting \in Nat /\ page'.starting <= prep'.gen
      <4>1. page.starting \in Nat /\ page.starting <= prep.gen BY <1>3 DEF PageTyped
      <4>2. prep.gen \in Nat /\ prep'.gen = prep.gen BY <1>2, <1>3 DEF Numbers
      <4>3. page'.gen = prep.gen BY <2>3, <2>7
      <4> QED BY <2>7, <4>1, <4>2, <4>3
    <3>4. page'.log \in Seq(Nat) /\ Len(page'.log) <= Kept /\ page'.early \in Seq(Nat) /\ page'.batch \in Seq(Nat)
      <4>1. <<>> \in Seq(Nat) BY EmptySeq
      <4> QED BY <2>7, <2>8, <4>1
    <3>5. page'.on /\ page'.loaded /\ ~page'.asks BY <1>11, <2>3, <2>7
    <3> QED BY <3>1, <3>2, <3>3, <3>4, <3>5 DEF PageTyped
  <2>10. Shows(Tail(sent), u, prep, page')
    <3>1. Head(sent).is = "snapshot" /\ Head(sent).state.gen = prep.gen /\ page'.state = Head(sent).state
      BY <1>1, <1>11, <2>3, <2>7
    <3>2. page'.gen = prep.gen /\ page'.batch = <<>> /\ page'.last \in Nat /\ page'.last <= t[0]
          /\ IsRun(page'.log, First(prep.from, t[0]), t[0])
      BY <2>3, <2>6, <2>7, <2>8
    <3> QED BY <1>2, <1>3, <1>4, <2>2, <3>1, <3>2, ShowsSnapshot
  <2>11. page'.loaded = (page.loaded \/ (page.on /\ m.is = "snapshot" /\ m.for = page.mount)) BY <1>11, <2>7
  <2> QED BY <1>E, <2>7, <2>9, <2>10, <2>11
<1>12. CASE page.on /\ m.is = "snapshot" /\ m.for # page.mount
  <2>1. page' = page BY <1>2, <1>12
  <2>2. PageTyped' BY <1>2, <1>3, <2>1 DEF PageTyped
  <2>3. u[0] = t[0] BY <1>4, <1>12
  <2>4. page.loaded => Shows(Tail(sent), u, prep, page)
    <3>1. Head(sent).is = "snapshot" BY <1>1, <1>12
    <3> QED BY <1>2, <1>4, <1>S, <2>3, <3>1, ShowsOther
  <2>5. ~page.loaded => HeardEarly(u, prep, page) BY <1>S, <2>3 DEF HeardEarly
  <2>6. page.loaded = (page.loaded \/ (page.on /\ m.is = "snapshot" /\ m.for = page.mount)) BY <1>3, <1>12 DEF PageTyped
  <2> QED BY <1>E, <2>1, <2>2, <2>4, <2>5, <2>6
<1> QED BY <1>4, <1>6, <1>7, <1>8, <1>9, <1>10, <1>11, <1>12

-------------------------------------------------------------------------------
(* The steps together. *)

\* A page that may start a preparation shows the end of the last one.
LEMMA StartsWhenOver ==
  ASSUME PageInv, SessionInv, NEW n \in 1 .. Len(Labels), StartPipeline(n)
  PROVE  prep.status # "running"
<1>1. page.loaded /\ page.state.status # "running" /\ page.state.gen >= page.starting BY StartIs
<1>2. Numbers(prep) /\ PageTyped BY NumbersAre, FollowsIs
<1>3. PICK t \in [0 .. Len(sent) -> Int] : Follows(sent, t, prep, page) BY FollowsIs
<1>4. Shows(sent, t, prep, page) BY <1>1, <1>3 DEF Follows
<1>5. page.state.gen = page.gen /\ NotAhead(page.state, prep) /\ (page.gen = prep.gen \/ page.starting = prep.gen)
  BY <1>4 DEF Shows
<1>6. page.gen = prep.gen BY <1>1, <1>2, <1>5 DEF Numbers, PageTyped
<1> QED BY <1>1, <1>5, <1>6 DEF NotAhead

\* The initial states.
LEMMA StartsKnown ==
  ASSUME PrepInit
  PROVE  SessionInv
<1> USE DEF PrepInit, Idle, NoProcessor, InitProgress
<1>1. <<>> \in Seq(Lines) /\ <<>> \in Seq(Names) /\ Len(<<>>) = 0 /\ Elems(<<>>) = {} /\ Len(<<>>) \in Nat
  BY EmptySeq DEF Elems
<1>2. ProcessorTyped
  <2>1. processor \in Processors
    <3>1. MaxAttempts \in Nat BY PreparationAssumption
    <3>2. 0 \in 0 .. MaxAttempts /\ {} \in SUBSET Names BY <3>1
    <3>3. processor = [gen |-> 0, pc |-> "exited", todo |-> <<>>, ran |-> FALSE,
                       attempt |-> 0, deaf |-> FALSE, failed |-> {}, code |-> 0, done |-> FALSE]
      OBVIOUS
    <3> QED BY <1>1, <3>2, <3>3 DEF Processors, ProcessorPlaces
  <2>2. onDisk \in [Names -> {"absent", "partial", "prepared"}] BY DEF Names
  <2> QED BY <1>1, <2>1, <2>2 DEF ProcessorTyped
<1>3. SessionTyped
  <2>1. DOMAIN prep.progress.by = {} /\ prep.progress.by \in [DOMAIN prep.progress.by -> Backup] OBVIOUS
  <2>2. child \in [running : BOOLEAN, answer : BOOLEAN, ends : BOOLEAN] OBVIOUS
  <2>3. DOMAIN prep = {"gen", "status", "progress", "passwordFor", "result", "from", "to", "soon"} OBVIOUS
  <2>4. DOMAIN prep.progress = {"current", "by"} /\ prep.progress.current = None OBVIOUS
  <2>5. /\ prep.gen \in Nat /\ prep.status = "idle" /\ prep.passwordFor = None /\ prep.result = None /\ prep.soon \in BOOLEAN
        /\ prep.from \in Nat \ {0} /\ prep.to \in Nat /\ prep.from <= prep.to + 1
    OBVIOUS
  <2> QED BY <2>1, <2>2, <2>3, <2>4, <2>5 DEF SessionTyped
<1>4. OnePreparation /\ SummaryKnown /\ Prompted BY DEF OnePreparation, SummaryKnown, Prompted
<1>5. TodoKnown BY <1>1 DEF TodoKnown, AtBackup
<1>6. LinesKnown BY <1>1 DEF LinesKnown, AtBackup
<1> QED BY <1>2, <1>3, <1>4, <1>5, <1>6 DEF SessionInv

LEMMA StartsFollowed ==
  ASSUME PrepInit
  PROVE  PageInv
<1>1. prep = Idle /\ sent = <<>> /\ page = Away BY DEF PrepInit
<1>2. prep.gen = 0 /\ prep.from = 1 /\ prep.to = 0 BY <1>1 DEF Idle
<1>3. <<>> \in Seq(Nat) /\ Len(<<>>) = 0 /\ sent \in Seq(Elems(sent)) BY <1>1, EmptySeq
<1>4. PICK t : t = [i \in 0 .. 0 |-> 0] OBVIOUS
<1>5. t[0] = 0 /\ Len(sent) = 0 /\ t \in [0 .. Len(sent) -> 0 .. 0] BY <1>1, <1>3, <1>4
<1>6. PageTyped
  <2>1. /\ page.mount = 0 /\ page.on = FALSE /\ page.asks = FALSE /\ page.loaded = FALSE /\ page.starting = 0
        /\ page.gen = 0 /\ page.early = <<>> /\ page.batch = <<>> /\ page.log = <<>>
        /\ DOMAIN page = {"mount", "on", "asks", "loaded", "starting", "gen", "last", "early", "batch", "log", "state"}
    BY <1>1, AwayIs
  <2>2. 0 <= Kept BY KeptIs
  <2>3. page.mount \in Nat /\ page.on \in BOOLEAN /\ page.asks \in BOOLEAN /\ page.loaded \in BOOLEAN
    <3>1. page.mount \in Nat BY <2>1
    <3>2. page.on \in BOOLEAN BY <2>1
    <3>3. page.asks \in BOOLEAN BY <2>1
    <3>4. page.loaded \in BOOLEAN BY <2>1
    <3> QED BY <3>1, <3>2, <3>3, <3>4
  <2>4. page.gen \in Nat /\ page.gen <= prep.gen /\ page.starting \in Nat /\ page.starting <= prep.gen BY <1>2, <2>1
  <2>5. page.log \in Seq(Nat) /\ Len(page.log) <= Kept /\ page.early \in Seq(Nat) /\ page.batch \in Seq(Nat)
    BY <1>3, <2>1, <2>2
  <2>6. ~page.loaded /\ ~page.asks BY <2>1
  <2>7. page.early = <<>> /\ page.batch = <<>> /\ page.log = <<>> BY <2>1
  <2>8. DOMAIN page = {"mount", "on", "asks", "loaded", "starting", "gen", "last", "early", "batch", "log", "state"} BY <2>1
  <2> QED BY <2>3, <2>4, <2>5, <2>6, <2>7, <2>8 DEF PageTyped
<1>7. LinesAre(sent, t, prep)
  <2>1. \A i \in 0 .. Len(sent) : i = 0 BY <1>5
  <2>2. \A i \in 1 .. Len(sent) : FALSE BY <1>5
  <2> QED BY <1>2, <1>3, <1>5, <2>1, <2>2 DEF LinesAre
<1>8. StatesAre(sent, t, prep) /\ SnapshotsAre(sent, t, prep, page)
  <2>1. \A i \in 1 .. Len(sent) : FALSE BY <1>5
  <2> QED BY <2>1 DEF StatesAre, SnapshotsAre
<1>9. HeardEarly(t, prep, page)
  <2>1. page.early = <<>> /\ Len(page.early) = 0 BY <1>1, <1>3, AwayIs
  <2>2. IsRun(<<>>, 1, 0) BY EmptyRun
  <2> QED BY <1>2, <1>5, <2>1, <2>2 DEF HeardEarly
<1>10. ~page.loaded BY <1>1, AwayIs
<1>11. t \in Ghosts
  <2>1. prep.from - 1 .. prep.to = 0 .. 0 BY <1>2
  <2> QED BY <1>5, <2>1 DEF Ghosts
<1> QED BY <1>6, <1>7, <1>8, <1>9, <1>10, <1>11 DEF PageInv, Follows

\* Every step keeps both halves.
LEMMA StepsFollow ==
  ASSUME SessionInv, PageInv, [PrepNext]_prepVars
  PROVE  SessionInv' /\ PageInv'
<1>1. CASE ProcessorStep
  <2>1. UNCHANGED <<sent, prep, page>> BY <1>1 DEF ProcessorStep
  <2> QED BY <1>1, <2>1, ProcessorStepKeeps, PageUntouched
<1>2. CASE NotifierFires BY <1>2, NotifierKeeps, NotifierPages
<1>3. CASE ReadLine("out") BY <1>3, ReadOutKeeps, ReadPages
<1>4. CASE ReadLine("err") BY <1>4, ReadErrKeeps, ReadPages
<1>5. CASE Close
  <2>1. UNCHANGED <<sent, prep, page>> BY <1>5 DEF Close
  <2> QED BY <1>5, <2>1, CloseKeeps, PageUntouched
<1>6. CASE Finish BY <1>6, FinishKeeps, FinishPages
<1>7. CASE AnswerRead
  <2>1. SessionInv' BY <1>7, SessionStays DEF AnswerRead, Page
  <2> QED BY <1>7, <2>1, AnswerPages
<1>8. CASE SubmitPassword BY <1>8, PasswordKeeps, PasswordPages
<1>9. ASSUME NEW n \in 1 .. Len(Labels), StartPipeline(n) PROVE SessionInv' /\ PageInv'
  <2>1. SessionInv' BY <1>9, StartsWhenOver, StartKeeps
  <2> QED BY <1>9, <2>1, StartPages
<1>10. CASE Mount
  <2>1. SessionInv' BY <1>10, SessionStays DEF Mount, Page
  <2> QED BY <1>10, <2>1, MountPages
<1>11. CASE Unmount
  <2>1. SessionInv' BY <1>11, SessionStays DEF Unmount, Page
  <2> QED BY <1>11, <2>1, UnmountPages
<1>12. CASE Deliver
  <2>1. SessionInv' BY <1>12, SessionStays DEF Deliver, Page
  <2> QED BY <1>12, <2>1, DeliverPages
<1>13. CASE Flush
  <2>1. SessionInv' BY <1>13, SessionStays DEF Flush, Page
  <2> QED BY <1>13, <2>1, FlushPages
<1>14. CASE UNCHANGED prepVars
  <2>1. UNCHANGED <<processor, pipes, onDisk, summary, child, prep, sent, page>> BY <1>14 DEF prepVars
  <2> QED BY <2>1, SessionStays, PageUntouched
<1> QED BY <1>1, <1>2, <1>3, <1>4, <1>5, <1>6, <1>7, <1>8, <1>9, <1>10, <1>11, <1>12, <1>13, <1>14
        DEF PrepNext, MainStep

-------------------------------------------------------------------------------
(* The theorems. *)

\* Both halves of the invariant, in every reachable state.
LEMMA PreparationInv == PrepSpec => [](SessionInv /\ PageInv)
<1>1. PrepInit => SessionInv /\ PageInv BY StartsKnown, StartsFollowed
<1>2. SessionInv /\ PageInv /\ [PrepNext]_prepVars => (SessionInv /\ PageInv)' BY StepsFollow
<1> QED BY <1>1, <1>2, PTL DEF PrepSpec

\* A processor that waits for a password, its prompt read, can be given one and is
\* asked for on the page, and a preparation that is over asks for none: prompts,
\* answers, deaths and starts may come in any order.
THEOREM PromptIsShownHolds == PrepSpec => []PromptIsShown
<1>1. SessionInv => PromptIsShown BY DEF SessionInv, Prompted, PromptIsShown
<1> QED BY <1>1, PreparationInv, PTL

\* The result of a finished preparation is what its own processor wrote, and a
\* backup the progress calls done is prepared, whatever summary an earlier one left
\* and however late stderr is read.
THEOREM ToldIsTrueHolds == PrepSpec => []ToldIsTrue
<1>1. ASSUME SessionInv, PageInv PROVE ToldIsTrue
  <2> USE DEF SessionInv
  <2>1. PageTyped BY <1>1, FollowsIs
  <2>2. TypeOK
    <3>1. processor \in Processors /\ onDisk \in [Names -> {"absent", "partial", "prepared"}] BY <1>1 DEF ProcessorTyped
    <3>2. processor.gen \in 0 .. prep.gen BY <1>1, <3>1 DEF OnePreparation, SessionTyped
    <3>3. Elems(processor.todo) \subseteq Elems(Labels)
      BY <1>1 DEF TodoKnown, SessionTyped, Names
    <3>4. page.gen \in 0 .. prep.gen BY <1>1, <2>1 DEF PageTyped, SessionTyped
    <3>5. Len(page.log) <= Kept BY <2>1 DEF PageTyped
    <3>6. processor.attempt \in 0 .. MaxAttempts /\ processor.code \in {0, 1} /\ processor.failed \subseteq Names
      BY <3>1 DEF Processors
    <3>7. /\ child \in [running : BOOLEAN, answer : BOOLEAN, ends : BOOLEAN]
          /\ prep.status \in {"idle", "running", "finished"} /\ prep.passwordFor \in Names \cup {None}
      BY <1>1 DEF SessionTyped
    <3> QED BY <3>1, <3>2, <3>3, <3>4, <3>5, <3>6, <3>7 DEF TypeOK, Names
  <2>3. ResultIsOfThisPass BY <1>1 DEF SummaryKnown, ResultIsOfThisPass
  <2>4. DoneIsPrepared BY <1>1 DEF LinesKnown, Over, DoneIsPrepared
  <2> QED BY <2>2, <2>3, <2>4 DEF ToldIsTrue
<1> QED BY <1>1, PreparationInv, PTL

\* A page that has nothing more to receive shows the session as it is and the last
\* lines kept of it, whenever it was opened and whatever was on its way.
THEOREM PageIsCurrentHolds == PrepSpec => []PageIsCurrent
<1>1. ASSUME SessionInv, PageInv, page.loaded, sent = <<>>, page.batch = <<>>, ~prep.soon
      PROVE  page.state = State(prep) /\ page.log = Log(prep)
  <2>1. PICK t \in [0 .. Len(sent) -> Int] : Follows(sent, t, prep, page) BY <1>1, FollowsIs
  <2>2. Len(sent) = 0 /\ LinesAre(sent, t, prep) /\ Shows(sent, t, prep, page) BY <1>1, <2>1, EmptySeq DEF Follows
  <2>3. page.state = State(prep)
    <3>1. \A i \in 1 .. Len(sent) : sent[i].is # "state" BY <2>2
    <3> QED BY <1>1, <2>2, <3>1 DEF Shows
  <2>4. t[0] = prep.to BY <2>2 DEF LinesAre
  <2>5. page.gen = prep.gen BY <2>2, <2>3 DEF Shows, State
  <2>6. PICK b \in 0 .. t[0] : prep.from <= b + 1 /\ IsRun(page.log, First(prep.from, b), b) /\ IsRun(<<>>, b + 1, t[0])
    BY <1>1, <2>2, <2>5 DEF Shows
  <2>7. b = prep.to
    <3>1. prep.to \in Nat BY <1>1, NumbersAre DEF Numbers
    <3>2. Len(<<>>) = t[0] - (b + 1) + 1 /\ Len(<<>>) = 0 BY <2>6, EmptySeq DEF IsRun
    <3> QED BY <2>4, <2>6, <3>1, <3>2
  <2>8. IsRun(page.log, First(prep.from, prep.to), prep.to) BY <2>6, <2>7
  <2>9. page.log = Log(prep) BY <1>1, <2>8, LogIs, RunIsOne
  <2> QED BY <2>3, <2>9
<1>2. SessionInv /\ PageInv => PageIsCurrent BY <1>1 DEF PageIsCurrent
<1> QED BY <1>2, PreparationInv, PTL
================================================================================
