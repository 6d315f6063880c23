----------------------------- MODULE RecordPages -----------------------------
(***************************************************************************)
(* getForensicRecords: one evidence item's facts a page at a time, each page    *)
(* after the last row of the page before, while units of facts complete or are *)
(* superseded.  One page is one statement, and one snapshot.  A time is in      *)
(* microseconds, of which Millisecond make one millisecond; Untimed is untimed,    *)
(* and sorts last.                                                            *)
(***************************************************************************)
EXTENDS Integers, Sequences, FiniteSets

CONSTANTS
  Ids,         \* forensic_records.id
  UnitOf,      \* UnitOf[id]: its unit, whose facts are seen all at once or not
  Times,       \* what event_time may be
  Limits,      \* page sizes
  Millisecond,
  MaxChanges,  \* bound: times the facts change during a walk
  Untimed

ASSUME PagesAssumption ==
  /\ Ids \subseteq Nat \ {0} /\ IsFiniteSet(Ids) /\ Limits \subseteq Nat \ {0} /\ Millisecond \in Nat \ {0}
  /\ Times \subseteq Nat \cup {Untimed} /\ Untimed \notin Nat

VARIABLES
  time,    \* time[id]: its event_time
  visible, \* units that the view shows
  walk,    \* direction, limit; cursor, and whether it is over
  rows,    \* ids returned, in order
  always,  \* units the view has shown since the walk began
  changes

pageVars == <<time, visible, walk, rows, always, changes>>

Units == {UnitOf[i] : i \in Ids}
Seen == {i \in Ids : UnitOf[i] \in visible}
Top == [id |-> 0, v |-> Untimed]
NoWalk == [up |-> TRUE, limit |-> 0, cursor |-> Top, over |-> TRUE]
PagesInit ==
  /\ time = [i \in Ids |-> Untimed] /\ visible = {} /\ walk = NoWalk
  /\ rows = <<>> /\ always = {} /\ changes = 0
\* A caller, with the facts there are.
BeginWalk ==
  /\ walk = NoWalk
  /\ time' \in [Ids -> Times] /\ visible' \in SUBSET Units /\ always' = visible'
  /\ walk' \in [up : BOOLEAN, limit : Limits, cursor : {Top}, over : {FALSE}]
  /\ UNCHANGED <<rows, changes>>

\* Cursor and keyset: (col IS NULL, col, id), NULLs last either way.
Truncated(t) == IF t = Untimed THEN Untimed ELSE t - (t % Millisecond) \* slip: the Date node-postgres makes of it
Exact(t) == t
CursorAfter(i) == [id |-> i, v |-> Exact(time[i])]
Later(a, b) == IF walk.up THEN a > b ELSE a < b
TimesThenIds(i, c) == time[i] # Untimed /\ (Later(time[i], c.v) \/ (time[i] = c.v /\ Later(i, c.id)))
After(i, c) ==
  \/ c = Top
  \/ c.v = Untimed /\ c # Top /\ time[i] = Untimed /\ Later(i, c.id)
  \/ c.v # Untimed /\ (time[i] = Untimed \/ TimesThenIds(i, c))
Before(i, j) ==
  \/ time[i] # Untimed /\ time[j] = Untimed
  \/ time[i] = Untimed /\ time[j] = Untimed /\ Later(j, i)
  \/ time[i] # Untimed /\ time[j] # Untimed /\ (Later(time[j], time[i]) \/ (time[i] = time[j] /\ Later(j, i)))
Sorted(set) ==
  CHOOSE s \in [1 .. Cardinality(set) -> set] :
    \A i, j \in DOMAIN s : i < j => Before(s[i], s[j])

\* One row more than the page tells whether there is a next one.
OneMore(n) == n > walk.limit
GetForensicRecords ==
  /\ ~walk.over
  /\ LET left == Sorted({i \in Seen : After(i, walk.cursor)})
         got == SubSeq(left, 1, IF Len(left) < walk.limit THEN Len(left) ELSE walk.limit) IN
     /\ rows' = rows \o got
     /\ walk' = IF OneMore(Len(left)) THEN [walk EXCEPT !.cursor = CursorAfter(got[Len(got)])]
                ELSE [walk EXCEPT !.over = TRUE]
  /\ UNCHANGED <<time, visible, always, changes>>

\* A unit completes, or a later parser version's supersedes another.
FactsChange ==
  /\ ~walk.over /\ rows # <<>> /\ changes < MaxChanges /\ changes' = changes + 1
  /\ \E new \in Units \ visible, old \in SUBSET visible :
       Cardinality(old) <= 1 /\ visible' = (visible \cup {new}) \ old
  /\ always' = always \cap visible'
  /\ UNCHANGED <<time, walk, rows>>

PagesNext == BeginWalk \/ GetForensicRecords \/ FactsChange

PagesSpec == PagesInit /\ [][PagesNext]_pageVars

\* "Pages never skip or repeat a row while sorting": however facts come and go
\* between its pages, a walk returns no row twice, in order, and when it is over it
\* has returned every fact that was there all along.
WalkIsWhole ==
  /\ \A i, j \in DOMAIN rows : i < j => Before(rows[i], rows[j])
  /\ walk.over => \A i \in Ids : UnitOf[i] \in always => \E k \in DOMAIN rows : rows[k] = i
================================================================================
