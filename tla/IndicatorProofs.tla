---------------------------- MODULE IndicatorProofs ----------------------------
(***************************************************************************)
(* Theorems about IndicatorChecks.                                         *)
(***************************************************************************)
EXTENDS IndicatorChecks, SequenceTheorems, FiniteSetTheorems, WellFoundedInduction, TLAPS

-------------------------------------------------------------------------------
(* Counting. *)

LEMMA FiveAreFinite ==
  ASSUME NEW a, NEW b, NEW c, NEW d, NEW e
  PROVE  IsFiniteSet({a, b, c, d, e})
<1>1. IsFiniteSet({} \cup {a})
  BY FS_EmptySet, FS_AddElement
<1>2. IsFiniteSet({} \cup {a} \cup {b})
  BY <1>1, FS_AddElement
<1>3. IsFiniteSet({} \cup {a} \cup {b} \cup {c})
  BY <1>2, FS_AddElement
<1>4. IsFiniteSet({} \cup {a} \cup {b} \cup {c} \cup {d})
  BY <1>3, FS_AddElement
<1>5. IsFiniteSet({} \cup {a} \cup {b} \cup {c} \cup {d} \cup {e})
  BY <1>4, FS_AddElement
<1>6. {} \cup {a} \cup {b} \cup {c} \cup {d} \cup {e} = {a, b, c, d, e}
  OBVIOUS
<1> QED BY <1>5, <1>6

\* Two sets with nothing in common.
LEMMA Apart ==
  ASSUME NEW A, NEW B, IsFiniteSet(A), IsFiniteSet(B), A \cap B = {}
  PROVE  /\ Cardinality(A \cup B) = Cardinality(A) + Cardinality(B)
         /\ Cardinality(A) \in Nat /\ Cardinality(B) \in Nat
<1>1. Cardinality(A \cup B) = Cardinality(A) + Cardinality(B) - Cardinality(A \cap B)
  BY FS_Union
<1>2. Cardinality(A \cap B) = 0
  BY FS_EmptySet
<1>3. Cardinality(A) \in Nat /\ Cardinality(B) \in Nat
  BY FS_CardinalityType
<1> QED BY <1>1, <1>2, <1>3

SumsUp(g, S, c, pick) == \A s \in SUBSET S : g[s] = IF s = {} THEN 0 ELSE c[pick[s]] + g[s \ {pick[s]}]
Counts(c, U, S, kind) == \A x \in S : c[x] = Cardinality({o \in U : kind[o] = x})
Picks(pick, S) == \A s \in SUBSET S : s # {} => pick[s] \in s

\* Counted by their kinds, one kind after another, are all of them counted: what
\* the sum over a report's reasons stands for.  There is such a sum.
LEMMA SumExists ==
  ASSUME NEW U, IsFiniteSet(U), NEW S, NEW kind \in [U -> S],
         NEW c, Counts(c, U, S, kind), NEW pick, Picks(pick, S)
  PROVE  SumsUp([s \in SUBSET S |-> Cardinality({o \in U : kind[o] \in s})], S, c, pick)
<1> DEFINE those(s) == {o \in U : kind[o] \in s}
           all == [s \in SUBSET S |-> Cardinality(those(s))]
<1>1. ASSUME NEW s \in SUBSET S, s # {}, NEW x \in s
      PROVE  /\ Cardinality(those(s)) = c[x] + Cardinality(those(s \ {x}))
             /\ c[x] \in Nat /\ Cardinality(those(s \ {x})) \in Nat
  <2> DEFINE one == {o \in U : kind[o] = x}
  <2>1. IsFiniteSet(one) /\ IsFiniteSet(those(s \ {x}))
    BY FS_Subset
  <2>2. those(s) = one \cup those(s \ {x}) /\ one \cap those(s \ {x}) = {}
    BY <1>1
  <2>3. c[x] = Cardinality(one)
    BY <1>1 DEF Counts
  <2> HIDE DEF one, those
  <2> QED BY <2>1, <2>2, <2>3, Apart
<1>2. Cardinality(those({})) = 0
  BY FS_EmptySet
<1>3. ASSUME NEW s \in SUBSET S
      PROVE  all[s] = IF s = {} THEN 0 ELSE c[pick[s]] + all[s \ {pick[s]}]
  <2>1. CASE s = {}
    BY <1>2, <2>1
  <2>2. CASE s # {}
    <3> DEFINE x == pick[s]
    <3>1. x \in s
      BY <2>2 DEF Picks
    <3>2. Cardinality(those(s)) = c[x] + Cardinality(those(s \ {x}))
      <4> HIDE DEF x, those
      <4> QED BY <1>1, <2>2, <3>1
    <3>3. s \ {x} \in SUBSET S
      OBVIOUS
    <3>4. all[s] = Cardinality(those(s)) /\ all[s \ {x}] = Cardinality(those(s \ {x}))
      <4> HIDE DEF x, those
      <4> QED BY <3>3
    <3> HIDE DEF x, those, all
    <3>5. all[s] = c[x] + all[s \ {x}]
      BY <3>2, <3>4
    <3> QED BY <2>2, <3>5 DEF x
  <2> QED BY <2>1, <2>2
<1> QED BY <1>3 DEF SumsUp

\* And there is but one: everything, counted.
LEMMA SumOfCounts ==
  ASSUME NEW U, IsFiniteSet(U), NEW S, IsFiniteSet(S), NEW kind \in [U -> S],
         NEW c, Counts(c, U, S, kind), NEW pick, Picks(pick, S), NEW it, SumsUp(it, S, c, pick)
  PROVE  it[S] = Cardinality(U)
<1> DEFINE all == [s \in SUBSET S |-> Cardinality({o \in U : kind[o] \in s})]
<1>1. SumsUp(all, S, c, pick)
  BY SumExists
<1>2. \A s \in SUBSET S : it[s] = all[s]
  <2> DEFINE wrong == {s \in SUBSET S : it[s] # all[s]}
  <2> SUFFICES ASSUME wrong # {} PROVE FALSE
    OBVIOUS
  <2>1. PICK s \in wrong : \A t \in wrong : ~(<<t, s>> \in StrictSubsetOrdering(S))
    <3> HIDE DEF wrong
    <3>1. wrong \subseteq FiniteSubsetsOf(S)
      BY FS_Subset DEF wrong, FiniteSubsetsOf
    <3>2. IsWellFoundedOn(StrictSubsetOrdering(S), FiniteSubsetsOf(S))
      BY FS_StrictSubsetOrderingWellFounded
    <3> QED BY <3>1, <3>2, WFMin
  <2>2. it[s] = IF s = {} THEN 0 ELSE c[pick[s]] + it[s \ {pick[s]}]
    BY DEF SumsUp
  <2>3. all[s] = IF s = {} THEN 0 ELSE c[pick[s]] + all[s \ {pick[s]}]
    <3> HIDE DEF all
    <3> QED BY <1>1 DEF SumsUp
  <2>4. s # {}
    BY <2>2, <2>3
  <2> DEFINE x == pick[s]
  <2>5. x \in s
    BY <2>4 DEF Picks
  <2>6. s \ {x} \notin wrong
    <3> HIDE DEF wrong, x
    <3>1. <<s \ {x}, s>> \in StrictSubsetOrdering(S)
      BY <2>5 DEF StrictSubsetOrdering, wrong
    <3> QED BY <2>1, <3>1
  <2>7. it[s \ {x}] = all[s \ {x}]
    BY <2>6
  <2> QED BY <2>2, <2>3, <2>7
<1>3. {o \in U : kind[o] \in S} = U
  OBVIOUS
<1> QED BY <1>2, <1>3

-------------------------------------------------------------------------------
(* The loader: every object is counted once, under the reason it was left out. *)

LEMMA ReasonIsOne ==
  ASSUME NEW f \in DOMAIN Files, NEW obj \in Files[f].objects, Reason(obj) # None
  PROVE  Reason(obj) \in Reasons
<1>1. obj.odd \in {None} \cup Reasons
  BY FilesAssumption
<1>2. ASSUME NEW test PROVE Trouble(test) \in {None} \cup Reasons
  BY DEF Trouble, Reasons
<1>3. PatternReason(obj) # None => PatternReason(obj) \in Reasons
  BY <1>1, <1>2 DEF PatternReason
<1> QED BY <1>3 DEF Reason, Reasons

\* The report of a file adds up.
LEMMA ReportAddsUp ==
  ASSUME NEW f \in DOMAIN Files, NEW report, report = FileReport(f)
  PROVE  report.loaded + report.revoked + CountUnsupported(report) = report.objects
<1> DEFINE U == Of(f, "unsupported")
           Sums(g) == g = [s \in SUBSET Reasons |-> IF s = {} THEN 0
                   ELSE report.unsupported[CHOOSE x \in s : TRUE] + g[s \ {CHOOSE x \in s : TRUE}]]
           it == CHOOSE g : Sums(g)
           kind == [o \in U |-> Reason(o)]
<1>1. CountUnsupported(report) = it[Reasons]
  BY DEF CountUnsupported, MapThenSumSet, MapThenFoldSet
<1>2. IsFiniteSet(Files[f].objects)
  BY FilesAssumption
<1>3. \A fate : IsFiniteSet(Of(f, fate))
  BY <1>2, FS_Subset DEF Of
<1>4. kind \in [U -> Reasons]
  <2> SUFFICES ASSUME NEW o \in U PROVE Reason(o) \in Reasons
    OBVIOUS
  <2> QED BY ReasonIsOne DEF Of, Fate
<1>5. IsFiniteSet(Reasons)
  <2>1. /\ IsFiniteSet({"pattern_type", "operator", "comparison_and", "observation_and", "observation_or"})
        /\ IsFiniteSet({"followedby", "qualifier", "object_path", "indicator_type", "value"})
    BY FiveAreFinite
  <2>2. Reasons = {"pattern_type", "operator", "comparison_and", "observation_and", "observation_or"}
                    \cup {"followedby", "qualifier", "object_path", "indicator_type", "value"}
    BY DEF Reasons
  <2> QED BY <2>1, <2>2, FS_Union
<1>6. \A x \in Reasons : report.unsupported[x] = Cardinality({o \in U : kind[o] = x})
  <2> SUFFICES ASSUME NEW x \in Reasons
               PROVE  report.unsupported[x] = Cardinality({o \in U : kind[o] = x})
    OBVIOUS
  <2>1. {o \in U : kind[o] = x} = {o \in U : Reason(o) = x}
    OBVIOUS
  <2> QED BY <2>1 DEF FileReport
<1>7. it[Reasons] = Cardinality(U)
  <2>1. IsFiniteSet(U)
    BY <1>3
  <2>2. /\ \E g : Sums(g)
        /\ \A g : Sums(g) => g[Reasons] = Cardinality(U)
    <3> DEFINE c == report.unsupported
               pick == [s \in SUBSET Reasons |-> CHOOSE x \in s : TRUE]
    <3>1. Counts(c, U, Reasons, kind)
      BY <1>6 DEF Counts
    <3>2. Picks(pick, Reasons)
      BY DEF Picks
    <3>3. ASSUME NEW g
          PROVE  Sums(g) <=> g = [s \in SUBSET Reasons |-> IF s = {} THEN 0 ELSE c[pick[s]] + g[s \ {pick[s]}]]
      OBVIOUS
    <3> HIDE DEF kind, U, c, pick, Sums
    <3>4. SumsUp([s \in SUBSET Reasons |-> Cardinality({o \in U : kind[o] \in s})], Reasons, c, pick)
      BY <1>4, <1>5, <2>1, <3>1, <3>2, SumExists
    <3>5. Sums([s \in SUBSET Reasons |-> Cardinality({o \in U : kind[o] \in s})])
      <4> DEFINE all == [s \in SUBSET Reasons |-> Cardinality({o \in U : kind[o] \in s})]
      <4>1. all = [s \in SUBSET Reasons |-> all[s]]
        OBVIOUS
      <4>2. \A s \in SUBSET Reasons : all[s] = IF s = {} THEN 0 ELSE c[pick[s]] + all[s \ {pick[s]}]
        BY <3>4 DEF SumsUp
      <4> HIDE DEF all
      <4>3. all = [s \in SUBSET Reasons |-> IF s = {} THEN 0 ELSE c[pick[s]] + all[s \ {pick[s]}]]
        BY <4>1, <4>2
      <4> QED BY <3>3, <4>3 DEF all
    <3>6. ASSUME NEW g, Sums(g) PROVE g[Reasons] = Cardinality(U)
      <4>1. g = [s \in SUBSET Reasons |-> IF s = {} THEN 0 ELSE c[pick[s]] + g[s \ {pick[s]}]]
        BY <3>3, <3>6
      <4>2. SumsUp(g, Reasons, c, pick)
        BY <4>1 DEF SumsUp
      <4> QED BY <1>4, <1>5, <2>1, <3>1, <3>2, <4>2, SumOfCounts
    <3> QED BY <3>5, <3>6
  <2> HIDE DEF Sums
  <2> QED BY <2>2
<1>8. Cardinality(Files[f].objects)
        = Cardinality(Of(f, "loaded")) + Cardinality(Of(f, "revoked")) + Cardinality(U)
  <2>1. Files[f].objects = Of(f, "loaded") \cup (Of(f, "revoked") \cup U)
    BY DEF Of, Fate
  <2>2. Of(f, "loaded") \cap (Of(f, "revoked") \cup U) = {} /\ Of(f, "revoked") \cap U = {}
    BY DEF Of
  <2>3. IsFiniteSet(Of(f, "revoked") \cup U)
    BY <1>2, FS_Subset DEF Of
  <2> HIDE DEF U
  <2>4. /\ Cardinality(Of(f, "revoked") \cup U) = Cardinality(Of(f, "revoked")) + Cardinality(U)
        /\ Cardinality(Of(f, "revoked")) \in Nat /\ Cardinality(U) \in Nat
    BY <1>3, <2>2, Apart DEF U
  <2>5. /\ Cardinality(Of(f, "loaded") \cup (Of(f, "revoked") \cup U))
             = Cardinality(Of(f, "loaded")) + Cardinality(Of(f, "revoked") \cup U)
        /\ Cardinality(Of(f, "loaded")) \in Nat
    BY <1>3, <2>2, <2>3, Apart
  <2> QED BY <2>1, <2>4, <2>5
<1>9. \A fate : Cardinality(Of(f, fate)) \in Nat
  BY <1>3, FS_CardinalityType
<1> HIDE DEF it, kind, U
<1>10. report.loaded = Cardinality(Of(f, "loaded")) /\ report.revoked = Cardinality(Of(f, "revoked"))
       /\ report.objects = Cardinality(Files[f].objects)
  BY DEF FileReport
<1> QED BY <1>1, <1>7, <1>8, <1>10

-------------------------------------------------------------------------------
(* The least and the greatest of a set of naturals. *)

LEMMA LeastIsIn ==
  ASSUME NEW S \in SUBSET Nat, S # {}
  PROVE  Min(S) \in S /\ \A y \in S : Min(S) <= y
<1> DEFINE Less == {p \in Nat \X Nat : p[1] < p[2]}
<1>1. IsWellFoundedOn(Less, Nat)
  BY NatLessThanWellFounded DEF OpToRel
<1> HIDE DEF Less
<1>2. PICK x \in S : \A y \in S : <<y, x>> \notin Less
  BY <1>1, WFMin
<1>3. ASSUME NEW y \in S PROVE x <= y
  <2>1. <<y, x>> \notin Less /\ x \in Nat /\ y \in Nat
    BY <1>2
  <2> QED BY <2>1 DEF Less
<1> DEFINE Least(z) == \A y \in S : z <= y
<1>4. Least(x)
  BY <1>3
<1>5. (CHOOSE z \in S : Least(z)) \in S /\ Least(CHOOSE z \in S : Least(z))
  <2> HIDE DEF Least
  <2> QED BY <1>4
<1>6. Min(S) = CHOOSE z \in S : Least(z)
  BY DEF Min
<1> QED BY <1>5, <1>6

LEMMA GreatestIsThere ==
  ASSUME NEW S \in SUBSET Nat, IsFiniteSet(S), S # {}
  PROVE  \E x \in S : \A y \in S : y <= x
<1> DEFINE above(x) == {y \in S : y > x}
           sets == {above(x) : x \in S}
<1>1. sets \subseteq FiniteSubsetsOf(S) /\ sets # {}
  <2>1. \A x \in S : above(x) \in SUBSET S /\ IsFiniteSet(above(x))
    BY FS_Subset
  <2> HIDE DEF above
  <2> QED BY <2>1 DEF FiniteSubsetsOf
<1>2. IsWellFoundedOn(StrictSubsetOrdering(S), FiniteSubsetsOf(S))
  BY FS_StrictSubsetOrderingWellFounded
<1>3. PICK t \in sets : \A u \in sets : <<u, t>> \notin StrictSubsetOrdering(S)
  <2> HIDE DEF sets
  <2> QED BY <1>1, <1>2, WFMin
<1>4. PICK x \in S : t = above(x)
  OBVIOUS
<1>5. ASSUME NEW y \in S, y > x PROVE FALSE
  <2>1. x \in Nat /\ y \in Nat /\ S \subseteq Nat
    OBVIOUS
  <2>2. \A z \in Nat : z > y => z > x
    BY <1>5, <2>1
  <2>3. above(y) \subseteq above(x) /\ y \in above(x) /\ y \notin above(y) /\ above(x) \subseteq S
    <3>1. ASSUME NEW z \in above(y) PROVE z \in above(x)
      BY <2>1, <2>2
    <3>2. y \in above(x) /\ above(x) \subseteq S
      BY <1>5
    <3>3. y \notin above(y)
      BY <2>1
    <3> HIDE DEF above
    <3> QED BY <3>1, <3>2, <3>3
  <2>4. above(y) \in sets
    OBVIOUS
  <2> HIDE DEF above
  <2>5. <<above(y), above(x)>> \in StrictSubsetOrdering(S)
    BY <2>3 DEF StrictSubsetOrdering
  <2> QED BY <1>3, <1>4, <2>4, <2>5
<1> QED BY <1>5

-------------------------------------------------------------------------------
(* The registry: what each registration holds, and what is registered. *)

Keys == ({"content"} \X DOMAIN Files) \cup ({"set"} \X {SetHash(g) : g \in Given})
There(hash) == \E set \in registry : set.hash = hash
Inserted == {"files", "indicators", "commit"}
Registrations ==
  [pc : InRegistration \cup {"off", "registered", "already"}, given : Given \cup {None}, at : 0 .. MaxRegistered,
   todo : SUBSET DOMAIN Files, locks : SUBSET Keys]

\* A registration holds its files' rows in their order, and its set's row from
\* the insert to the commit: until then no set with that hash is there.
RegistrationOK(s) ==
  /\ s \in Registrations
  /\ s.pc # "off" => s.given \in Given /\ SetLoads(s.given)
  /\ s.pc \notin {"contents", "set"} \cup Inserted => s.locks = {}
  /\ s.pc = "contents" => \A f \in DOMAIN Files : <<"content", f>> \in s.locks => \A h \in s.todo : f < h
  /\ s.pc \notin Inserted => \A g \in Given : <<"set", SetHash(g)>> \notin s.locks
  /\ s.pc \in Inserted => <<"set", SetHash(s.given)>> \in s.locks /\ ~There(SetHash(s.given))
  /\ s.pc \in {"refind", "registered", "already"} => There(SetHash(s.given))

LocksApart == \A r \in Registrars : \A q \in Registrars \ {r} : reg[r].locks \cap reg[q].locks = {}
RowOf(g, at) ==
  [hash |-> SetHash(g), name |-> g.name, at |-> at,
   files |-> [f \in FilesOf(g) |-> FileReport(f)], indicators |-> UNION {Indicators(f) : f \in FilesOf(g)}]
RowOK(set) ==
  \E g \in Given : SetLoads(g) /\ set = RowOf(g, set.at) /\ FilesOf(g) \subseteq contents
RegistryOK ==
  /\ contents \subseteq DOMAIN Files /\ clock \in 0 .. MaxRegistered
  /\ \A set \in registry : RowOK(set)
  /\ \A a, b \in registry : a.hash = b.hash => a = b
RegInv ==
  /\ reg \in [Registrars -> Registrations] /\ \A r \in Registrars : RegistrationOK(reg[r])
  /\ LocksApart /\ RegistryOK

\* One registration goes on and nothing is stored.
LEMMA Moves ==
  ASSUME RegInv, NEW r \in Registrars, NEW s, RegistrationOK(s), NothingStored, clock' \in 0 .. MaxRegistered,
         Becomes(r, s), \A q \in Registrars \ {r} : s.locks \cap reg[q].locks = {}
  PROVE  RegInv'
<1>1. reg' \in [Registrars -> Registrations]
  BY DEF RegInv, RegistrationOK, Becomes
<1>2. ASSUME NEW q \in Registrars PROVE reg'[q] = IF q = r THEN s ELSE reg[q]
  BY DEF RegInv, Becomes
<1>3. ASSUME NEW q \in Registrars PROVE RegistrationOK(reg[q])'
  <2>1. RegistrationOK(IF q = r THEN s ELSE reg[q])
    BY DEF RegInv
  <2> DEFINE t == IF q = r THEN s ELSE reg[q]
  <2>2. reg'[q] = t /\ RegistrationOK(t)
    BY <1>2, <2>1
  <2> HIDE DEF t
  <2> QED BY <2>2 DEF RegistrationOK, There, NothingStored
<1>4. LocksApart'
  BY <1>2 DEF RegInv, LocksApart
<1>5. RegistryOK'
  BY DEF RegInv, RegistryOK, RowOK, NothingStored
<1> QED BY <1>1, <1>3, <1>4, <1>5 DEF RegInv

LEMMA Registering ==
  ASSUME RegInv, NEW r \in Registrars
  PROVE  /\ reg[r] \in Registrations /\ RegistrationOK(reg[r])
         /\ reg[r].pc # "off" => reg[r].given \in Given /\ SetLoads(reg[r].given)
         /\ IsThere(r) <=> There(SetHash(reg[r].given))
         /\ clock \in 0 .. MaxRegistered
BY DEF RegInv, RegistrationOK, RegistryOK, IsThere, There, HashOf

LEMMA FilesAreFiles ==
  ASSUME NEW g \in Given
  PROVE  /\ FilesOf(g) \subseteq DOMAIN Files /\ FilesOf(g) \subseteq Nat /\ FilesOf(g) # {}
         /\ SetHash(g) \in {SetHash(h) : h \in Given}
<1>1. g.files \in Seq(DOMAIN Files) /\ g.files # <<>> /\ DOMAIN Files \subseteq Nat
  BY IndicatorSetsAssumption
<1>2. Len(g.files) \in Nat /\ DOMAIN g.files = 1 .. Len(g.files) /\ 1 \in DOMAIN g.files
  BY <1>1, EmptySeq, LenProperties
<1>3. \A i \in DOMAIN g.files : g.files[i] \in DOMAIN Files
  BY <1>1, <1>2
<1> QED BY <1>1, <1>2, <1>3 DEF FilesOf

LEMMA LoadMoves ==
  ASSUME RegInv, NEW r \in Registrars, NEW g \in Given, Load(r, g)
  PROVE  RegInv'
<1> DEFINE s == [NotRegistering EXCEPT !.pc = "find", !.given = g, !.at = clock']
<1>1. clock' \in 0 .. MaxRegistered
  BY IndicatorSetsAssumption DEF RegInv, RegistryOK, Load
<1>2. RegistrationOK(s)
  BY <1>1 DEF Load, NotRegistering, RegistrationOK, Registrations, InRegistration, Inserted
<1>3. s.locks = {}
  BY DEF NotRegistering
<1>4. NothingStored /\ Becomes(r, s)
  BY DEF Load
<1> HIDE DEF s
<1> QED BY <1>1, <1>2, <1>3, <1>4, Moves

\* It ends, or has nothing to add: no row of it is held.
LEMMA NotRegisteringIsOne == NotRegistering \in Registrations /\ RegistrationOK(NotRegistering)
<1>1. 0 \in 0 .. MaxRegistered
  BY IndicatorSetsAssumption
<1>2. NotRegistering \in Registrations
  BY <1>1 DEF NotRegistering, Registrations
<1> QED BY <1>2 DEF RegistrationOK, Inserted, NotRegistering

LEMMA EndMoves ==
  ASSUME RegInv, NEW r \in Registrars, NEW s \in Registrations, s.pc \in {"already", "registered"},
         s.given = reg[r].given, s.locks = {},
         reg[r].pc # "off", There(SetHash(reg[r].given)), NothingStored, UNCHANGED clock, Becomes(r, s)
  PROVE  RegInv'
<1>1. reg[r].given \in Given /\ SetLoads(reg[r].given) /\ clock' \in 0 .. MaxRegistered
  BY Registering
<1>2. RegistrationOK(s)
  BY <1>1 DEF RegistrationOK, Inserted
<1> QED BY <1>1, <1>2, Moves

LEMMA StopMoves ==
  ASSUME RegInv, NEW r \in Registrars, NothingStored, UNCHANGED clock, Becomes(r, NotRegistering)
  PROVE  RegInv'
<1>1. RegistrationOK(NotRegistering) /\ NotRegistering.locks = {}
  BY NotRegisteringIsOne DEF NotRegistering
<1>2. clock' \in 0 .. MaxRegistered
  BY Registering
<1> QED BY <1>1, <1>2, Moves

LEMMA FindSetMoves ==
  ASSUME RegInv, NEW r \in Registrars, FindSet(r)
  PROVE  RegInv'
<1>1. CASE IsThere(r)
  <2>1. There(SetHash(reg[r].given)) /\ reg[r].pc # "off"
    BY <1>1, Registering DEF FindSet
  <2> DEFINE s == [NotRegistering EXCEPT !.pc = "already", !.given = reg[r].given]
  <2>2. s.pc = "already" /\ s.given = reg[r].given /\ s.locks = {}
    BY DEF NotRegistering
  <2>3. s \in Registrations
    BY <2>1, Registering, NotRegisteringIsOne DEF Registrations
  <2>4. NothingStored /\ UNCHANGED clock /\ Becomes(r, s)
    BY <1>1 DEF FindSet
  <2> HIDE DEF s
  <2> QED BY <2>1, <2>2, <2>3, <2>4, EndMoves
<1>2. CASE ~IsThere(r)
  <2> DEFINE s == [reg[r] EXCEPT !.pc = "contents", !.todo = FilesOf(reg[r].given)]
  <2>1. /\ reg[r] \in Registrations /\ RegistrationOK(reg[r]) /\ reg[r].pc = "find"
        /\ reg[r].given \in Given /\ SetLoads(reg[r].given) /\ clock' \in 0 .. MaxRegistered
    BY Registering DEF FindSet
  <2>2. FilesOf(reg[r].given) \subseteq DOMAIN Files
    BY <2>1, FilesAreFiles
  <2>3. reg[r].locks = {}
    BY <2>1 DEF RegistrationOK, Inserted
  <2>4. RegistrationOK(s) /\ s.locks = {}
    BY <2>1, <2>2, <2>3 DEF RegistrationOK, Registrations, InRegistration, Inserted
  <2>5. NothingStored /\ Becomes(r, s)
    BY <1>2 DEF FindSet
  <2> HIDE DEF s
  <2> QED BY <2>1, <2>4, <2>5, Moves
<1> QED BY <1>1, <1>2

LEMMA InsertContentsMoves ==
  ASSUME RegInv, NEW r \in Registrars, InsertContents(r)
  PROVE  RegInv'
<1> DEFINE s == reg[r]
<1>1. /\ s \in Registrations /\ RegistrationOK(s) /\ s.pc = "contents" /\ clock' \in 0 .. MaxRegistered
      /\ s.given \in Given /\ SetLoads(s.given) /\ NothingStored
  BY Registering DEF InsertContents
<1>2. CASE s.todo = {}
  <2> DEFINE t == [s EXCEPT !.pc = "set"]
  <2>1. Becomes(r, t) /\ t.locks = reg[r].locks
    BY <1>1, <1>2 DEF InsertContents, Registrations
  <2>2. RegistrationOK(t)
    BY <1>1 DEF RegistrationOK, Registrations, InRegistration, Inserted
  <2>3. \A q \in Registrars \ {r} : t.locks \cap reg[q].locks = {}
    BY <2>1 DEF RegInv, LocksApart
  <2> HIDE DEF t, s
  <2> QED BY <1>1, <2>1, <2>2, <2>3, Moves
<1>3. CASE s.todo # {}
  <2> DEFINE f == Min(s.todo)
             more == IF f \in contents THEN s.locks ELSE s.locks \cup {<<"content", f>>}
             t == [s EXCEPT !.todo = @ \ {f}, !.locks = more]
  <2>1. /\ DOMAIN Files \subseteq Nat /\ s.todo \subseteq DOMAIN Files /\ s.locks \subseteq Keys
    BY <1>1, IndicatorSetsAssumption DEF Registrations
  <2>2. f \in s.todo /\ \A h \in s.todo : f <= h
    <3> HIDE DEF s
    <3> QED BY <1>3, <2>1, LeastIsIn
  <2>3. Becomes(r, t) /\ ~Waits(r, <<"content", f>>)
    BY <1>3 DEF InsertContents
  <2>4. t.pc = "contents" /\ t.given = s.given /\ t.todo = s.todo \ {f} /\ t.locks = more
    BY <1>1 DEF Registrations
  <2>5. more \subseteq Keys
    BY <2>1, <2>2 DEF Keys
  <2> HIDE DEF f, more, s
  <2>6. t \in Registrations
    BY <1>1, <2>1, <2>5 DEF Registrations
  <2>7. \A q \in Registrars \ {r} : t.locks \cap reg[q].locks = {}
    BY <2>3, <2>4 DEF RegInv, LocksApart, Waits, more, s
  <2> HIDE DEF t
  <2>8. \A h \in s.todo \ {f} : f < h
    BY <2>1, <2>2
  <2>9. ASSUME NEW k \in DOMAIN Files, <<"content", k>> \in t.locks, NEW h \in t.todo PROVE k < h
    <3>1. CASE <<"content", k>> \in s.locks
      BY <1>1, <2>4, <3>1 DEF RegistrationOK
    <3>2. CASE <<"content", k>> \notin s.locks
      <4>1. k = f
        BY <2>4, <2>9, <3>2 DEF more
      <4> QED BY <2>4, <2>8, <2>9, <4>1
    <3> QED BY <3>1, <3>2
  <2>10. ASSUME NEW g \in Given PROVE <<"set", SetHash(g)>> \notin t.locks
    BY <1>1, <2>4 DEF RegistrationOK, more, Inserted
  <2>11. RegistrationOK(t)
    BY <1>1, <2>4, <2>6, <2>9, <2>10 DEF RegistrationOK, Inserted
  <2> QED BY <1>1, <2>3, <2>7, <2>11, Moves
<1> QED BY <1>2, <1>3

LEMMA InsertSetMoves ==
  ASSUME RegInv, NEW r \in Registrars, InsertSet(r)
  PROVE  RegInv'
<1> DEFINE s == reg[r]
           key == <<"set", SetHash(s.given)>>
<1>1. /\ s \in Registrations /\ RegistrationOK(s) /\ s.pc = "set" /\ clock' \in 0 .. MaxRegistered
      /\ s.given \in Given /\ SetLoads(s.given) /\ NothingStored /\ (IsThere(r) <=> There(SetHash(s.given)))
  BY Registering DEF InsertSet
<1>2. CASE IsThere(r)
  <2> DEFINE t == [s EXCEPT !.pc = "refind", !.locks = {}]
  <2>1. Becomes(r, t) /\ t.locks = {}
    BY <1>1, <1>2 DEF InsertSet, Registrations
  <2>2. RegistrationOK(t)
    BY <1>1, <1>2 DEF RegistrationOK, Registrations, InRegistration, Inserted
  <2> HIDE DEF t, s
  <2> QED BY <1>1, <2>1, <2>2, Moves
<1>3. CASE ~IsThere(r)
  <2> DEFINE more == s.locks \cup {key}
             t == [s EXCEPT !.pc = "files", !.locks = more]
  <2>1. Becomes(r, t) /\ ~Waits(r, key)
    BY <1>3 DEF InsertSet, HashOf
  <2>2. key \in Keys
    BY <1>1 DEF Keys
  <2>3. t.pc = "files" /\ t.given = s.given /\ t.locks = more
    BY <1>1 DEF Registrations
  <2>4. t \in Registrations
    <3> HIDE DEF key, s
    <3> QED BY <1>1, <2>2 DEF Registrations, InRegistration
  <2> HIDE DEF s, t
  <2>5. \A q \in Registrars \ {r} : t.locks \cap reg[q].locks = {}
    BY <2>1, <2>3 DEF RegInv, LocksApart, Waits, s
  <2>6. RegistrationOK(t)
    BY <1>1, <1>3, <2>3, <2>4 DEF RegistrationOK, Inserted
  <2> QED BY <1>1, <2>1, <2>5, <2>6, Moves
<1> QED BY <1>2, <1>3

\* The rows that follow take no key another transaction waits for.
LEMMA StepMoves ==
  ASSUME RegInv, NEW r \in Registrars, InsertFiles(r) \/ InsertIndicators(r)
  PROVE  RegInv'
<1>1. PICK pc \in {"indicators", "commit"} :
        Becomes(r, [reg[r] EXCEPT !.pc = pc]) /\ NothingStored /\ UNCHANGED clock /\ reg[r].pc \in Inserted
  BY DEF InsertFiles, InsertIndicators, Inserted
<1> DEFINE t == [reg[r] EXCEPT !.pc = pc]
<1>2. reg[r] \in Registrations /\ RegistrationOK(reg[r]) /\ clock' \in 0 .. MaxRegistered
  BY <1>1, Registering
<1>3. t \in Registrations /\ t.pc = pc /\ t.given = reg[r].given /\ t.locks = reg[r].locks
  BY <1>2 DEF Registrations, InRegistration
<1>4. RegistrationOK(t)
  BY <1>1, <1>2, <1>3 DEF RegistrationOK, Inserted
<1>5. \A q \in Registrars \ {r} : t.locks \cap reg[q].locks = {}
  BY <1>3 DEF RegInv, LocksApart
<1> HIDE DEF t
<1> QED BY <1>1, <1>2, <1>4, <1>5, Moves DEF t

\* The row nobody else could insert meanwhile.
LEMMA CommitMoves ==
  ASSUME RegInv, NEW r \in Registrars, Commit(r)
  PROVE  RegInv'
<1> DEFINE g == reg[r].given
           s == [NotRegistering EXCEPT !.pc = "registered", !.given = g]
<1>1. /\ reg[r] \in Registrations /\ RegistrationOK(reg[r]) /\ reg[r].pc = "commit" /\ clock' = clock
      /\ clock \in 0 .. MaxRegistered /\ g \in Given /\ SetLoads(g)
      /\ registry' = registry \cup {Row(r)} /\ contents' = contents \cup FilesOf(g) /\ Becomes(r, s)
  BY Registering DEF Commit
<1>2. /\ <<"set", SetHash(g)>> \in reg[r].locks /\ ~There(SetHash(g))
  BY <1>1 DEF RegistrationOK, Inserted
<1>3. Row(r) = RowOf(g, reg[r].at) /\ Row(r).hash = SetHash(g) /\ Row(r).at = reg[r].at
  BY DEF Row, RowOf, HashOf
<1>4. s \in Registrations /\ s.pc = "registered" /\ s.given = g /\ s.locks = {}
  <2>1. s.pc = "registered" /\ s.given = g /\ s.locks = {}
    BY DEF NotRegistering
  <2>2. s \in Registrations
    <3> HIDE DEF g
    <3> QED BY <1>1, NotRegisteringIsOne DEF Registrations
  <2> QED BY <2>1, <2>2
<1> HIDE DEF g, s
<1>5. reg' \in [Registrars -> Registrations] /\ \A q \in Registrars : reg'[q] = IF q = r THEN s ELSE reg[q]
  BY <1>1, <1>4 DEF RegInv, Becomes
<1>6. \A hash : There(hash)' <=> There(hash) \/ hash = SetHash(g)
  BY <1>1, <1>3 DEF There
<1>7. ASSUME NEW q \in Registrars PROVE RegistrationOK(reg[q])'
  <2>1. CASE q = r
    <3>1. reg'[q] = s
      BY <1>5, <2>1
    <3>2. \E set \in registry' : set.hash = SetHash(g)
      BY <1>1, <1>3
    <3> QED BY <1>1, <1>4, <3>1, <3>2 DEF RegistrationOK, Inserted, There
  <2>2. CASE q # r
    <3> DEFINE t == reg[q]
    <3>1. reg'[q] = t /\ RegistrationOK(t)
      BY <1>5, <2>2 DEF RegInv
    <3>2. t.pc \in Inserted => SetHash(t.given) # SetHash(g)
      <4>1. t.locks \cap reg[r].locks = {}
        BY <2>2 DEF RegInv, LocksApart
      <4> QED BY <1>2, <3>1, <4>1 DEF RegistrationOK
    <3> HIDE DEF t
    <3> QED BY <1>6, <3>1, <3>2 DEF RegistrationOK
  <2> QED BY <2>1, <2>2
<1>8. LocksApart'
  BY <1>4, <1>5 DEF RegInv, LocksApart
<1>9. RegistryOK'
  <2>1. contents' \subseteq DOMAIN Files /\ clock' \in 0 .. MaxRegistered
    BY <1>1, FilesAreFiles DEF RegInv, RegistryOK
  <2>2. ASSUME NEW set \in registry' PROVE RowOK(set)'
    <3>1. CASE set \in registry
      <4>1. RowOK(set)
        BY <3>1 DEF RegInv, RegistryOK
      <4> QED BY <1>1, <4>1 DEF RowOK
    <3>2. CASE set = Row(r)
      BY <1>1, <1>3, <3>2 DEF RowOK
    <3> QED BY <1>1, <3>1, <3>2
  <2>3. ASSUME NEW a \in registry', NEW b \in registry', a.hash = b.hash PROVE a = b
    <3>1. \A set \in registry : set.hash # Row(r).hash
      BY <1>2, <1>3 DEF There
    <3> QED BY <1>1, <2>3, <3>1 DEF RegInv, RegistryOK
  <2> QED BY <2>1, <2>2, <2>3 DEF RegistryOK
<1> QED BY <1>5, <1>7, <1>8, <1>9 DEF RegInv

LEMMA RefindMoves ==
  ASSUME RegInv, NEW r \in Registrars, Refind(r)
  PROVE  RegInv'
<1> DEFINE s == [NotRegistering EXCEPT !.pc = "already", !.given = reg[r].given]
<1>1. reg[r].pc = "refind" /\ There(SetHash(reg[r].given)) /\ IsThere(r)
  BY Registering DEF Refind, RegistrationOK
<1>2. NothingStored /\ UNCHANGED clock /\ Becomes(r, s)
  BY <1>1 DEF Refind, Refound
<1>3. s.pc = "already" /\ s.given = reg[r].given /\ s.locks = {}
  BY DEF NotRegistering
<1>4. s \in Registrations
  BY <1>1, Registering, NotRegisteringIsOne DEF Registrations
<1> HIDE DEF s
<1> QED BY <1>1, <1>2, <1>3, <1>4, EndMoves

LEMMA InitRegInv == RegisterInit => RegInv
<1> SUFFICES ASSUME RegisterInit PROVE RegInv
  OBVIOUS
<1>1. reg \in [Registrars -> Registrations] /\ \A r \in Registrars : reg[r] = NotRegistering
  BY NotRegisteringIsOne DEF RegisterInit
<1>2. LocksApart
  BY <1>1 DEF LocksApart, NotRegistering
<1>3. RegistryOK
  BY IndicatorSetsAssumption DEF RegistryOK, RegisterInit
<1> QED BY <1>1, <1>2, <1>3, NotRegisteringIsOne DEF RegInv

LEMMA NextRegInv == RegInv /\ [Next]_vars => RegInv'
<1> SUFFICES ASSUME RegInv, [Next]_vars PROVE RegInv'
  OBVIOUS
<1>1. CASE UNCHANGED setVars
  BY <1>1 DEF setVars, RegInv, RegistrationOK, LocksApart, RegistryOK, RowOK, There
<1>2. CASE RegisterNext
  <2>1. PICK r \in Registrars : (\E g \in Given : Load(r, g)) \/ RegisterStep(r) \/ RegistrationFails(r)
    BY <1>2 DEF RegisterNext
  <2>2. CASE \E g \in Given : Load(r, g)
    BY <2>2, LoadMoves
  <2>3. CASE FindSet(r)
    BY <2>3, FindSetMoves
  <2>4. CASE InsertContents(r)
    BY <2>4, InsertContentsMoves
  <2>5. CASE InsertSet(r)
    BY <2>5, InsertSetMoves
  <2>6. CASE InsertFiles(r) \/ InsertIndicators(r)
    BY <2>6, StepMoves
  <2>7. CASE Commit(r)
    BY <2>7, CommitMoves
  <2>8. CASE Refind(r)
    BY <2>8, RefindMoves
  <2>9. CASE Exit(r) \/ RegistrationFails(r)
    BY <2>9, StopMoves DEF Exit, RegistrationFails
  <2> QED BY <2>1, <2>2, <2>3, <2>4, <2>5, <2>6, <2>7, <2>8, <2>9 DEF RegisterStep
<1> QED BY <1>1, <1>2 DEF Next, vars, setVars, bridgeVars, checkVars

\* A set is found by its hash, and its files are there.
LEMMA RegisteredIsThereHolds == RegInv => RegisteredIsThere
<1> SUFFICES ASSUME RegInv, NEW r \in Registrars
             PROVE  /\ reg[r].pc # "neither"
                    /\ reg[r].pc \in {"registered", "already"} =>
                         /\ Cardinality({set \in registry : set.hash = HashOf(r)}) = 1
                         /\ FilesOf(reg[r].given) \subseteq contents
  BY DEF RegisteredIsThere
<1>1. reg[r] \in Registrations /\ RegistrationOK(reg[r])
  BY Registering
<1>2. reg[r].pc # "neither"
  BY <1>1 DEF Registrations, InRegistration
<1>3. ASSUME reg[r].pc \in {"registered", "already"}
      PROVE  /\ Cardinality({set \in registry : set.hash = HashOf(r)}) = 1
             /\ FilesOf(reg[r].given) \subseteq contents
  <2>1. There(SetHash(reg[r].given))
    BY <1>1, <1>3 DEF RegistrationOK
  <2>2. PICK set \in registry : set.hash = SetHash(reg[r].given)
    BY <2>1 DEF There
  <2>3. {s \in registry : s.hash = HashOf(r)} = {set}
    BY <2>2 DEF RegInv, RegistryOK, HashOf
  <2>4. PICK g \in Given : SetLoads(g) /\ set = RowOf(g, set.at) /\ FilesOf(g) \subseteq contents
    BY <2>2 DEF RegInv, RegistryOK, RowOK
  <2>5. SetHash(g) = SetHash(reg[r].given)
    BY <2>2, <2>4 DEF RowOf
  <2>6. FilesOf(g) = FilesOf(reg[r].given)
    BY <2>5 DEF SetHash, FilesOf
  <2> QED BY <2>3, <2>4, <2>6, FS_Singleton
<1> QED BY <1>2, <1>3

\* Of a file that loads, what loads has something to test for.
LEMMA LoadedTests ==
  ASSUME NEW f \in DOMAIN Files, FileLoads(f), NEW obj \in Of(f, "loaded")
  PROVE  /\ obj \in Files[f].objects /\ 1 \in DOMAIN obj.tests
         /\ \A i \in DOMAIN obj.tests : Trouble(obj.tests[i]) = None
<1>1. /\ obj \in Files[f].objects /\ ~obj.revoked /\ Reason(obj) = None /\ ~Rejects(obj)
      /\ obj.bad \in {"no", "object", "pattern"} /\ obj.odd \in {None} \cup Reasons
      /\ obj.tests \in Seq([path : STRING, text : Texts])
      /\ (obj.bad = "no" /\ obj.stix /\ obj.odd = None => obj.tests # <<>>)
  BY FilesAssumption DEF Of, Fate, FileLoads
<1>2. None \notin Reasons
  BY FilesAssumption
<1>3. obj.stix /\ PatternReason(obj) = None
  BY <1>1, <1>2 DEF Reason, Reasons
<1>4. obj.odd = None
  BY <1>1, <1>2, <1>3 DEF PatternReason
<1>5. obj.bad = "no"
  BY <1>1, <1>3 DEF Rejects
<1>6. obj.tests # <<>> /\ Len(obj.tests) \in Nat /\ DOMAIN obj.tests = 1 .. Len(obj.tests) /\ DOMAIN obj.tests \subseteq Nat
  BY <1>1, <1>3, <1>4, <1>5, LenProperties
<1>7. 1 \in DOMAIN obj.tests
  BY <1>1, <1>6, EmptySeq
<1>8. ASSUME NEW i \in DOMAIN obj.tests, Trouble(obj.tests[i]) # None PROVE FALSE
  <2> DEFINE wrong == {j \in DOMAIN obj.tests : Trouble(obj.tests[j]) # None}
  <2>1. wrong # {} /\ wrong \subseteq Nat
    BY <1>6, <1>8
  <2>2. Min(wrong) \in wrong
    <3> HIDE DEF wrong
    <3> QED BY <2>1, LeastIsIn
  <2>3. Trouble(obj.tests[Min(wrong)]) # None
    BY <2>2
  <2>4. PatternReason(obj) = Trouble(obj.tests[Min(wrong)])
    BY <1>4, <2>1 DEF PatternReason
  <2> QED BY <1>3, <2>3, <2>4
<1> QED BY <1>1, <1>7, <1>8

\* The rows of a file are those of its loaded objects' tests.
LEMMA IndicatorsOfFile ==
  ASSUME NEW f, NEW i
  PROVE  i \in Indicators(f) <=>
           \E obj \in Of(f, "loaded") : \E k \in DOMAIN obj.tests :
             i = [file |-> f, id |-> obj.id, path |-> obj.tests[k].path, type |-> TypeOf(obj.tests[k].path),
                  normal |-> Normalize(TypeOf(obj.tests[k].path), obj.tests[k].text), expired |-> obj.expired]
<1> DEFINE row(obj, test) ==
             [file |-> f, id |-> obj.id, path |-> test.path, type |-> TypeOf(test.path),
              normal |-> Normalize(TypeOf(test.path), test.text), expired |-> obj.expired]
<1>1. \A v : v \in AllOfIt(f) <=> \E obj \in Of(f, "loaded") : \E k \in DOMAIN obj.tests : v = <<obj, k>>
  BY DEF AllOfIt
<1>2. i \in Indicators(f) <=> \E v \in AllOfIt(f) : i = row(v[1], v[1].tests[v[2]])
  BY DEF Indicators
<1> HIDE DEF row
<1>3. i \in Indicators(f) <=> \E obj \in Of(f, "loaded") : \E k \in DOMAIN obj.tests : i = row(obj, obj.tests[k])
  <2>1. ASSUME i \in Indicators(f)
        PROVE  \E obj \in Of(f, "loaded") : \E k \in DOMAIN obj.tests : i = row(obj, obj.tests[k])
    <3>1. PICK v \in AllOfIt(f) : i = row(v[1], v[1].tests[v[2]])
      BY <1>2, <2>1
    <3>2. PICK obj \in Of(f, "loaded") : \E k \in DOMAIN obj.tests : v = <<obj, k>>
      BY <1>1
    <3>3. PICK k \in DOMAIN obj.tests : v = <<obj, k>>
      BY <3>2
    <3>4. v[1] = obj /\ v[2] = k
      BY <3>3
    <3> QED BY <3>1, <3>4
  <2>2. ASSUME NEW obj \in Of(f, "loaded"), NEW k \in DOMAIN obj.tests, i = row(obj, obj.tests[k])
        PROVE  i \in Indicators(f)
    <3> DEFINE v == <<obj, k>>
    <3>1. v \in AllOfIt(f)
      BY <1>1
    <3>2. v[1] = obj /\ v[2] = k
      OBVIOUS
    <3> HIDE DEF v
    <3>3. i = row(v[1], v[1].tests[v[2]])
      BY <2>2, <3>2
    <3> QED BY <1>2, <3>1, <3>3
  <2> QED BY <2>1, <2>2
<1> QED BY <1>3 DEF row

\* The objects loaded of a registered file.
LEMMA LoadedIs == RegInv => \A set \in registry : \A f \in DOMAIN set.files : Loaded[f] = Of(f, "loaded")
<1> SUFFICES ASSUME RegInv, NEW set \in registry, NEW f \in DOMAIN set.files PROVE Loaded[f] = Of(f, "loaded")
  OBVIOUS
<1>1. PICK g \in Given : set = RowOf(g, set.at)
  BY DEF RegInv, RegistryOK, RowOK
<1>2. f \in DOMAIN Files
  BY <1>1, FilesAreFiles DEF RowOf
<1> QED BY <1>2 DEF Loaded

LEMMA EveryObjectHolds == RegInv => EveryObjectAccountedFor
<1> SUFFICES ASSUME RegInv, NEW set \in registry, NEW f \in DOMAIN set.files
             PROVE  LET report == set.files[f] IN
                    /\ report.loaded + report.revoked + CountUnsupported(report) = report.objects
                    /\ {i.id : i \in {i \in set.indicators : i.file = f}} = {obj.id : obj \in Of(f, "loaded")}
                    /\ \A obj \in Of(f, "loaded") : \A i \in DOMAIN obj.tests :
                         \E ind \in set.indicators : ind.id = obj.id /\ ind.path = obj.tests[i].path
  BY LoadedIs DEF EveryObjectAccountedFor
<1> DEFINE report == set.files[f]
<1>1. PICK g \in Given : SetLoads(g) /\ set = RowOf(g, set.at)
  BY DEF RegInv, RegistryOK, RowOK
<1>2. set.files = [h \in FilesOf(g) |-> FileReport(h)] /\ set.indicators = UNION {Indicators(h) : h \in FilesOf(g)}
  BY <1>1 DEF RowOf
<1>3. f \in FilesOf(g) /\ f \in DOMAIN Files /\ report = FileReport(f) /\ FileLoads(f)
  BY <1>1, <1>2, FilesAreFiles DEF SetLoads
<1>4. report.loaded + report.revoked + CountUnsupported(report) = report.objects
  <2> HIDE DEF report
  <2> QED BY <1>3, ReportAddsUp
<1>5. \A i \in set.indicators : i.file = f => i \in Indicators(f)
  BY <1>2, IndicatorsOfFile
<1>6. Indicators(f) \subseteq set.indicators
  BY <1>2, <1>3
<1>7. ASSUME NEW obj \in Of(f, "loaded"), NEW k \in DOMAIN obj.tests
      PROVE  \E ind \in set.indicators : ind.id = obj.id /\ ind.path = obj.tests[k].path /\ ind.file = f
  <2> DEFINE ind == [file |-> f, id |-> obj.id, path |-> obj.tests[k].path, type |-> TypeOf(obj.tests[k].path),
                     normal |-> Normalize(TypeOf(obj.tests[k].path), obj.tests[k].text), expired |-> obj.expired]
  <2>1. ind \in Indicators(f)
    BY IndicatorsOfFile
  <2>2. ind.id = obj.id /\ ind.path = obj.tests[k].path /\ ind.file = f
    OBVIOUS
  <2> HIDE DEF ind
  <2> QED BY <1>6, <2>1, <2>2
<1>8. \A i \in Indicators(f) : \E obj \in Of(f, "loaded") : i.id = obj.id
  BY IndicatorsOfFile
<1>9. {i.id : i \in {i \in set.indicators : i.file = f}} = {obj.id : obj \in Of(f, "loaded")}
  <2>1. \A obj \in Of(f, "loaded") : \E i \in set.indicators : i.file = f /\ i.id = obj.id
    BY <1>3, <1>7, LoadedTests
  <2> QED BY <1>5, <1>8, <2>1
<1> QED BY <1>4, <1>7, <1>9

\* Of the registrations that wait for a file's row, the one that waits for the
\* greatest waits for one that does not.
LEMMA SomeRegistrationHolds == RegInv => SomeRegistrationGoesOn
<1> DEFINE underWay == {r \in Registrars : reg[r].pc \in InRegistration}
           rowsWaited == {Min(reg[r].todo) : r \in {r \in Registrars : reg[r].pc = "contents" /\ reg[r].todo # {}}}
<1> SUFFICES ASSUME RegInv, underWay # {}, \A r \in underWay : Blocked(r) PROVE FALSE
  BY DEF SomeRegistrationGoesOn
<1>1. ASSUME NEW r \in Registrars, reg[r].pc = "contents", reg[r].todo # {}
      PROVE  Min(reg[r].todo) \in reg[r].todo /\ reg[r].todo \subseteq DOMAIN Files
  <2>1. reg[r].todo \subseteq DOMAIN Files /\ DOMAIN Files \subseteq Nat
    BY Registering, IndicatorSetsAssumption DEF Registrations
  <2> QED BY <1>1, <2>1, LeastIsIn
<1>2. ASSUME NEW r \in Registrars, NEW key, key \in reg[r].locks
      PROVE  /\ reg[r].pc \in {"contents", "set"} \cup Inserted /\ r \in underWay
             /\ reg[r].pc \notin Inserted
             /\ (\A g \in Given : key # <<"set", SetHash(g)>>)
  <2>1. RegistrationOK(reg[r])
    BY Registering
  <2>2. reg[r].pc \in {"contents", "set"} \cup Inserted
    BY <1>2, <2>1 DEF RegistrationOK
  <2>3. r \in underWay
    BY <2>2 DEF InRegistration, Inserted
  <2>4. reg[r].pc \notin Inserted
    BY <2>3 DEF Blocked, Inserted
  <2> QED BY <1>2, <2>1, <2>2, <2>3, <2>4 DEF RegistrationOK
<1>3. ASSUME NEW r \in underWay
      PROVE  reg[r].pc = "contents" /\ reg[r].todo # {} /\ Waits(r, <<"content", Min(reg[r].todo)>>)
  <2>1. r \in Registrars /\ reg[r].pc # "off" /\ reg[r].given \in Given
    BY Registering DEF InRegistration
  <2>2. ~Waits(r, <<"set", HashOf(r)>>)
    BY <1>2, <2>1 DEF Waits, HashOf
  <2> QED BY <2>2 DEF Blocked
<1>4. rowsWaited # {} /\ rowsWaited \subseteq DOMAIN Files
  BY <1>1, <1>3
<1>5. rowsWaited \subseteq Nat /\ IsFiniteSet(rowsWaited)
  BY <1>4, IndicatorSetsAssumption, FS_Subset
<1>6. PICK top \in rowsWaited : \A f \in rowsWaited : f <= top
  <2> HIDE DEF rowsWaited
  <2> QED BY <1>4, <1>5, GreatestIsThere
<1>7. PICK r \in underWay : reg[r].pc = "contents" /\ reg[r].todo # {} /\ top = Min(reg[r].todo)
  BY DEF InRegistration
<1>8. PICK q \in Registrars : <<"content", top>> \in reg[q].locks
  BY <1>3, <1>7 DEF Waits
<1>9. q \in underWay
  BY <1>2, <1>8
<1>10. reg[q].pc = "contents" /\ reg[q].todo # {} /\ Min(reg[q].todo) \in rowsWaited
  BY <1>3, <1>9
<1>11. top \in DOMAIN Files /\ Min(reg[q].todo) \in reg[q].todo
  BY <1>1, <1>4, <1>10
<1>12. top < Min(reg[q].todo)
  BY <1>8, <1>10, <1>11, Registering DEF RegistrationOK
<1>13. Min(reg[q].todo) <= top /\ top \in Nat /\ Min(reg[q].todo) \in Nat
  BY <1>5, <1>6, <1>10
<1> QED BY <1>12, <1>13

-------------------------------------------------------------------------------
(* The report: what a unit of facts holds of it. *)

LEMMA HeadersApart ==
  ASSUME NEW a, NEW t \in DOMAIN Tables, NEW fixes, Planned(a, Tables[t], fixes),
         NEW c \in Tables[t].columns, NEW e \in Tables[t].columns, a.headers[c] = a.headers[e]
  PROVE  c = e
<1> DEFINE columns == Tables[t].columns
           headers == {a.headers[x] : x \in columns}
           f == [x \in columns |-> a.headers[x]]
<1>1. IsFiniteSet(columns) /\ Cardinality(columns) = Cardinality(headers)
  BY TablesAssumption DEF Planned
<1>2. f \in Surjection(columns, headers)
  BY DEF Surjection
<1>3. f \in Injection(columns, headers)
  <2> HIDE DEF columns, headers, f
  <2> QED BY <1>1, <1>2, FS_SurjSameCardinalityImpliesInj
<1>4. c \in columns /\ e \in columns /\ f[c] = f[e]
  OBVIOUS
<1> HIDE DEF columns, headers, f
<1> QED BY <1>3, <1>4 DEF Injection, IsInjective

\* A row is kept under its headers, each column's value under its own.
LEMMA RowKept ==
  ASSUME NEW a, NEW t \in DOMAIN Tables, NEW fixes, Planned(a, Tables[t], fixes), NEW row,
         NEW c \in Tables[t].columns
  PROVE  Record(a, Tables[t], row, fixes).fields[a.headers[c]] = row[c]
<1>1. (CHOOSE e \in Tables[t].columns : a.headers[e] = a.headers[c]) = c
  BY HeadersApart
<1>2. a.headers[c] \in {a.headers[e] : e \in Tables[t].columns}
  OBVIOUS
<1>3. Kept(a, Tables[t], row, fixes)[a.headers[c]] = row[c]
  BY <1>1, <1>2 DEF Kept
<1> QED BY <1>3 DEF Record

\* What a correction makes of a value it applies to.
LEMMA CorrectionScales ==
  ASSUME NEW t \in DOMAIN Tables, NEW i \in DOMAIN Tables[t].rows, NEW c \in Tables[t].columns,
         NEW a, NEW v \in Versions, NEW fixes \in SUBSET Defects[v],
         \E d \in FixOf(a, c, fixes) : Applies(d, Tables[t].rows[i][c])
  PROVE  LET value == Tables[t].rows[i][c] now == Effective(a, c, value, fixes) IN
         \E d \in FixOf(a, c, fixes) : /\ Applies(d, value) /\ value.at \in Int /\ d.factor \in Nat /\ d.factor > 1
                                       /\ now.is = "time" /\ now.at = value.at * d.factor /\ now # value
<1> DEFINE value == Tables[t].rows[i][c]
           d == CHOOSE d \in FixOf(a, c, fixes) : Applies(d, value)
<1>1. d \in FixOf(a, c, fixes) /\ Applies(d, value)
  OBVIOUS
<1>2. Effective(a, c, value, fixes) = Corrected(d, value)
  BY DEF Effective
<1>3. d.factor \in Nat /\ d.factor > 1
  BY <1>1, DefectsAssumption DEF FixOf
<1>4. value \in [is : {"time"}, at : Int] /\ value.at > 0
  BY <1>1, TablesAssumption DEF Applies
<1> HIDE DEF value, d
<1>5. Corrected(d, value).at = value.at * d.factor /\ Corrected(d, value).is = "time"
  BY <1>4 DEF Corrected
<1>6. value.at * d.factor # value.at
  <2> DEFINE n == value.at k == d.factor
  <2>1. n \in Int /\ n > 0 /\ k \in Nat /\ k > 1
    BY <1>3, <1>4
  <2> HIDE DEF n, k
  <2>2. n * k = n + n * (k - 1) /\ n * (k - 1) > 0
    BY <2>1
  <2>3. n * k # n
    BY <2>1, <2>2
  <2> QED BY <2>3 DEF n, k
<1> QED BY <1>1, <1>2, <1>3, <1>4, <1>5, <1>6 DEF value

UnitOK(u) ==
  LET a == Artifacts[u.content.artifact] table == Tables[u.content.table]
      fixes == Fixes(a, u.ver, Reports[u.of].tool) IN
  /\ u.content.artifact \in DOMAIN Artifacts /\ u.content.table \in DOMAIN Tables
  /\ u.content = Content(u.content.artifact, u.content.table, {})
  /\ u.ver \in Versions /\ u.of \in DOMAIN Reports /\ u.content.artifact \in Reports[u.of].artifacts
  /\ a.table # NoValue /\ Scanned(a, table, fixes) /\ u.facts = Records(a, table, fixes)
  /\ \E p \in DOMAIN Reports : TablesAgree(u.of, p) /\ u.content.table = Reports[p].tables[a.table]

\* What the stage has got to: each artifact is yet to be read, failed, or filed.
StageFiles(a) ==
  /\ Artifacts[a].table # NoValue
  /\ \E u \in units : u.content = Content(a, TableOf(a), {}) /\ u.ver = stage.ver
Stages ==
  [pc : Resting \cup {"manifest", "open", "artifacts"}, ver : Nat, read : DOMAIN Reports \cup {NoValue},
   db : DOMAIN Reports \cup {NoValue}, left : SUBSET DOMAIN Artifacts, failed : SUBSET DOMAIN Artifacts]
StageOK ==
  /\ stage \in Stages
  /\ stage.pc \notin Resting => stage.ver \in Versions
  /\ stage.pc = "open" => stage.read \in DOMAIN Reports
  /\ stage.pc \in {"artifacts", "done"} =>
       /\ stage.read \in DOMAIN Reports /\ stage.db \in DOMAIN Reports /\ TablesAgree(stage.read, stage.db)
       /\ stage.ver \in Versions /\ stage.left \subseteq Reports[stage.read].artifacts
       /\ \A a \in Reports[stage.read].artifacts : a \in stage.left \/ a \in stage.failed \/ StageFiles(a)
  /\ stage.pc = "done" => stage.left = {}
BridgeInv ==
  /\ disk \in DOMAIN Reports /\ replaced \in 0 .. MaxReplaced /\ stages \in 0 .. MaxStages /\ StageOK
  /\ IsFiniteSet(units) /\ \A u \in units : UnitOK(u) /\ u.ver <= stage.ver
  /\ \A u, w \in units : u.content = w.content /\ u.ver = w.ver => u = w

LEMMA InitBridgeInv == BridgeInit => BridgeInv
<1> SUFFICES ASSUME BridgeInit PROVE BridgeInv
  OBVIOUS
<1>1. StageOK
  BY DEF BridgeInit, StageOK, Stages, NoStage, Resting
<1>2. 0 \in 0 .. MaxReplaced /\ 0 \in 0 .. MaxStages
  BY IleappReportAssumption
<1> QED BY <1>1, <1>2, FS_EmptySet DEF BridgeInit, BridgeInv

\* A step that files nothing, and no lower a version.
LEMMA StageMoves ==
  ASSUME BridgeInv, units' = units, StageOK', stage'.ver >= stage.ver, disk' \in DOMAIN Reports,
         replaced' \in 0 .. MaxReplaced, stages' \in 0 .. MaxStages
  PROVE  BridgeInv'
<1>1. ASSUME NEW u \in units PROVE UnitOK(u) /\ u.ver <= stage'.ver
  <2>1. u.ver \in Nat /\ u.ver <= stage.ver /\ stage.ver \in Nat /\ stage'.ver \in Nat /\ UnitOK(u)
    BY IleappReportAssumption DEF BridgeInv, UnitOK, StageOK, Stages
  <2> QED BY <2>1
<1> QED BY <1>1 DEF BridgeInv, UnitOK

LEMMA BridgeFacts ==
  ASSUME BridgeInv
  PROVE  /\ stage \in Stages /\ stage.ver \in Nat /\ StageOK /\ Versions \subseteq Nat
         /\ disk \in DOMAIN Reports /\ replaced \in 0 .. MaxReplaced /\ stages \in 0 .. MaxStages
         /\ MaxStages \in Nat /\ MaxReplaced \in Nat
         /\ \A r \in DOMAIN Reports : Reports[r].artifacts \subseteq DOMAIN Artifacts
BY IleappReportAssumption DEF BridgeInv, StageOK, Stages

LEMMA StartMoves ==
  ASSUME BridgeInv, NEW v \in Versions, StartStage(v)
  PROVE  BridgeInv'
<1> DEFINE s == [NoStage EXCEPT !.pc = "manifest", !.ver = v]
<1>1. stage' = s /\ v \in Nat /\ v >= stage.ver
  BY BridgeFacts DEF StartStage
<1>2. NoStage \in Stages
  BY DEF NoStage, Stages, Resting
<1>3. s \in Stages /\ s.pc = "manifest" /\ s.ver = v
  BY <1>1, <1>2 DEF Stages
<1> HIDE DEF s
<1>4. StageOK' /\ stage'.ver >= stage.ver
  BY <1>1, <1>3 DEF StageOK, Resting
<1>5. units' = units /\ disk' = disk /\ replaced' = replaced /\ stages' \in 0 .. MaxStages
  BY BridgeFacts DEF StartStage
<1> QED BY <1>4, <1>5, BridgeFacts, StageMoves

LEMMA FailMoves ==
  ASSUME BridgeInv, stage' = Failed, UNCHANGED <<disk, replaced, units, stages>>
  PROVE  BridgeInv'
<1>1. NoStage \in Stages
  BY DEF NoStage, Stages, Resting
<1>2. Failed \in Stages /\ Failed.pc = "failed" /\ Failed.ver = stage.ver
  BY <1>1, BridgeFacts DEF Failed, Stages, Resting
<1>3. StageOK' /\ stage'.ver >= stage.ver
  BY <1>2, BridgeFacts DEF StageOK, Resting
<1> QED BY <1>3, BridgeFacts, StageMoves

LEMMA ReadManifestMoves ==
  ASSUME BridgeInv, ReadManifest
  PROVE  BridgeInv'
<1>1. CASE ManifestReads(disk)
  <2> DEFINE s == [stage EXCEPT !.pc = "open", !.read = disk]
  <2>1. stage' = s /\ stage.pc = "manifest" /\ stage.ver \in Versions
    BY <1>1, BridgeFacts DEF ReadManifest, StageOK, Resting
  <2>2. s \in Stages /\ s.pc = "open" /\ s.ver = stage.ver /\ s.read = disk
    BY BridgeFacts DEF Stages
  <2> HIDE DEF s
  <2>3. StageOK' /\ stage'.ver >= stage.ver
    BY <2>1, <2>2, BridgeFacts DEF StageOK, Resting
  <2> QED BY <2>3, BridgeFacts, StageMoves DEF ReadManifest
<1>2. CASE ~ManifestReads(disk)
  BY <1>2, FailMoves DEF ReadManifest
<1> QED BY <1>1, <1>2

LEMMA OpenMoves ==
  ASSUME BridgeInv, Open
  PROVE  BridgeInv'
<1>1. CASE DatabaseOpens(disk) /\ TablesAgree(stage.read, disk)
  <2> DEFINE s == [stage EXCEPT !.pc = "artifacts", !.db = disk, !.left = Reports[stage.read].artifacts]
  <2>1. stage' = s /\ stage.pc = "open" /\ stage.ver \in Versions /\ stage.read \in DOMAIN Reports
    BY <1>1, BridgeFacts DEF Open, StageOK, Resting
  <2>2. Reports[stage.read].artifacts \subseteq DOMAIN Artifacts
    BY <2>1, BridgeFacts
  <2>3. /\ s \in Stages /\ s.pc = "artifacts" /\ s.ver = stage.ver /\ s.read = stage.read /\ s.db = disk
        /\ s.left = Reports[stage.read].artifacts
    BY <2>2, BridgeFacts DEF Stages
  <2> HIDE DEF s
  <2>4. StageOK' /\ stage'.ver >= stage.ver
    BY <1>1, <2>1, <2>3, BridgeFacts DEF StageOK, Resting
  <2> QED BY <2>4, BridgeFacts, StageMoves DEF Open
<1>2. CASE ~(DatabaseOpens(disk) /\ TablesAgree(stage.read, disk))
  BY <1>2, FailMoves DEF Open
<1> QED BY <1>1, <1>2

LEMMA EndMovesStage ==
  ASSUME BridgeInv, EndStage
  PROVE  BridgeInv'
<1> DEFINE s == [stage EXCEPT !.pc = "done"]
<1>1. stage' = s /\ stage.pc = "artifacts" /\ stage.left = {} /\ units' = units
  BY DEF EndStage
<1>2. /\ s \in Stages /\ s.pc = "done" /\ s.ver = stage.ver /\ s.read = stage.read /\ s.db = stage.db
      /\ s.left = {} /\ s.failed = stage.failed
  BY <1>1, BridgeFacts DEF Stages, Resting
<1> HIDE DEF s
<1>3. StageOK' /\ stage'.ver >= stage.ver
  BY <1>1, <1>2, BridgeFacts DEF StageOK, Resting, StageFiles, TableOf
<1> QED BY <1>3, BridgeFacts, StageMoves DEF EndStage

\* An artifact is one of the report that was read, its table one that was opened.
LEMMA ArtifactToRead ==
  ASSUME BridgeInv, stage.pc = "artifacts", NEW a \in stage.left, Artifacts[a].table # NoValue
  PROVE  /\ a \in DOMAIN Artifacts /\ a \in Reports[stage.read].artifacts /\ TableOf(a) \in DOMAIN Tables
         /\ stage.read \in DOMAIN Reports /\ stage.db \in DOMAIN Reports /\ TablesAgree(stage.read, stage.db)
         /\ stage.ver \in Versions
<1>1. /\ stage.read \in DOMAIN Reports /\ stage.db \in DOMAIN Reports /\ TablesAgree(stage.read, stage.db)
      /\ stage.ver \in Versions /\ stage.left \subseteq Reports[stage.read].artifacts
  BY BridgeFacts DEF StageOK
<1>2. a \in Reports[stage.read].artifacts /\ a \in DOMAIN Artifacts
  BY <1>1, BridgeFacts
<1>3. Artifacts[a].table \in DOMAIN Reports[stage.db].tables
  BY <1>1, <1>2 DEF TablesAgree, Described
<1>4. TableOf(a) \in DOMAIN Tables
  BY <1>1, <1>3, IleappReportAssumption DEF TableOf
<1> QED BY <1>1, <1>2, <1>4

LEMMA IngestArtifactMoves ==
  ASSUME BridgeInv, IngestArtifact
  PROVE  BridgeInv'
<1>1. stage.pc = "artifacts" /\ UNCHANGED <<disk, replaced, stages>>
  BY DEF IngestArtifact
<1>2. PICK a \in stage.left :
        \/ /\ Artifacts[a].table # NoValue /\ Scanned(Artifacts[a], Tables[TableOf(a)], FixesOf(a))
           /\ stage' = [stage EXCEPT !.left = @ \ {a}]
           /\ units' = IF Filed(Content(a, TableOf(a), FixesOf(a)), stage.ver) # {} THEN units
                       ELSE units \cup {[content |-> Content(a, TableOf(a), FixesOf(a)), ver |-> stage.ver, of |-> stage.read,
                                         facts |-> Records(Artifacts[a], Tables[TableOf(a)], FixesOf(a))]}
        \/ stage' = [[stage EXCEPT !.left = @ \ {a}] EXCEPT !.failed = @ \cup {a}] /\ UNCHANGED units
  BY DEF IngestArtifact
<1>3. /\ stage \in Stages /\ stage.ver \in Nat /\ StageOK /\ a \in DOMAIN Artifacts
      /\ \A b \in Reports[stage.read].artifacts : b \in stage.left \/ b \in stage.failed \/ StageFiles(b)
  <2>1. stage.left \subseteq DOMAIN Artifacts
    BY BridgeFacts DEF Stages
  <2> QED BY <1>1, <2>1, BridgeFacts DEF StageOK
<1>4. ASSUME stage' = [[stage EXCEPT !.left = @ \ {a}] EXCEPT !.failed = @ \cup {a}], UNCHANGED units
      PROVE  BridgeInv'
  <2>1. /\ stage' \in Stages /\ stage'.pc = "artifacts" /\ stage'.ver = stage.ver /\ stage'.read = stage.read
        /\ stage'.db = stage.db /\ stage'.left = stage.left \ {a} /\ stage'.failed = stage.failed \cup {a}
    BY <1>1, <1>3, <1>4 DEF Stages
  <2>2. StageOK' /\ stage'.ver >= stage.ver
    BY <1>1, <1>3, <1>4, <2>1 DEF StageOK, Resting, StageFiles, TableOf
  <2> QED BY <1>1, <1>4, <2>2, BridgeFacts, StageMoves
<1>5. ASSUME Artifacts[a].table # NoValue, Scanned(Artifacts[a], Tables[TableOf(a)], FixesOf(a)),
             stage' = [stage EXCEPT !.left = @ \ {a}],
             units' = IF Filed(Content(a, TableOf(a), FixesOf(a)), stage.ver) # {} THEN units
                      ELSE units \cup {[content |-> Content(a, TableOf(a), FixesOf(a)), ver |-> stage.ver, of |-> stage.read,
                                        facts |-> Records(Artifacts[a], Tables[TableOf(a)], FixesOf(a))]}
      PROVE  BridgeInv'
  <2> DEFINE t == TableOf(a)
             content == Content(a, t, {})
             w == [content |-> content, ver |-> stage.ver, of |-> stage.read,
                   facts |-> Records(Artifacts[a], Tables[t], FixesOf(a))]
  <2>1. Content(a, t, FixesOf(a)) = content /\ content.artifact = a /\ content.table = t
    BY DEF Content
  <2>2. /\ a \in Reports[stage.read].artifacts /\ t \in DOMAIN Tables /\ stage.read \in DOMAIN Reports
        /\ stage.db \in DOMAIN Reports /\ TablesAgree(stage.read, stage.db) /\ stage.ver \in Versions
    BY <1>1, <1>5, ArtifactToRead
  <2>3. units' = IF Filed(content, stage.ver) # {} THEN units ELSE units \cup {w}
    BY <1>5, <2>1
  <2>4. /\ w.content = content /\ w.ver = stage.ver /\ w.of = stage.read
        /\ w.facts = Records(Artifacts[a], Tables[t], FixesOf(a))
    OBVIOUS
  <2>5. t = Reports[stage.db].tables[Artifacts[a].table] /\ FixesOf(a) = Fixes(Artifacts[a], stage.ver, Reports[stage.read].tool)
    BY DEF TableOf, FixesOf
  <2> HIDE DEF w, t, content
  <2>6. content = Content(content.artifact, content.table, {})
    BY <2>1 DEF content
  <2>7. UnitOK(w)
    BY <1>3, <1>5, <2>1, <2>2, <2>4, <2>5, <2>6 DEF UnitOK, t
  <2>8. /\ stage' \in Stages /\ stage'.pc = "artifacts" /\ stage'.ver = stage.ver /\ stage'.read = stage.read
        /\ stage'.db = stage.db /\ stage'.left = stage.left \ {a} /\ stage'.failed = stage.failed
    BY <1>1, <1>3, <1>5 DEF Stages
  <2>9. units \subseteq units' /\ units' \subseteq units \cup {w}
    BY <2>3
  <2>10. \E u \in units' : u.content = content /\ u.ver = stage.ver
    BY <2>3, <2>4 DEF Filed
  <2>11. \A b : Content(b, TableOf(b), {})' = Content(b, TableOf(b), {})
    BY <2>8 DEF Content, TableOf
  <2>12. ASSUME NEW b \in Reports[stage.read].artifacts
         PROVE  b \in stage'.left \/ b \in stage'.failed \/ StageFiles(b)'
    <3>1. CASE b = a
      BY <1>5, <2>8, <2>10, <2>11, <3>1 DEF StageFiles, content, t
    <3>2. CASE b # a
      BY <1>3, <2>8, <2>9, <2>11, <3>2 DEF StageFiles
    <3> QED BY <3>1, <3>2
  <2>13. StageOK'
    BY <1>1, <1>3, <2>2, <2>8, <2>12 DEF StageOK, Resting
  <2>14. ASSUME NEW u \in units' PROVE UnitOK(u) /\ u.ver <= stage'.ver
    BY <1>3, <2>4, <2>7, <2>8, <2>9 DEF BridgeInv
  <2>15. IsFiniteSet(units')
    <3>1. IsFiniteSet(units \cup {w})
      BY FS_AddElement DEF BridgeInv
    <3> QED BY <2>9, <3>1, FS_Subset
  <2>16. ASSUME NEW u \in units', NEW v \in units', u.content = v.content, u.ver = v.ver PROVE u = v
    BY <2>3, <2>4, <2>16 DEF BridgeInv, Filed
  <2> QED BY <1>1, <2>13, <2>14, <2>15, <2>16 DEF BridgeInv, UnitOK
<1> QED BY <1>2, <1>4, <1>5

LEMMA NextBridgeInv == BridgeInv /\ [Next]_vars => BridgeInv'
<1> SUFFICES ASSUME BridgeInv, [Next]_vars PROVE BridgeInv'
  OBVIOUS
<1>1. CASE UNCHANGED bridgeVars
  BY <1>1 DEF bridgeVars, BridgeInv, StageOK, StageFiles, TableOf, UnitOK
<1>2. CASE BridgeNext
  <2>1. ASSUME NEW v \in Versions, StartStage(v) PROVE BridgeInv'
    BY <2>1, StartMoves
  <2>2. CASE ReadManifest
    BY <2>2, ReadManifestMoves
  <2>3. CASE Open
    BY <2>3, OpenMoves
  <2>4. CASE IngestArtifact
    BY <2>4, IngestArtifactMoves
  <2>5. CASE EndStage
    BY <2>5, EndMovesStage
  <2>6. CASE StageDies
    BY <2>6, FailMoves DEF StageDies
  <2>7. CASE ReplaceReport
    <3>1. disk' \in DOMAIN Reports /\ replaced' \in 0 .. MaxReplaced /\ UNCHANGED <<units, stage, stages>>
      BY <2>7, BridgeFacts DEF ReplaceReport
    <3> QED BY <3>1 DEF BridgeInv, StageOK, StageFiles, TableOf, UnitOK
  <2> QED BY <1>2, <2>1, <2>2, <2>3, <2>4, <2>5, <2>6, <2>7 DEF BridgeNext
<1> QED BY <1>1, <1>2 DEF Next, vars, setVars, bridgeVars, checkVars

\* A unit's facts are its table's rows, one each.
LEMMA FactsAreRows ==
  ASSUME NEW u, UnitOK(u)
  PROVE  LET a == Artifacts[u.content.artifact] table == Tables[u.content.table]
             fixes == Fixes(a, u.ver, Reports[u.of].tool) IN
         /\ DOMAIN u.facts = DOMAIN table.rows /\ u.facts \in Seq({u.facts[i] : i \in DOMAIN u.facts})
         /\ Len(u.facts) = Len(table.rows)
         /\ \A i \in DOMAIN u.facts : u.facts[i] = Record(a, table, table.rows[i], fixes)
         /\ \A i \in DOMAIN u.facts : \A c \in table.columns : u.facts[i].fields[a.headers[c]] = table.rows[i][c]
<1> DEFINE a == Artifacts[u.content.artifact]
           table == Tables[u.content.table]
           fixes == Fixes(a, u.ver, Reports[u.of].tool)
<1>1. /\ u.content.table \in DOMAIN Tables /\ Planned(a, table, fixes)
      /\ u.facts = [i \in DOMAIN table.rows |-> Record(a, table, table.rows[i], fixes)]
  BY DEF UnitOK, Scanned, Records
<1>2. table.rows \in Seq({table.rows[i] : i \in DOMAIN table.rows})
  BY <1>1, TablesAssumption
<1>3. Len(table.rows) \in Nat /\ DOMAIN table.rows = 1 .. Len(table.rows)
  BY <1>2, LenProperties
<1>4. ASSUME NEW i \in DOMAIN u.facts
      PROVE  /\ u.facts[i] = Record(a, table, table.rows[i], fixes)
             /\ \A c \in table.columns : u.facts[i].fields[a.headers[c]] = table.rows[i][c]
  <2>1. u.facts[i] = Record(a, table, table.rows[i], fixes)
    BY <1>1
  <2>2. ASSUME NEW c \in table.columns PROVE u.facts[i].fields[a.headers[c]] = table.rows[i][c]
    <3> DEFINE row == table.rows[i]
    <3> HIDE DEF a, fixes, row
    <3>1. Record(a, table, row, fixes).fields[a.headers[c]] = row[c]
      BY <1>1, RowKept
    <3> QED BY <2>1, <3>1 DEF row
  <2> QED BY <2>1, <2>2
<1>5. DOMAIN u.facts = DOMAIN table.rows /\ DOMAIN u.facts = 1 .. Len(table.rows)
  BY <1>1, <1>3
<1>6. u.facts \in Seq({u.facts[i] : i \in DOMAIN u.facts}) /\ Len(u.facts) = Len(table.rows)
  <2> DEFINE n == Len(table.rows) facts == u.facts values == {facts[i] : i \in DOMAIN facts}
  <2>1. facts = [i \in 1 .. n |-> facts[i]]
    BY <1>1, <1>3
  <2>2. n \in Nat /\ DOMAIN facts = 1 .. n /\ \A i \in 1 .. n : facts[i] \in values
    BY <1>3, <1>5
  <2> HIDE DEF n, facts, values
  <2>3. facts \in [1 .. n -> values]
    BY <2>1, <2>2
  <2>4. facts \in Seq(values) /\ Len(facts) = n
    BY <2>2, <2>3, LenProperties
  <2> QED BY <2>4 DEF n, facts, values
<1> QED BY <1>4, <1>5, <1>6

LEMMA RecordIs ==
  ASSUME NEW a, NEW table, NEW row, NEW fixes, NEW f, f = Record(a, table, row, fixes)
  PROVE  /\ f.origin = a.name /\ f.fields = Kept(a, table, row, fixes)
         /\ f.time = IF a.times = <<>> THEN NoValue ELSE UnixUtc(Effective(a, a.times[1], row[a.times[1]], fixes))
         /\ f.corrected = {c \in table.columns : Effective(a, c, row[c], fixes) # row[c]}
BY DEF Record

LEMMA NothingLeftOutHolds == BridgeInv => NothingLeftOut
<1> SUFFICES ASSUME BridgeInv, stage.pc = "done", NEW t \in DOMAIN Reports[stage.db].tables
             PROVE  \E a \in Reports[stage.read].artifacts :
                      LET table == Tables[Reports[stage.db].tables[t]] IN
                      /\ Artifacts[a].table = t
                      /\ \/ a \in stage.failed
                         \/ \E u \in units :
                              /\ u.ver = stage.ver /\ u.content.artifact = a
                              /\ Len(u.facts) = Len(table.rows)
                              /\ \A i \in DOMAIN u.facts : \A c \in table.columns :
                                   u.facts[i].fields[Artifacts[a].headers[c]] = table.rows[i][c]
  BY DEF NothingLeftOut
<1>1. /\ TablesAgree(stage.read, stage.db) /\ stage.left = {}
      /\ \A a \in Reports[stage.read].artifacts : a \in stage.left \/ a \in stage.failed \/ StageFiles(a)
  BY BridgeFacts DEF StageOK
<1>2. PICK a \in Reports[stage.read].artifacts : Artifacts[a].table = t
  BY <1>1 DEF TablesAgree, Described
<1>3. CASE a \in stage.failed
  BY <1>2, <1>3
<1>4. CASE a \notin stage.failed
  <2>1. PICK u \in units : u.content = Content(a, TableOf(a), {}) /\ u.ver = stage.ver
    BY <1>1, <1>4 DEF StageFiles
  <2>2. u.content.artifact = a /\ u.content.table = Reports[stage.db].tables[t]
    BY <1>2, <2>1 DEF Content, TableOf
  <2>3. UnitOK(u)
    BY DEF BridgeInv
  <2>4. /\ Len(u.facts) = Len(Tables[u.content.table].rows)
        /\ \A i \in DOMAIN u.facts : \A c \in Tables[u.content.table].columns :
             u.facts[i].fields[Artifacts[u.content.artifact].headers[c]] = Tables[u.content.table].rows[i][c]
    BY <2>3, FactsAreRows
  <2> DEFINE table == Tables[Reports[stage.db].tables[t]]
  <2>5. Tables[u.content.table] = table /\ u.content.artifact = a
    BY <2>2
  <2>6. /\ Len(u.facts) = Len(table.rows)
        /\ \A i \in DOMAIN u.facts : \A c \in table.columns :
             u.facts[i].fields[Artifacts[a].headers[c]] = table.rows[i][c]
    <3> HIDE DEF table
    <3> QED BY <2>4, <2>5
  <2> HIDE DEF table
  <2>7. \E x \in Reports[stage.read].artifacts :
          /\ Artifacts[x].table = t
          /\ \/ x \in stage.failed
             \/ \E v \in units :
                  /\ v.ver = stage.ver /\ v.content.artifact = x
                  /\ Len(v.facts) = Len(table.rows)
                  /\ \A i \in DOMAIN v.facts : \A c \in table.columns :
                       v.facts[i].fields[Artifacts[x].headers[c]] = table.rows[i][c]
    BY <1>2, <2>1, <2>5, <2>6
  <2> QED BY <2>7 DEF table
<1> QED BY <1>3, <1>4

LEMMA ToolValuesHold == BridgeInv => ToolValuesKept
<1> SUFFICES ASSUME BridgeInv, NEW u \in units, NEW i \in DOMAIN u.facts
             PROVE  LET a == Artifacts[u.content.artifact] table == Tables[u.content.table] f == u.facts[i] IN
                    /\ \A c \in table.columns : f.fields[a.headers[c]] = table.rows[i][c]
                    /\ f.time # NoValue =>
                         LET header == a.headers[a.times[1]] given == f.fields[header].at IN
                         IF a.times[1] \notin f.corrected THEN f.time = given
                         ELSE \E d \in Defects[u.ver] :
                                /\ d.module = a.module /\ d.artifact = a.name /\ d.column = header
                                /\ 0 < given /\ given < d.below /\ f.time = given * d.factor
  BY DEF ToolValuesKept
<1> DEFINE a == Artifacts[u.content.artifact]
           t == u.content.table
           table == Tables[t]
           fixes == Fixes(a, u.ver, Reports[u.of].tool)
           f == u.facts[i]
           row == table.rows[i]
           c == a.times[1]
           now == Effective(a, c, row[c], fixes)
<1>1. UnitOK(u)
  BY DEF BridgeInv
<1>2. /\ i \in DOMAIN table.rows /\ f = Record(a, table, row, fixes) /\ t \in DOMAIN Tables /\ u.ver \in Versions
      /\ Planned(a, table, fixes) /\ \A e \in table.columns : f.fields[a.headers[e]] = row[e]
  BY <1>1, FactsAreRows DEF UnitOK, Scanned
<1>3. /\ f.time = IF a.times = <<>> THEN NoValue ELSE UnixUtc(now)
      /\ f.corrected = {e \in table.columns : Effective(a, e, row[e], fixes) # row[e]}
  <2> HIDE DEF a, table, fixes, f, row
  <2> QED BY <1>2, RecordIs DEF c
<1>4. ASSUME f.time # NoValue
      PROVE  IF c \notin f.corrected THEN f.time = row[c].at
             ELSE \E d \in FixOf(a, c, fixes) : Applies(d, row[c]) /\ f.time = row[c].at * d.factor
  <2>1. a.times # <<>> /\ now.is = "time" /\ f.time = now.at
    BY <1>3, <1>4 DEF UnixUtc
  <2>2. c \in table.columns
    BY <1>2, <2>1 DEF Planned
  <2>3. c \in f.corrected <=> now # row[c]
    BY <1>3, <2>2
  <2>4. CASE now = row[c]
    BY <2>1, <2>3, <2>4
  <2>5. CASE now # row[c]
    <3>1. \E d \in FixOf(a, c, fixes) : Applies(d, row[c])
      BY <2>5 DEF Effective
    <3>2. fixes \in SUBSET Defects[u.ver]
      BY DEF Fixes
    <3>3. \E d \in FixOf(a, c, fixes) : Applies(d, row[c]) /\ now.at = row[c].at * d.factor
      <4> DEFINE v == u.ver
      <4>1. v \in Versions /\ t \in DOMAIN Tables /\ i \in DOMAIN Tables[t].rows /\ c \in Tables[t].columns
        BY <1>2, <2>2
      <4> HIDE DEF fixes, a, c, t, v
      <4>2. LET value == Tables[t].rows[i][c] n == Effective(a, c, value, fixes) IN
            \E d \in FixOf(a, c, fixes) : /\ Applies(d, value) /\ value.at \in Int /\ d.factor \in Nat /\ d.factor > 1
                                          /\ n.is = "time" /\ n.at = value.at * d.factor /\ n # value
        BY <3>1, <3>2, <4>1, CorrectionScales DEF v
      <4> QED BY <4>2
    <3> QED BY <2>1, <2>3, <2>5, <3>3
  <2> QED BY <2>4, <2>5
<1>5. ASSUME f.time # NoValue
      PROVE  c \in table.columns
  BY <1>2, <1>3, <1>5 DEF Planned
<1>6. ASSUME NEW d \in FixOf(a, c, fixes), Applies(d, row[c])
      PROVE  /\ d \in Defects[u.ver] /\ d.module = a.module /\ d.artifact = a.name /\ d.column = a.headers[c]
             /\ 0 < row[c].at /\ row[c].at < d.below
  BY <1>6 DEF FixOf, Fixes, Applies
<1>7. ASSUME f.time # NoValue PROVE f.fields[a.headers[c]] = row[c]
  BY <1>2, <1>5, <1>7
<1> HIDE DEF a, table, f, row, c, fixes
<1>8. f.time # NoValue =>
        LET header == a.headers[a.times[1]] given == f.fields[header].at IN
        IF a.times[1] \notin f.corrected THEN f.time = given
        ELSE \E d \in Defects[u.ver] :
               /\ d.module = a.module /\ d.artifact = a.name /\ d.column = header
               /\ 0 < given /\ given < d.below /\ f.time = given * d.factor
  BY <1>4, <1>6, <1>7 DEF c
<1> QED BY <1>2, <1>8 DEF a, table, f, row

\* A current unit of these rows is of the stage's version, so it was read with
\* every correction of that version; and one that applies changed the value.
LEMMA CorrectionsHold ==
  ASSUME OnlyDefectiveToolsErr, BridgeInv
  PROVE  CorrectionsReplace
<1> SUFFICES ASSUME stage.pc = "done", NEW a \in Reports[stage.read].artifacts \ stage.failed, NEW d \in FixesOf(a),
                    NEW u \in Current, u.content.artifact = a, u.content.table = TableOf(a),
                    NEW i \in DOMAIN u.facts, NEW c \in Tables[TableOf(a)].columns,
                    Artifacts[a].headers[c] = d.column, Applies(d, u.facts[i].fields[d.column])
             PROVE  c \in u.facts[i].corrected
  BY DEF CorrectionsReplace
<1> DEFINE art == Artifacts[a]
           t == TableOf(a)
           table == Tables[t]
           tool == Reports[u.of].tool
           v == u.ver
           fixes == Fixes(art, v, tool)
           f == u.facts[i]
           row == table.rows[i]
<1>1. PICK w \in units : w.content = Content(a, t, {}) /\ w.ver = stage.ver
  BY BridgeFacts DEF StageOK, StageFiles
<1>2. /\ u \in units /\ UnitOK(u) /\ u.ver \in Nat /\ u.ver <= stage.ver /\ stage.ver \in Nat
      /\ v \in Versions /\ u.content = Content(a, t, {})
  BY BridgeFacts DEF Current, BridgeInv, UnitOK
<1>3. u.ver = stage.ver
  BY <1>1, <1>2 DEF Current
<1>4. /\ d \in Defects[v] /\ d.module = art.module /\ d.artifact = art.name
  BY <1>3 DEF FixesOf, Fixes
<1>5. /\ t \in DOMAIN Tables /\ u.of \in DOMAIN Reports /\ a \in Reports[u.of].artifacts
      /\ art.table # NoValue /\ Scanned(art, table, fixes)
      /\ \E p \in DOMAIN Reports : TablesAgree(u.of, p) /\ t = Reports[p].tables[art.table]
  BY <1>2 DEF UnitOK
<1>6. /\ i \in DOMAIN table.rows /\ f = Record(art, table, row, fixes) /\ f.fields[art.headers[c]] = row[c]
  <2>1. LET x == Artifacts[u.content.artifact] y == Tables[u.content.table] z == Fixes(x, u.ver, Reports[u.of].tool) IN
        /\ DOMAIN u.facts = DOMAIN y.rows
        /\ \A j \in DOMAIN u.facts : u.facts[j] = Record(x, y, y.rows[j], z)
        /\ \A j \in DOMAIN u.facts : \A e \in y.columns : u.facts[j].fields[x.headers[e]] = y.rows[j][e]
    BY <1>2, FactsAreRows
  <2> QED BY <2>1
<1>7. Applies(d, row[c])
  BY <1>6
<1>8. tool \in d.tools
  <2>1. PICK p \in DOMAIN Reports : TablesAgree(u.of, p) /\ t = Reports[p].tables[art.table]
    BY <1>5
  <2>2. \A x \in Versions :
          LET y == Artifacts[a] z == Tables[Reports[p].tables[y.table]] IN
          y.table # NoValue /\ Scanned(y, z, Fixes(y, x, Reports[u.of].tool)) =>
            \A e \in Defects[x] : e.module = y.module /\ e.artifact = y.name /\ Reports[u.of].tool \notin e.tools =>
              \A j \in DOMAIN z.rows : \A b \in z.columns : y.headers[b] = e.column => ~Applies(e, z.rows[j][b])
    BY <1>5, <2>1 DEF OnlyDefectiveToolsErr
  <2>3. art.table # NoValue /\ Scanned(art, table, Fixes(art, v, tool)) =>
          \A e \in Defects[v] : e.module = art.module /\ e.artifact = art.name /\ tool \notin e.tools =>
            \A j \in DOMAIN table.rows : \A b \in table.columns : art.headers[b] = e.column => ~Applies(e, table.rows[j][b])
    BY <1>2, <2>1, <2>2
  <2>4. art.headers[c] = d.column /\ c \in table.columns
    OBVIOUS
  <2> HIDE DEF art, table, tool, v
  <2> QED BY <1>4, <1>5, <1>6, <1>7, <2>3, <2>4 DEF row, fixes
<1>9. d \in FixOf(art, c, fixes)
  BY <1>4, <1>8 DEF Fixes, FixOf
<1>10. Effective(art, c, row[c], fixes) # row[c]
  <2>1. /\ fixes \in SUBSET Defects[v] /\ c \in Tables[t].columns /\ i \in DOMAIN Tables[t].rows
        /\ t \in DOMAIN Tables /\ v \in Versions
    BY <1>2, <1>5, <1>6 DEF Fixes
  <2>2. \E e \in FixOf(art, c, fixes) : Applies(e, Tables[t].rows[i][c])
    BY <1>7, <1>9
  <2>3. row[c] = Tables[t].rows[i][c]
    OBVIOUS
  <2> HIDE DEF art, t, table, row, fixes, v
  <2>4. LET value == Tables[t].rows[i][c] n == Effective(art, c, value, fixes) IN
        \E e \in FixOf(art, c, fixes) : /\ Applies(e, value) /\ value.at \in Int /\ e.factor \in Nat /\ e.factor > 1
                                        /\ n.is = "time" /\ n.at = value.at * e.factor /\ n # value
    BY <2>1, <2>2, CorrectionScales
  <2> QED BY <2>3, <2>4
<1> HIDE DEF art, table, fixes, f, row
<1>11. f.corrected = {e \in table.columns : Effective(art, e, row[e], fixes) # row[e]}
  BY <1>6, RecordIs
<1> QED BY <1>10, <1>11 DEF f, table

\* However often reports are replaced and read again, no row is passed over, and
\* what iLEAPP gave can be read back from each fact (scan_artifact, check_tables).
THEOREM RowsAreKept == Spec => [](NothingLeftOut /\ ToolValuesKept)
<1>1. Init => BridgeInv
  BY InitBridgeInv DEF Init
<1> QED BY <1>1, NextBridgeInv, NothingLeftOutHolds, ToolValuesHold, PTL DEF Spec

\* Where the registered defects name every tool version that has them, the
\* current facts are also corrected where the parser corrects (ileapp_bridge).
THEOREM ReportIsReadHolds ==
  ASSUME OnlyDefectiveToolsErr
  PROVE  Spec => []ReportIsRead
<1>1. Init => BridgeInv
  BY InitBridgeInv DEF Init
<1>2. BridgeInv => ReportIsRead
  BY NothingLeftOutHolds, ToolValuesHold, CorrectionsHold DEF ReportIsRead
<1> QED BY <1>1, <1>2, NextBridgeInv, PTL DEF Spec

\* Whoever registers what, at once or again: what register.py calls registered is
\* there, each set accounts for its files, and no two registrations stand in each
\* other's way (register_set, the loader).
THEOREM RegistryIsSoundHolds == Spec => []RegistryIsSound
<1>1. Init => RegInv
  BY InitRegInv DEF Init
<1>2. RegInv => RegistryIsSound
  BY RegisteredIsThereHolds, EveryObjectHolds, SomeRegistrationHolds DEF RegistryIsSound
<1> QED BY <1>1, <1>2, NextRegInv, PTL DEF Spec

-------------------------------------------------------------------------------
(* Matching: what a source holds, read as a domain, and what matches it. *)

\* Of domain labels, an ending of the length of another is that one's parent.
LEMMA EndingIsParent ==
  ASSUME NEW n \in Seq(STRING), NEW p \in Seq(STRING), p # <<>>
  PROVE  (n = p \/ Under(n, p)) <=> Len(n) >= Len(p) /\ SubSeq(n, Len(n) - Len(p) + 1, Len(n)) = p
<1>1. Len(n) \in Nat /\ Len(p) \in Nat /\ Len(p) >= 1
  BY EmptySeq, LenProperties
<1>2. SubSeq(n, 1, Len(n)) = n
  BY SubSeqFull
<1>3. ASSUME n = p PROVE Len(n) >= Len(p) /\ SubSeq(n, Len(n) - Len(p) + 1, Len(n)) = p
  <2>1. Len(n) - Len(p) + 1 = 1
    BY <1>1, <1>3
  <2> QED BY <1>1, <1>2, <1>3, <2>1
<1>4. ASSUME NEW i \in 2 .. Len(n), p = SubSeq(n, i, Len(n))
      PROVE  Len(n) >= Len(p) /\ SubSeq(n, Len(n) - Len(p) + 1, Len(n)) = p
  <2>1. i \in 1 .. Len(n) + 1 /\ Len(n) \in i - 1 .. Len(n)
    BY <1>1
  <2>2. Len(p) = Len(n) - i + 1
    BY <1>1, <1>4, <2>1, SubSeqProperties
  <2>3. Len(n) - Len(p) + 1 = i
    BY <1>1, <2>2
  <2> QED BY <1>1, <1>4, <2>2, <2>3
<1>5. ASSUME Len(n) >= Len(p), SubSeq(n, Len(n) - Len(p) + 1, Len(n)) = p
      PROVE  n = p \/ Under(n, p)
  <2> DEFINE i == Len(n) - Len(p) + 1
  <2>1. CASE i = 1
    BY <1>2, <1>5, <2>1
  <2>2. CASE i # 1
    <3>1. i \in 2 .. Len(n) /\ p = SubSeq(n, i, Len(n))
      BY <1>1, <1>5, <2>2
    <3> QED BY <3>1 DEF Under
  <2> QED BY <2>1, <2>2
<1> QED BY <1>3, <1>4, <1>5 DEF Under

LEMMA MatchIs ==
  ASSUME NEW facts, NEW indicators, NEW x
  PROVE  x \in Matches(facts, indicators) <=>
           \E i \in indicators : i.type \in MatchedTypes /\ \E s \in Sources[i.type] : x \in MatchesOf(i, s, facts)
BY DEF Matches
LEMMA MatchOfIs ==
  ASSUME NEW facts, NEW i, NEW s, NEW x
  PROVE  x \in MatchesOf(i, s, facts) <=>
           \E f \in facts : LET mode == Mode(i.type, ValueOf(i.type, s, f.fields[s.column]), i) IN
             /\ Holds(s, f) /\ Reading(i.type, s, f.fields[s.column]) = "value" /\ mode # None
             /\ x = [ind |-> i, fact |-> f, source |-> s, mode |-> mode]
BY DEF MatchesOf

\* What a source of domains gives: the labels, in their one spelling.
Names(s, t) ==
  /\ t.is = (IF s.host THEN "url" ELSE "domain") /\ "bad" \notin t.form
  /\ "leading" \in t.form => s.host \/ s.extract = "cookie_host"
Domain(name) == [is |-> "domain", name |-> name, rest |-> "", form |-> {}]

LEMMA DomainSources ==
  ASSUME NEW s \in Sources["domain"]
  PROVE  s.host \in BOOLEAN /\ s.extract # "email_only"
<1> DEFINE of(t, host) == {[origin |-> x.origin, column |-> x.column, extract |-> x.extract, host |-> host] :
                             x \in FieldMap.types[t].sources}
<1>1. Sources["domain"] = of("domain", FALSE) \cup (IF FieldMap.types["domain"].from_url THEN of("url", TRUE) ELSE {})
  BY DEF Sources, MatchedTypes
<1>2. \A type \in {"domain", "url"} : \A x \in FieldMap.types[type].sources : x.extract # "email_only"
  BY ChecksAssumption
<1>3. CASE s \in of("domain", FALSE)
  <2>1. PICK x \in FieldMap.types["domain"].sources :
          s = [origin |-> x.origin, column |-> x.column, extract |-> x.extract, host |-> FALSE]
    BY <1>3
  <2>2. s.host = FALSE /\ s.extract = x.extract
    BY <2>1
  <2> QED BY <1>2, <2>2
<1>4. CASE s \in of("url", TRUE)
  <2>1. PICK x \in FieldMap.types["url"].sources :
          s = [origin |-> x.origin, column |-> x.column, extract |-> x.extract, host |-> TRUE]
    BY <1>4
  <2>2. s.host = TRUE /\ s.extract = x.extract
    BY <2>1
  <2> QED BY <1>2, <2>2
<1> HIDE DEF of
<1> QED BY <1>1, <1>3, <1>4

LEMMA DomainNormal ==
  ASSUME NEW t \in Texts
  PROVE  IF t.is = "domain" /\ "bad" \notin t.form /\ "leading" \notin t.form
         THEN Normalize("domain", t) = Domain(t.name) /\ Normalize("domain", t) # None
         ELSE Normalize("domain", t) = None
<1>1. Reads["domain"] = {"domain"} /\ Breaks["domain"] = {"bad", "leading"} /\ Forgets["domain"] = {"upper", "dot"}
  BY DEF Reads, Breaks, Forgets, SupportedTypes, Exact
<1>2. ASSUME t.is = "domain", "bad" \notin t.form, "leading" \notin t.form
      PROVE  Normalize("domain", t) = Domain(t.name) /\ Normalize("domain", t) # None
  <2>1. t \in [is : {"domain"}, name : Seq(STRING) \ {<<>>}, rest : {""}, form : SUBSET {"upper", "dot", "leading", "bad"}]
    BY <1>2 DEF Texts
  <2>2. t.form \ {"upper", "dot"} = {} /\ t.form \cap {"bad", "leading"} = {}
    BY <1>2, <2>1
  <2>3. Normalize("domain", t) = [t EXCEPT !.form = {}]
    BY <1>1, <1>2, <2>2 DEF Normalize
  <2>4. [t EXCEPT !.form = {}] = Domain(t.name)
    <3> DEFINE r == [t EXCEPT !.form = {}] n == t.name
    <3>1. r \in [is : {"domain"}, name : {n}, rest : {""}, form : {{}}]
      BY <2>1
    <3> HIDE DEF r, n
    <3>2. r = [is |-> "domain", name |-> n, rest |-> "", form |-> {}]
      BY <3>1
    <3> QED BY <3>2 DEF Domain, r, n
  <2>5. Domain(t.name) \in Texts
    BY <2>1 DEF Domain, Texts
  <2> QED BY <2>3, <2>4, <2>5, FilesAssumption
<1>3. ASSUME ~(t.is = "domain" /\ "bad" \notin t.form /\ "leading" \notin t.form)
      PROVE  Normalize("domain", t) = None
  BY <1>1, <1>3 DEF Normalize
<1> QED BY <1>2, <1>3

\* Whatever a source holds, it is read as the domain it names, or not at all.
LEMMA DomainRead ==
  ASSUME NEW s \in Sources["domain"], NEW t \in Values
  PROVE  /\ t.is # "null" => (Reading("domain", s, t) = "value" <=> Names(s, t))
         /\ Names(s, t) => t \in Texts /\ ValueOf("domain", s, t) = Domain(t.name)
<1>1. s.host \in BOOLEAN /\ s.extract # "email_only"
  BY DomainSources
<1>2. CASE t \notin Texts
  <2>1. t.is \in {"null", "binary", "time"}
    BY <1>2 DEF Values
  <2>2. ~Names(s, t)
    BY <2>1 DEF Names
  <2>3. t.is # "null" => Reading("domain", s, t) = "unreadable"
    BY <2>1 DEF Reading
  <2> QED BY <2>2, <2>3
<1>3. CASE t \in Texts /\ s.host
  <2> DEFINE p == HostOf(t)
  <2>1. t.is \notin {"null", "binary", "time"}
    BY <1>3 DEF Texts
  <2>2. CASE t.is = "url"
    <3>1. t \in [is : {"url", "ip", "email", "file_hash", "name"}, name : Seq(STRING) \ {<<>>}, rest : STRING,
                 form : SUBSET {"upper", "dot", "port", "fragment", "escape", "leading", "bad"}]
      BY <1>3, <2>2 DEF Texts
    <3>2. /\ p \in [is : {"domain"}, name : {t.name}, rest : {""}, form : SUBSET {"upper", "dot", "leading", "bad"}]
          /\ p.form = t.form \cap {"upper", "dot", "bad"} /\ t.name \in Seq(STRING) \ {<<>>}
      BY <3>1 DEF HostOf
    <3> HIDE DEF p
    <3>3. p \in Texts /\ p.name = t.name /\ p.is = "domain" /\ "leading" \notin p.form /\ ("bad" \in p.form <=> "bad" \in t.form)
      BY <3>2 DEF Texts
    <3>4. IF "bad" \notin t.form THEN Normalize("domain", p) = Domain(t.name) /\ Normalize("domain", p) # None
          ELSE Normalize("domain", p) = None
      BY <3>3, DomainNormal
    <3>5. /\ Reading("domain", s, t) = (IF Normalize("domain", p) = None THEN "unreadable" ELSE "value")
          /\ ValueOf("domain", s, t) = Normalize("domain", p)
      BY <1>1, <1>3, <2>1, <2>2, <3>3 DEF Reading, ValueOf, p
    <3> QED BY <1>3, <2>2, <3>4, <3>5 DEF Names
  <2>3. CASE t.is # "url"
    BY <1>3, <2>3 DEF Reading, Names
  <2> QED BY <2>2, <2>3
<1>4. CASE t \in Texts /\ ~s.host
  <2> DEFINE p == IF s.extract = "cookie_host" THEN [t EXCEPT !.form = @ \ {"leading"}] ELSE t
  <2>1. t.is \notin {"null", "binary", "time"}
    BY <1>4 DEF Texts
  <2>2. /\ p \in Texts /\ p.name = t.name /\ p.is = t.is /\ ("bad" \in p.form <=> "bad" \in t.form)
        /\ "leading" \in p.form <=> "leading" \in t.form /\ s.extract # "cookie_host"
    <3>1. CASE s.extract = "cookie_host"
      BY <1>4, <3>1 DEF Texts
    <3>2. CASE s.extract # "cookie_host"
      BY <1>4, <3>2
    <3> QED BY <3>1, <3>2
  <2>3. /\ Reading("domain", s, t) = (IF Normalize("domain", p) = None THEN "unreadable" ELSE "value")
        /\ ValueOf("domain", s, t) = Normalize("domain", p)
    BY <1>1, <1>4, <2>1 DEF Reading, ValueOf
  <2> HIDE DEF p
  <2>4. IF p.is = "domain" /\ "bad" \notin p.form /\ "leading" \notin p.form
        THEN Normalize("domain", p) = Domain(p.name) /\ Normalize("domain", p) # None
        ELSE Normalize("domain", p) = None
    BY <2>2, DomainNormal
  <2> QED BY <1>1, <1>4, <2>2, <2>3, <2>4 DEF Names
<1> QED BY <1>1, <1>2, <1>3, <1>4

\* An indicator that is a domain matches the domains it ends.
LEMMA DomainMatches ==
  ASSUME NEW s \in Sources["domain"], NEW t \in Values, t.is # "null",
         NEW ind, ind.type = "domain", NEW name \in Seq(STRING), name # <<>>, ind.normal = Domain(name)
  PROVE  (Reading("domain", s, t) = "value" /\ Mode("domain", ValueOf("domain", s, t), ind) # None) <=>
           /\ Names(s, t) /\ Len(t.name) >= Len(name)
           /\ SubSeq(t.name, Len(t.name) - Len(name) + 1, Len(t.name)) = name
<1>1. Reading("domain", s, t) = "value" <=> Names(s, t)
  BY DomainRead
<1>2. CASE Names(s, t)
  <2>1. t \in Texts /\ ValueOf("domain", s, t) = Domain(t.name)
    BY <1>2, DomainRead
  <2>2. t.name \in Seq(STRING)
    BY <2>1 DEF Texts
  <2>3. Domain(t.name).form = Domain(name).form /\ Domain(name).name = name /\ Domain(t.name).name = t.name
    BY DEF Domain
  <2>4. Domain(t.name) = Domain(name) <=> t.name = name
    BY <2>3
  <2>5. Mode("domain", ValueOf("domain", s, t), ind) # None <=> t.name = name \/ Under(t.name, name)
    BY <2>1, <2>3, <2>4, ChecksAssumption DEF Mode
  <2>6. (t.name = name \/ Under(t.name, name)) <=>
          Len(t.name) >= Len(name) /\ SubSeq(t.name, Len(t.name) - Len(name) + 1, Len(t.name)) = name
    BY <2>2, EndingIsParent
  <2> QED BY <1>1, <1>2, <2>5, <2>6
<1> QED BY <1>1, <1>2

\* A registered domain is in its one spelling (FileLoads: a value that has none
\* makes its object unsupported).
LEMMA RegisteredDomain ==
  ASSUME RegInv, NEW set \in registry, NEW ind \in set.indicators, ind.type = "domain"
  PROVE  \E name \in Seq(STRING) : name # <<>> /\ ind.normal = Domain(name)
<1>1. PICK g \in Given : SetLoads(g) /\ set = RowOf(g, set.at)
  BY DEF RegInv, RegistryOK, RowOK
<1>2. set.indicators = UNION {Indicators(f) : f \in FilesOf(g)}
  BY <1>1 DEF RowOf
<1>3. PICK f \in FilesOf(g) : ind \in Indicators(f)
  BY <1>2
<1>4. f \in DOMAIN Files /\ FileLoads(f)
  BY <1>1, FilesAreFiles DEF SetLoads
<1>5. PICK obj \in Of(f, "loaded") : \E k \in DOMAIN obj.tests :
        ind = [file |-> f, id |-> obj.id, path |-> obj.tests[k].path, type |-> TypeOf(obj.tests[k].path),
               normal |-> Normalize(TypeOf(obj.tests[k].path), obj.tests[k].text), expired |-> obj.expired]
  BY <1>3, IndicatorsOfFile
<1>6. PICK k \in DOMAIN obj.tests :
        ind = [file |-> f, id |-> obj.id, path |-> obj.tests[k].path, type |-> TypeOf(obj.tests[k].path),
               normal |-> Normalize(TypeOf(obj.tests[k].path), obj.tests[k].text), expired |-> obj.expired]
  BY <1>5
<1> DEFINE test == obj.tests[k]
<1>7. TypeOf(test.path) = "domain" /\ ind.normal = Normalize("domain", test.text)
  BY <1>6
<1>8. obj \in Files[f].objects /\ Trouble(test) = None
  BY <1>4, LoadedTests
<1>9. test.text \in Texts
  <2>1. obj.tests \in Seq([path : STRING, text : Texts])
    BY <1>4, <1>8, FilesAssumption
  <2>2. obj.tests[k] \in [path : STRING, text : Texts]
    <3> DEFINE tests == obj.tests
    <3>1. tests \in Seq([path : STRING, text : Texts]) /\ k \in DOMAIN tests
      BY <2>1
    <3> HIDE DEF tests
    <3>2. k \in 1 .. Len(tests)
      BY <3>1, LenProperties
    <3>3. tests[k] \in [path : STRING, text : Texts]
      BY <3>1, <3>2, ElementOfSeq
    <3> QED BY <3>3 DEF tests
  <2> QED BY <2>2
<1>10. Normalize("domain", test.text) # None
  <2>1. None \notin {"object_path", "indicator_type", "value"}
    BY FilesAssumption DEF Reasons
  <2> HIDE DEF test
  <2> QED BY <1>7, <1>8, <2>1 DEF Trouble
<1>11. Normalize("domain", test.text) = Domain(test.text.name)
  BY <1>9, <1>10, DomainNormal
<1>12. test.text.name \in Seq(STRING) /\ test.text.name # <<>>
  BY <1>9 DEF Texts
<1> QED BY <1>7, <1>11, <1>12

\* A type counts as checked where a fact held a value of it.
LEMMA CheckedIs ==
  ASSUME NEW facts, IsFiniteSet(facts), NEW type
  PROVE  Status(SourceCounts(type, facts)) = "checked" <=>
           \E f \in facts : \E s \in Sources[type] :
             Holds(s, f) /\ Reading(type, s, f.fields[s.column]) = "value"
<1> DEFINE held(s) == {f \in facts : Holds(s, f) /\ Reading(type, s, f.fields[s.column]) = "value"}
<1>1. ASSUME NEW s PROVE Counted(type, s, facts, "value") > 0 <=> held(s) # {}
  <2> DEFINE h == held(s)
  <2>1. IsFiniteSet(h)
    BY FS_Subset
  <2>2. Counted(type, s, facts, "value") = Cardinality(h)
    BY DEF Counted
  <2> HIDE DEF h
  <2>3. Cardinality(h) \in Nat /\ (Cardinality(h) = 0 <=> h = {})
    BY <2>1, FS_EmptySet, FS_CardinalityType
  <2> QED BY <2>2, <2>3 DEF h
<1> DEFINE counts == SourceCounts(type, facts)
<1>2. (\E c \in counts : c.values > 0) <=> \E s \in Sources[type] : Counted(type, s, facts, "value") > 0
  <2> DEFINE n(s) == Counted(type, s, facts, "value")
             m(s) == Counted(type, s, facts, "unreadable")
             e(s) == Counted(type, s, facts, "not_email")
             S == Sources[type]
  <2>1. counts = {[source |-> s, values |-> n(s), unreadable |-> m(s), not_email |-> e(s)] : s \in S}
    BY DEF SourceCounts
  <2> HIDE DEF n, m, e, S, counts
  <2>2. \A c \in counts : \E s \in S : c.values = n(s)
    BY <2>1
  <2>3. \A s \in S : \E c \in counts : c.values = n(s)
    <3> SUFFICES ASSUME NEW s \in S PROVE \E c \in counts : c.values = n(s)
      OBVIOUS
    <3>1. [source |-> s, values |-> n(s), unreadable |-> m(s), not_email |-> e(s)] \in counts
      BY <2>1
    <3> QED BY <3>1
  <2> QED BY <2>2, <2>3 DEF n, S
<1>3. Status(counts) = "checked" <=> \E c \in counts : c.values > 0
  BY DEF Status
<1> QED BY <1>1, <1>2, <1>3

LEMMA SetStays ==
  ASSUME RegInv, RegInv', registry \subseteq registry', NEW hash, There(hash)
  PROVE  There(hash)' /\ SetOf(hash) \in registry /\ SetOf(hash).hash = hash /\ SetOf(hash)' = SetOf(hash)
<1>1. SetOf(hash) \in registry /\ SetOf(hash).hash = hash
  BY DEF There, SetOf
<1>2. There(hash)'
  BY DEF There
<1>3. SetOf(hash)' \in registry' /\ SetOf(hash)'.hash = hash
  BY <1>2 DEF There, SetOf
<1>4. \A a, b \in registry' : a.hash = b.hash => a = b
  BY DEF RegInv, RegistryOK
<1> QED BY <1>1, <1>2, <1>3, <1>4

-------------------------------------------------------------------------------
(* The facts a check read stay what they were, though units are added. *)

KeysThere == {Key(u) : u \in units \cup {CrashUnit}}
AllKeys == {Key(CrashUnit)} \cup ({Content(a, t, {}) : a \in DOMAIN Artifacts, t \in DOMAIN Tables} \X Versions)

LEMMA UnitsApart ==
  ASSUME BridgeInv, NEW u \in units \cup {CrashUnit}, NEW w \in units \cup {CrashUnit}, Key(u) = Key(w)
  PROVE  u = w
<1>1. u.content = w.content /\ u.ver = w.ver
  BY DEF Key
<1>2. ASSUME NEW x \in units PROVE x.content # CrashUnit.content
  <2>1. /\ x.content.artifact \in DOMAIN Artifacts /\ x.content.table \in DOMAIN Tables
        /\ x.content = Content(x.content.artifact, x.content.table, {})
    BY DEF BridgeInv, UnitOK
  <2>2. \A a \in DOMAIN Artifacts, t \in DOMAIN Tables : CrashUnit.content # Content(a, t, {})
    BY ChecksAssumption
  <2> QED BY <2>1, <2>2
<1> QED BY <1>1, <1>2 DEF BridgeInv

LEMMA KeysAreKnown ==
  ASSUME BridgeInv
  PROVE  KeysThere \subseteq AllKeys
<1>1. ASSUME NEW u \in units PROVE Key(u) \in AllKeys
  BY DEF BridgeInv, UnitOK, Key, AllKeys
<1> QED BY <1>1 DEF KeysThere, AllKeys

LEMMA FactsStay ==
  ASSUME BridgeInv, BridgeInv', units \subseteq units', NEW keys, keys \subseteq KeysThere
  PROVE  keys \subseteq KeysThere' /\ FactsOf(keys)' = FactsOf(keys)
<1>1. KeysThere \subseteq KeysThere'
  BY DEF KeysThere, Key
<1>2. ASSUME NEW w \in units' \cup {CrashUnit}, Key(w) \in keys PROVE w \in units \cup {CrashUnit}
  <2>1. PICK u \in units \cup {CrashUnit} : Key(u) = Key(w)
    BY <1>2 DEF KeysThere
  <2>2. ASSUME NEW x \in units' PROVE x.content # CrashUnit.content
    <3>1. /\ x.content.artifact \in DOMAIN Artifacts /\ x.content.table \in DOMAIN Tables
          /\ x.content = Content(x.content.artifact, x.content.table, {})
      BY DEF BridgeInv, UnitOK
    <3>2. \A a \in DOMAIN Artifacts, t \in DOMAIN Tables : CrashUnit.content # Content(a, t, {})
      BY ChecksAssumption
    <3> QED BY <3>1, <3>2
  <2>3. u \in units' \cup {CrashUnit} /\ u.content = w.content /\ u.ver = w.ver
    BY <2>1 DEF Key
  <2>4. u = w
    BY <2>2, <2>3 DEF BridgeInv
  <2> QED BY <2>4
<1>3. {u \in units' \cup {CrashUnit} : Key(u) \in keys} = {u \in units \cup {CrashUnit} : Key(u) \in keys}
  BY <1>2
<1>4. FactsOf(keys)' = UNION {SeqRange(u.facts) : u \in {u \in units' \cup {CrashUnit} : Key(u) \in keys}}
  BY DEF FactsOf, Key
<1> QED BY <1>1, <1>3, <1>4 DEF FactsOf

LEMMA FactsAreFinite ==
  ASSUME BridgeInv, NEW keys
  PROVE  IsFiniteSet(FactsOf(keys))
<1> DEFINE read == {u \in units \cup {CrashUnit} : Key(u) \in keys}
           sets == {SeqRange(u.facts) : u \in read}
<1>1. ASSUME NEW u \in units \cup {CrashUnit} PROVE IsFiniteSet(SeqRange(u.facts))
  <2> DEFINE facts == u.facts
  <2>1. facts \in Seq({facts[i] : i \in DOMAIN facts})
    <3>1. CASE u \in units
      <4>1. UnitOK(u)
        BY <3>1 DEF BridgeInv
      <4>2. u.facts \in Seq({u.facts[i] : i \in DOMAIN u.facts})
        BY <4>1, FactsAreRows
      <4> QED BY <4>2
    <3>2. CASE u = CrashUnit
      BY <3>2, ChecksAssumption DEF SeqRange
    <3> QED BY <3>1, <3>2
  <2> HIDE DEF facts
  <2>2. DOMAIN facts = 1 .. Len(facts) /\ Len(facts) \in Nat
    BY <2>1, LenProperties
  <2>3. IsFiniteSet(DOMAIN facts)
    BY <2>2, FS_Interval
  <2>4. IsFiniteSet({facts[i] : i \in DOMAIN facts})
    <3> DEFINE d == DOMAIN facts f == [i \in d |-> facts[i]] r == {facts[i] : i \in d}
    <3>1. f \in Surjection(d, r)
      BY DEF Surjection
    <3> HIDE DEF f, r
    <3> QED BY <2>3, <3>1, FS_Surjection DEF r
  <2> QED BY <2>4 DEF SeqRange, facts
<1>2. IsFiniteSet(read)
  <2>1. IsFiniteSet(units \cup {CrashUnit})
    BY FS_AddElement DEF BridgeInv
  <2> QED BY <2>1, FS_Subset
<1>3. IsFiniteSet(sets)
  <2> DEFINE f == [u \in read |-> SeqRange(u.facts)]
  <2>1. f \in Surjection(read, sets)
    BY DEF Surjection
  <2> HIDE DEF f, read, sets
  <2> QED BY <1>2, <2>1, FS_Surjection
<1>4. \A x \in sets : IsFiniteSet(x)
  BY <1>1
<1>5. FactsOf(keys) = UNION sets
  BY DEF FactsOf
<1> HIDE DEF sets
<1> QED BY <1>3, <1>4, <1>5, FS_UNION

-------------------------------------------------------------------------------
(* The checks: each is of one set and of the facts its runs read, for good. *)

RunRows ==
  [pc : {"off", "skipped", "read", "ingest", "succeeded"}, set : {SetHash(g) : g \in Given} \cup {None},
   units : SUBSET AllKeys]
RunOK(s) ==
  s \in RunRows /\ s.units \subseteq KeysThere /\ (s.pc \in {"read", "ingest", "succeeded"} => There(s.set))
IsCheckOf(c, keys) ==
  LET facts == FactsOf(keys) indicators == SetOf(c.set).indicators IN
  /\ keys \subseteq KeysThere /\ c.id = Identity(c.set, keys)
  /\ c.matches = Matches(facts, indicators) /\ c.types = Summary(facts, indicators)
CheckOK(c) ==
  /\ DOMAIN c = {"id", "set", "runs", "matches", "types", "errors"}
  /\ There(c.set) /\ \E keys \in SUBSET AllKeys : IsCheckOf(c, keys)
  /\ c.runs \subseteq Runs
  /\ \A m \in c.runs : run[m].pc = "succeeded" /\ c.id = Identity(run[m].set, run[m].units)
ChecksInv ==
  /\ run \in [Runs -> RunRows]
  /\ \A m \in Runs : RunOK(run[m]) /\ (run[m].pc = "succeeded" => \E c \in checks : m \in c.runs)
  /\ \A c \in checks : CheckOK(c)
  /\ \A c, e \in checks : c.id = e.id => c = e

LEMMA InitChecksInv == ChecksInit => ChecksInv
<1> SUFFICES ASSUME ChecksInit PROVE ChecksInv
  OBVIOUS
<1>1. NoRun \in RunRows /\ NoRun.pc = "off" /\ NoRun.units = {}
  BY DEF NoRun, RunRows
<1>2. RunOK(NoRun)
  BY <1>1 DEF RunOK
<1> QED BY <1>1, <1>2 DEF ChecksInit, ChecksInv

\* Units and sets are added, no run moves.
LEMMA ChecksStay ==
  ASSUME ChecksInv, BridgeInv, BridgeInv', RegInv, RegInv', units \subseteq units', registry \subseteq registry',
         UNCHANGED checkVars
  PROVE  ChecksInv'
<1>1. checks' = checks /\ run' = run
  BY DEF checkVars
<1>2. ASSUME NEW m \in Runs PROVE RunOK(run[m])'
  <2>1. RunOK(run[m]) /\ KeysThere \subseteq KeysThere'
    BY DEF ChecksInv, KeysThere, Key
  <2> QED BY <1>1, <2>1 DEF RunOK, There
<1>3. ASSUME NEW c \in checks PROVE CheckOK(c)'
  <2>1. CheckOK(c)
    BY DEF ChecksInv
  <2>2. PICK keys \in SUBSET AllKeys : IsCheckOf(c, keys)
    BY <2>1 DEF CheckOK
  <2>3. keys \subseteq KeysThere' /\ FactsOf(keys)' = FactsOf(keys)
    BY <2>2, FactsStay DEF IsCheckOf
  <2>4. There(c.set)' /\ SetOf(c.set)' = SetOf(c.set)
    BY <2>1, SetStays DEF CheckOK
  <2>5. IsCheckOf(c, keys)'
    BY <2>2, <2>3, <2>4 DEF IsCheckOf
  <2> QED BY <1>1, <2>1, <2>4, <2>5 DEF CheckOK
<1> QED BY <1>1, <1>2, <1>3 DEF ChecksInv

\* A run moves that has not succeeded, and files nothing.
LEMMA RunMoves ==
  ASSUME ChecksInv, NEW m \in Runs, NEW s, RunOK(s), run[m].pc # "succeeded", s.pc # "succeeded", Goes(m, s),
         UNCHANGED <<checks, units, registry>>
  PROVE  ChecksInv'
<1>1. run' = [run EXCEPT ![m] = s] /\ run \in [Runs -> RunRows] /\ s \in RunRows
  BY DEF Goes, ChecksInv, RunOK
<1>2. run' \in [Runs -> RunRows] /\ run'[m] = s /\ \A n \in Runs \ {m} : run'[n] = run[n]
  BY <1>1
<1>3. ASSUME NEW n \in Runs
      PROVE  RunOK(run[n])' /\ (run'[n].pc = "succeeded" => \E c \in checks : n \in c.runs)
  <2>1. RunOK(run'[n]) /\ (run'[n].pc = "succeeded" => \E c \in checks : n \in c.runs)
    BY <1>2 DEF ChecksInv
  <2> QED BY <2>1 DEF RunOK, KeysThere, There, Key
<1>4. ASSUME NEW c \in checks PROVE CheckOK(c)'
  <2>1. CheckOK(c)
    BY DEF ChecksInv
  <2>2. c.runs \subseteq Runs \ {m}
    BY <2>1 DEF CheckOK
  <2>3. \A keys : IsCheckOf(c, keys)' = IsCheckOf(c, keys)
    BY DEF IsCheckOf, KeysThere, Key, FactsOf, SetOf
  <2>4. There(c.set)' = There(c.set)
    BY DEF There
  <2> QED BY <1>2, <2>1, <2>2, <2>3, <2>4 DEF CheckOK
<1> QED BY <1>2, <1>3, <1>4 DEF ChecksInv

LEMMA IngestMoves ==
  ASSUME ChecksInv, NEW m \in Runs, Ingest(m), UNCHANGED <<units, registry>>
  PROVE  ChecksInv'
<1> DEFINE s == [run[m] EXCEPT !.pc = "succeeded"]
           hash == run[m].set
           keys == run[m].units
           facts == FactsOf(keys)
           indicators == SetOf(hash).indicators
           new == [id |-> Identity(hash, keys), set |-> hash, runs |-> {m}, matches |-> Matches(facts, indicators),
                   types |-> Summary(facts, indicators), errors |-> ErrorsOf(keys)]
           again(c) == IF c \in AlreadyDone(m) THEN [c EXCEPT !.runs = @ \cup {m}] ELSE c
<1>1. /\ run[m] \in RunRows /\ RunOK(run[m]) /\ run[m].pc = "ingest" /\ run \in [Runs -> RunRows]
      /\ run' = [run EXCEPT ![m] = s]
      /\ checks' = IF AlreadyDone(m) # {} THEN {again(c) : c \in checks} ELSE checks \cup {new}
  BY DEF ChecksInv, Ingest, Goes
<1>2. s \in RunRows /\ s.pc = "succeeded" /\ s.set = hash /\ s.units = keys /\ keys \in SUBSET AllKeys
  BY <1>1 DEF RunRows
<1>3. There(hash) /\ keys \subseteq KeysThere
  BY <1>1 DEF RunOK
<1>4. /\ run' \in [Runs -> RunRows] /\ run'[m].pc = "succeeded" /\ run'[m].set = hash /\ run'[m].units = keys
      /\ \A n \in Runs \ {m} : run'[n] = run[n]
  BY <1>1, <1>2
<1>5. /\ new.id = Identity(hash, keys) /\ new.set = hash /\ new.runs = {m} /\ new.matches = Matches(facts, indicators)
      /\ new.types = Summary(facts, indicators) /\ DOMAIN new = {"id", "set", "runs", "matches", "types", "errors"}
  OBVIOUS
<1>6. IsCheckOf(new, keys)
  <2> HIDE DEF new
  <2> QED BY <1>3, <1>5 DEF IsCheckOf
<1>7. ASSUME NEW c \in checks
      PROVE  /\ again(c).id = c.id /\ again(c).set = c.set /\ again(c).matches = c.matches /\ again(c).types = c.types
             /\ DOMAIN again(c) = DOMAIN c
             /\ again(c).runs = IF c.id = Identity(hash, keys) THEN c.runs \cup {m} ELSE c.runs
  <2>1. DOMAIN c = {"id", "set", "runs", "matches", "types", "errors"}
    BY DEF ChecksInv, CheckOK
  <2>2. c \in AlreadyDone(m) <=> c.id = Identity(hash, keys)
    BY DEF AlreadyDone
  <2> QED BY <2>1, <2>2
<1> HIDE DEF new, again
\* What a check is, apart from the runs it serves, a later state does not change.
<1>8. ASSUME NEW c, CheckOK(c), NEW e, DOMAIN e = DOMAIN c, e.id = c.id, e.set = c.set, e.matches = c.matches,
             e.types = c.types, e.runs = IF c.id = Identity(hash, keys) THEN c.runs \cup {m} ELSE c.runs
      PROVE  CheckOK(e)'
  <2>1. PICK k \in SUBSET AllKeys : IsCheckOf(c, k)
    BY <1>8 DEF CheckOK
  <2>2. IsCheckOf(e, k)'
    BY <1>8, <2>1 DEF IsCheckOf, KeysThere, Key, FactsOf, SetOf
  <2>3. There(e.set)' /\ e.runs \subseteq Runs
    BY <1>8 DEF CheckOK, There
  <2>4. ASSUME NEW n \in e.runs PROVE run'[n].pc = "succeeded" /\ e.id = Identity(run'[n].set, run'[n].units)
    <3>1. CASE n = m
      <4>1. m \notin c.runs
        BY <1>1, <1>8 DEF CheckOK
      <4> QED BY <1>4, <1>8, <3>1, <4>1
    <3>2. CASE n # m
      BY <1>4, <1>8, <2>3, <3>2 DEF CheckOK
    <3> QED BY <3>1, <3>2
  <2> QED BY <1>8, <2>1, <2>2, <2>3, <2>4 DEF CheckOK
<1>9. ASSUME NEW n \in Runs PROVE RunOK(run[n])'
  <2>1. RunOK(run'[n])
    BY <1>1, <1>2, <1>3, <1>4 DEF ChecksInv, RunOK, RunRows
  <2> QED BY <2>1 DEF RunOK, KeysThere, There, Key
<1>10. CASE AlreadyDone(m) # {}
  <2>1. checks' = {again(c) : c \in checks}
    BY <1>1, <1>10
  <2>2. ASSUME NEW e \in checks' PROVE CheckOK(e)'
    <3>1. PICK c \in checks : e = again(c)
      BY <2>1
    <3>2. CheckOK(c)
      BY DEF ChecksInv
    <3> QED BY <1>7, <1>8, <3>1, <3>2
  <2>3. ASSUME NEW e \in checks', NEW f \in checks', e.id = f.id PROVE e = f
    <3>1. PICK c \in checks : e = again(c)
      BY <2>1
    <3>2. PICK d \in checks : f = again(d)
      BY <2>1
    <3>3. c = d
      BY <1>7, <2>3, <3>1, <3>2 DEF ChecksInv
    <3> QED BY <3>1, <3>2, <3>3
  <2>4. ASSUME NEW n \in Runs, run'[n].pc = "succeeded" PROVE \E e \in checks' : n \in e.runs
    <3>1. CASE n = m
      <4>1. PICK c \in checks : c.id = Identity(hash, keys)
        BY <1>10 DEF AlreadyDone
      <4>2. again(c) \in checks' /\ m \in again(c).runs
        BY <1>7, <2>1, <4>1
      <4> QED BY <3>1, <4>2
    <3>2. CASE n # m
      <4>1. PICK c \in checks : n \in c.runs
        BY <1>4, <2>4, <3>2 DEF ChecksInv
      <4>2. again(c) \in checks' /\ n \in again(c).runs
        BY <1>7, <2>1, <4>1
      <4> QED BY <4>2
    <3> QED BY <3>1, <3>2
  <2> QED BY <1>4, <1>9, <2>2, <2>3, <2>4 DEF ChecksInv
<1>11. CASE AlreadyDone(m) = {}
  <2>1. checks' = checks \cup {new}
    BY <1>1, <1>11
  <2>2. \A c \in checks : c.id # Identity(hash, keys)
    BY <1>11 DEF AlreadyDone
  <2>3. ASSUME NEW c \in checks PROVE CheckOK(c)'
    <3>1. CheckOK(c)
      BY DEF ChecksInv
    <3> QED BY <1>8, <2>2, <3>1
  <2>4. ASSUME NEW c, c = new PROVE CheckOK(c)'
    <3>1. PICK k \in SUBSET AllKeys : k = keys
      BY <1>2
    <3>2. IsCheckOf(c, k)
      BY <1>6, <2>4, <3>1
    <3>3. IsCheckOf(c, k)'
      BY <3>2 DEF IsCheckOf, KeysThere, Key, FactsOf, SetOf
    <3>4. There(c.set)'
      BY <1>3, <1>5, <2>4 DEF There
    <3> QED BY <1>4, <1>5, <2>4, <3>3, <3>4 DEF CheckOK
  <2>5. ASSUME NEW c \in checks', NEW e \in checks', c.id = e.id PROVE c = e
    BY <1>5, <2>1, <2>2, <2>5 DEF ChecksInv
  <2>6. ASSUME NEW n \in Runs, run'[n].pc = "succeeded" PROVE \E c \in checks' : n \in c.runs
    BY <1>4, <1>5, <2>1, <2>6 DEF ChecksInv
  <2> QED BY <1>4, <1>9, <2>1, <2>3, <2>4, <2>5, <2>6 DEF ChecksInv
<1> QED BY <1>10, <1>11

LEMMA UnitsGrow == BridgeNext => units \subseteq units'
<1> SUFFICES ASSUME BridgeNext PROVE units \subseteq units'
  OBVIOUS
<1>1. CASE IngestArtifact
  BY <1>1 DEF IngestArtifact
<1>2. CASE ~IngestArtifact
  <2>1. UNCHANGED units
    BY <1>2 DEF BridgeNext, StartStage, ReadManifest, Open, EndStage, StageDies, ReplaceReport
  <2> QED BY <2>1
<1> QED BY <1>1, <1>2

LEMMA RegistryGrows == RegisterNext => registry \subseteq registry'
BY DEF RegisterNext, Load, RegisterStep, RegistrationFails, FindSet, InsertContents, InsertSet, InsertFiles,
       InsertIndicators, Commit, Refind, Exit, NothingStored

LEMMA NextChecksInv ==
  ASSUME ChecksInv, BridgeInv, BridgeInv', RegInv, RegInv', [Next]_vars
  PROVE  ChecksInv'
<1>1. CASE UNCHANGED vars
  BY <1>1, ChecksStay DEF vars, bridgeVars, setVars
<1>2. CASE BridgeNext /\ UNCHANGED <<setVars, checkVars>>
  BY <1>2, UnitsGrow, ChecksStay DEF setVars
<1>3. CASE RegisterNext /\ UNCHANGED <<bridgeVars, checkVars>>
  BY <1>3, RegistryGrows, ChecksStay DEF bridgeVars
<1>4. CASE ChecksNext /\ UNCHANGED <<bridgeVars, setVars>>
  <2>1. UNCHANGED <<units, registry>>
    BY <1>4 DEF bridgeVars, setVars
  <2>2. PICK m \in Runs : Choose(m) \/ ChooseByHash(m) \/ ReadFacts(m) \/ Ingest(m) \/ StageFails(m)
    BY <1>4 DEF ChecksNext
  <2>3. RunOK(run[m]) /\ run[m] \in RunRows
    BY DEF ChecksInv, RunOK
  <2>4. RunOK(NoRun) /\ NoRun \in RunRows /\ NoRun.pc = "off"
    BY DEF NoRun, RunRows, RunOK
  <2>5. ASSUME NEW set \in registry
        PROVE  LET s == [NoRun EXCEPT !.pc = "read", !.set = set.hash] IN RunOK(s) /\ s.pc = "read"
    <3> DEFINE hash == set.hash s == [NoRun EXCEPT !.pc = "read", !.set = hash]
    <3>1. hash \in {SetHash(g) : g \in Given}
      BY DEF RegInv, RegistryOK, RowOK, RowOf
    <3>2. There(hash)
      BY DEF There
    <3> HIDE DEF hash
    <3>3. s \in RunRows /\ s.pc = "read" /\ s.set = hash /\ s.units = {}
      BY <3>1 DEF NoRun, RunRows
    <3> HIDE DEF s
    <3> QED BY <3>2, <3>3 DEF RunOK, s, hash
  <2>6. CASE Choose(m)
    <3>1. CASE Goes(m, [NoRun EXCEPT !.pc = "skipped"])
      <4> DEFINE s == [NoRun EXCEPT !.pc = "skipped"]
      <4>1. s \in RunRows /\ s.pc = "skipped" /\ s.units = {}
        BY DEF NoRun, RunRows
      <4>2. RunOK(s)
        BY <4>1 DEF RunOK
      <4> HIDE DEF s
      <4>3. Goes(m, s)
        BY <3>1 DEF s
      <4> QED BY <2>1, <2>6, <4>1, <4>2, <4>3, RunMoves DEF Choose
    <3>2. CASE \E set \in Newest : Goes(m, [NoRun EXCEPT !.pc = "read", !.set = set.hash])
      <4>1. PICK set \in registry : Goes(m, [NoRun EXCEPT !.pc = "read", !.set = set.hash])
        BY <3>2 DEF Newest
      <4> QED BY <2>1, <2>5, <2>6, <4>1, RunMoves DEF Choose
    <3> QED BY <2>6, <3>1, <3>2 DEF Choose
  <2>7. CASE ChooseByHash(m)
    <3>1. PICK set \in registry : Goes(m, [NoRun EXCEPT !.pc = "read", !.set = set.hash])
      BY <2>7 DEF ChooseByHash
    <3> QED BY <2>1, <2>5, <2>7, <3>1, RunMoves DEF ChooseByHash
  <2>8. CASE ReadFacts(m)
    <3> DEFINE keys == {Key(u) : u \in ReadFrom} s == [run[m] EXCEPT !.pc = "ingest", !.units = keys]
    <3>1. keys \subseteq KeysThere /\ keys \subseteq AllKeys
      <4>1. keys \subseteq KeysThere
        BY DEF ReadFrom, Current, KeysThere
      <4> QED BY <4>1, KeysAreKnown
    <3>2. run[m].pc = "read" /\ Goes(m, s) /\ UNCHANGED checks
      BY <2>8 DEF ReadFacts
    <3> HIDE DEF keys
    <3>3. s \in RunRows /\ s.pc = "ingest" /\ s.set = run[m].set /\ s.units = keys
      BY <2>3, <3>1 DEF RunRows
    <3> HIDE DEF s
    <3>4. RunOK(s)
      BY <2>3, <3>1, <3>2, <3>3 DEF RunOK
    <3> QED BY <2>1, <3>2, <3>3, <3>4, RunMoves
  <2>9. CASE Ingest(m)
    BY <2>1, <2>9, IngestMoves
  <2>10. CASE StageFails(m)
    BY <2>1, <2>4, <2>10, RunMoves DEF StageFails
  <2> QED BY <2>2, <2>6, <2>7, <2>8, <2>9, <2>10
<1> QED BY <1>1, <1>2, <1>3, <1>4 DEF Next

\* What a run that succeeded shows.
LEMMA ShowsOne ==
  ASSUME ChecksInv, NEW m \in Runs, run[m].pc = "succeeded"
  PROVE  /\ There(run[m].set)
         /\ \E c \in checks :
              /\ Shown(m) = {c}
              /\ c.matches = Matches(FactsOf(run[m].units), SetOf(run[m].set).indicators)
              /\ c.types = Summary(FactsOf(run[m].units), SetOf(run[m].set).indicators)
<1>1. PICK c \in checks : m \in c.runs
  BY DEF ChecksInv
<1>2. CheckOK(c) /\ RunOK(run[m])
  BY DEF ChecksInv
<1>3. c.id = <<run[m].set, run[m].units>>
  BY <1>1, <1>2 DEF CheckOK, Identity
<1>4. PICK keys \in SUBSET AllKeys : IsCheckOf(c, keys)
  BY <1>2 DEF CheckOK
<1>5. c.set = run[m].set /\ keys = run[m].units
  BY <1>3, <1>4 DEF IsCheckOf, Identity
<1>6. ASSUME NEW e \in checks, m \in e.runs PROVE e = c
  <2>1. e.id = <<run[m].set, run[m].units>>
    BY <1>6 DEF ChecksInv, CheckOK, Identity
  <2> QED BY <1>3, <2>1 DEF ChecksInv
<1>7. Shown(m) = {c}
  BY <1>1, <1>5, <1>6 DEF Shown
<1> QED BY <1>2, <1>4, <1>5, <1>7 DEF IsCheckOf, RunOK

LEMMA RunShowsHolds == ChecksInv => RunShowsItsCheck
BY ShowsOne DEF RunShowsItsCheck

\* Every value of a fact is one a source may be read of.
LEMMA FactValues ==
  ASSUME BridgeInv, NEW keys, NEW f \in FactsOf(keys), NEW h \in DOMAIN f.fields
  PROVE  f.fields[h] \in Values
<1>1. PICK u \in units \cup {CrashUnit} : f \in SeqRange(u.facts)
  BY DEF FactsOf
<1>2. CASE u = CrashUnit
  BY <1>1, <1>2, ChecksAssumption
<1>3. CASE u \in units
  <2> DEFINE a == Artifacts[u.content.artifact]
             table == Tables[u.content.table]
             fixes == Fixes(a, u.ver, Reports[u.of].tool)
  <2>1. UnitOK(u)
    BY <1>3 DEF BridgeInv
  <2>2. u.content.table \in DOMAIN Tables
    BY <2>1 DEF UnitOK
  <2>3. PICK i \in DOMAIN u.facts : f = u.facts[i]
    BY <1>1 DEF SeqRange
  <2>4. /\ i \in DOMAIN table.rows /\ f = Record(a, table, table.rows[i], fixes)
    BY <2>1, <2>3, FactsAreRows
  <2>5. f.fields = Kept(a, table, table.rows[i], fixes)
    <3> DEFINE row == table.rows[i]
    <3> HIDE DEF a, table, fixes, row
    <3>1. f = Record(a, table, row, fixes)
      BY <2>4 DEF row
    <3>2. f.fields = Kept(a, table, row, fixes)
      BY <3>1, RecordIs
    <3> QED BY <3>2 DEF row
  <2>6. PICK c \in table.columns : a.headers[c] = h
    BY <2>5 DEF Kept
  <2> DEFINE e == CHOOSE x \in table.columns : a.headers[x] = h
  <2>7. e \in table.columns
    BY <2>6
  <2>8. f.fields[h] = table.rows[i][e]
    <3> DEFINE row == table.rows[i] columns == table.columns
    <3>1. Kept(a, table, row, fixes) = [g \in {a.headers[x] : x \in columns} |-> row[CHOOSE x \in columns : a.headers[x] = g]]
      BY DEF Kept
    <3>2. h \in {a.headers[x] : x \in columns} /\ e = CHOOSE x \in columns : a.headers[x] = h
      BY <2>6
    <3> HIDE DEF a, table, row, columns, e
    <3>3. Kept(a, table, row, fixes)[h] = row[e]
      BY <3>1, <3>2
    <3> QED BY <2>5, <3>3 DEF row
  <2>9. \A t \in DOMAIN Tables : \A j \in DOMAIN Tables[t].rows : \A x \in Tables[t].columns :
          Tables[t].rows[j][x] \in Values
    BY ChecksAssumption
  <2> HIDE DEF e
  <2> QED BY <2>2, <2>4, <2>7, <2>8, <2>9
<1> QED BY <1>1, <1>2, <1>3

LEMMA MatchesHold == ASSUME BridgeInv, RegInv, ChecksInv PROVE MatchesAreExact
<1> SUFFICES ASSUME NEW m \in Runs, run[m].pc = "succeeded", NEW c \in Shown(m), NEW f \in FactsOf(run[m].units),
                    NEW ind \in SetOf(run[m].set).indicators, ind.type = "domain"
             PROVE  LET names(s, t) == /\ t.is = (IF s.host THEN "url" ELSE "domain") /\ "bad" \notin t.form
                                       /\ "leading" \in t.form => s.host \/ s.extract = "cookie_host"
                        hit(s) == LET t == f.fields[s.column] n == t.name k == Len(ind.normal.name) IN
                                    names(s, t) /\ Len(n) >= k /\ SubSeq(n, Len(n) - k + 1, Len(n)) = ind.normal.name IN
                    (\E s \in Sources["domain"] : Holds(s, f) /\ hit(s)) <=> \E x \in c.matches : x.ind = ind /\ x.fact = f
  BY DEF MatchesAreExact
<1> DEFINE facts == FactsOf(run[m].units)
           indicators == SetOf(run[m].set).indicators
           mode(s) == Mode("domain", ValueOf("domain", s, f.fields[s.column]), ind)
           match(s) == Holds(s, f) /\ Reading("domain", s, f.fields[s.column]) = "value" /\ mode(s) # None
<1>1. c.matches = Matches(facts, indicators) /\ There(run[m].set)
  BY ShowsOne
<1>2. SetOf(run[m].set) \in registry
  BY <1>1 DEF There, SetOf
<1>3. PICK name \in Seq(STRING) : name # <<>> /\ ind.normal = Domain(name)
  BY <1>2, RegisteredDomain
<1>4. ind.normal.name = name
  <2>1. Domain(name).name = name
    BY DEF Domain
  <2> QED BY <1>3, <2>1
<1>5. (\E x \in c.matches : x.ind = ind /\ x.fact = f) <=> \E s \in Sources["domain"] : match(s)
  <2>1. ASSUME NEW x \in c.matches, x.ind = ind, x.fact = f PROVE \E s \in Sources["domain"] : match(s)
    <3>1. PICK i \in indicators : i.type \in MatchedTypes /\ \E s \in Sources[i.type] : x \in MatchesOf(i, s, facts)
      <4> HIDE DEF facts, indicators
      <4> QED BY <1>1, <2>1, MatchIs
    <3>2. PICK s \in Sources[i.type] : x \in MatchesOf(i, s, facts)
      BY <3>1
    <3>3. PICK g \in facts : LET md == Mode(i.type, ValueOf(i.type, s, g.fields[s.column]), i) IN
            /\ Holds(s, g) /\ Reading(i.type, s, g.fields[s.column]) = "value" /\ md # None
            /\ x = [ind |-> i, fact |-> g, source |-> s, mode |-> md]
      <4> HIDE DEF facts
      <4> QED BY <3>2, MatchOfIs
    <3>4. i = ind /\ g = f
      BY <2>1, <3>3
    <3> QED BY <3>2, <3>3, <3>4
  <2>2. ASSUME NEW s \in Sources["domain"], match(s) PROVE \E x \in c.matches : x.ind = ind /\ x.fact = f
    <3> DEFINE md == mode(s) x == [ind |-> ind, fact |-> f, source |-> s, mode |-> md]
    <3>1. x.ind = ind /\ x.fact = f
      OBVIOUS
    <3>2. x \in MatchesOf(ind, s, facts)
      <4>1. \E g \in facts : LET w == Mode(ind.type, ValueOf(ind.type, s, g.fields[s.column]), ind) IN
              /\ Holds(s, g) /\ Reading(ind.type, s, g.fields[s.column]) = "value" /\ w # None
              /\ x = [ind |-> ind, fact |-> g, source |-> s, mode |-> w]
        BY <2>2
      <4> HIDE DEF x, facts
      <4> QED BY <4>1, MatchOfIs
    <3> HIDE DEF x
    <3>3. x \in Matches(facts, indicators)
      <4>1. "domain" \in MatchedTypes /\ ind \in indicators
        BY DEF MatchedTypes
      <4> HIDE DEF facts, indicators
      <4> QED BY <3>2, <4>1, MatchIs
    <3> QED BY <1>1, <3>1, <3>3
  <2> QED BY <2>1, <2>2
<1>6. ASSUME NEW s \in Sources["domain"]
      PROVE  match(s) <=> LET t == f.fields[s.column] n == t.name k == Len(name) IN
               Holds(s, f) /\ Names(s, t) /\ Len(n) >= k /\ SubSeq(n, Len(n) - k + 1, Len(n)) = name
  <2> DEFINE t == f.fields[s.column]
  <2>1. CASE Holds(s, f)
    <3>1. t \in Values /\ t.is # "null"
      BY <2>1, FactValues DEF Holds
    <3> HIDE DEF t
    <3>2. (Reading("domain", s, t) = "value" /\ Mode("domain", ValueOf("domain", s, t), ind) # None) <=>
            /\ Names(s, t) /\ Len(t.name) >= Len(name)
            /\ SubSeq(t.name, Len(t.name) - Len(name) + 1, Len(t.name)) = name
      BY <1>3, <3>1, DomainMatches
    <3> QED BY <2>1, <3>2 DEF t
  <2>2. CASE ~Holds(s, f)
    BY <2>2
  <2> QED BY <2>1, <2>2
<1>7. (\E s \in Sources["domain"] :
         LET t == f.fields[s.column] n == t.name k == Len(ind.normal.name) IN
         Holds(s, f) /\ Names(s, t) /\ Len(n) >= k /\ SubSeq(n, Len(n) - k + 1, Len(n)) = ind.normal.name)
        <=> \E x \in c.matches : x.ind = ind /\ x.fact = f
  <2> HIDE DEF match
  <2> QED BY <1>4, <1>5, <1>6
<1> QED BY <1>7 DEF Names

LEMMA NoSilenceHolds == ASSUME BridgeInv, ChecksInv PROVE NoSilentNoMatch
<1> SUFFICES ASSUME NEW m \in Runs, run[m].pc = "succeeded", NEW c \in Shown(m),
                    NEW ind \in SetOf(run[m].set).indicators
             PROVE  /\ ind.type \in DOMAIN c.types
                    /\ c.types[ind.type].status = "checked" <=>
                         ind.type \in MatchedTypes /\
                           \E f \in FactsOf(run[m].units) : \E s \in Sources[ind.type] :
                             Holds(s, f) /\ Reading(ind.type, s, f.fields[s.column]) = "value"
                    /\ c.types[ind.type].status # "checked" => ~\E x \in c.matches : x.ind.type = ind.type
  BY DEF NoSilentNoMatch
<1> DEFINE facts == FactsOf(run[m].units)
           indicators == SetOf(run[m].set).indicators
           type == ind.type
           held == \E f \in facts : \E s \in Sources[type] : Holds(s, f) /\ Reading(type, s, f.fields[s.column]) = "value"
<1>1. c.matches = Matches(facts, indicators) /\ c.types = Summary(facts, indicators)
  BY ShowsOne
<1>2. IsFiniteSet(facts) /\ ind \in indicators
  BY FactsAreFinite
<1>3. type \in DOMAIN c.types
  BY <1>1 DEF Summary
<1>4. c.types[type] = IF type \in MatchedTypes
                      THEN LET counts == SourceCounts(type, facts) IN [status |-> Status(counts), sources |-> counts]
                      ELSE [status |-> "no_source", sources |-> {}]
  BY <1>1 DEF Summary
<1> HIDE DEF facts, indicators
<1>5. Status(SourceCounts(type, facts)) = "checked" <=> held
  <2> HIDE DEF type
  <2> QED BY <1>2, CheckedIs
<1>6. c.types[type].status = "checked" <=> type \in MatchedTypes /\ held
  BY <1>4, <1>5
<1>7. ASSUME NEW x \in c.matches, x.ind.type = type PROVE type \in MatchedTypes /\ held
  <2>1. PICK i \in indicators : i.type \in MatchedTypes /\ \E s \in Sources[i.type] : x \in MatchesOf(i, s, facts)
    BY <1>1, <1>7, MatchIs
  <2>2. PICK s \in Sources[i.type] : x \in MatchesOf(i, s, facts)
    BY <2>1
  <2>3. PICK g \in facts : LET md == Mode(i.type, ValueOf(i.type, s, g.fields[s.column]), i) IN
          /\ Holds(s, g) /\ Reading(i.type, s, g.fields[s.column]) = "value" /\ md # None
          /\ x = [ind |-> i, fact |-> g, source |-> s, mode |-> md]
    BY <2>2, MatchOfIs
  <2>4. x.ind = i
    BY <2>3
  <2> QED BY <1>7, <2>1, <2>2, <2>3, <2>4
<1> QED BY <1>3, <1>6, <1>7 DEF facts, indicators

LEMMA TypesHold == ASSUME BridgeInv, RegInv, ChecksInv PROVE TypeOK
<1>1. /\ disk \in DOMAIN Reports /\ replaced \in 0 .. MaxReplaced /\ stages \in 0 .. MaxStages
      /\ stage.pc \in Resting \cup {"manifest", "open", "artifacts"}
  BY DEF BridgeInv, StageOK, Stages
<1>2. clock \in 0 .. MaxRegistered /\ contents \subseteq DOMAIN Files
  BY DEF RegInv, RegistryOK
<1>3. ASSUME NEW r \in Registrars
      PROVE  /\ reg[r].pc \in InRegistration \cup {"off", "registered", "already", "neither"}
             /\ \A q \in Registrars \ {r} : reg[r].locks \cap reg[q].locks = {}
  BY DEF RegInv, RegistrationOK, Registrations, LocksApart
<1>4. ASSUME NEW m \in Runs PROVE run[m].pc \in {"off", "skipped", "read", "ingest", "succeeded"}
  BY DEF ChecksInv, RunOK, RunRows
<1> QED BY <1>1, <1>2, <1>3, <1>4 DEF TypeOK

\* Whatever reports are read, corrected and read again, and whatever is
\* registered, a run that succeeded shows one check, of its set and of the facts
\* it read, exact in its domains and silent on no type (indicator_match).
THEOREM ChecksAreSoundHolds == Spec => []ChecksAreSound
<1> DEFINE IInv == BridgeInv /\ RegInv /\ ChecksInv
<1>1. Init => IInv
  BY InitBridgeInv, InitRegInv, InitChecksInv DEF Init
<1>2. IInv /\ [Next]_vars => IInv'
  BY NextBridgeInv, NextRegInv, NextChecksInv
<1>3. IInv => ChecksAreSound
  BY TypesHold, RunShowsHolds, MatchesHold, NoSilenceHolds DEF ChecksAreSound
<1> HIDE DEF IInv
<1> QED BY <1>1, <1>2, <1>3, PTL DEF Spec
===============================================================================
