-------------------------- MODULE AlertSystemProofs --------------------------
(***************************************************************************)
(* Alerts across processes, for any keys, events, requests, restarts and   *)
(* refused saves: what every copy of an alert has in common with the       *)
(* others, wherever it is.                                                 *)
(***************************************************************************)
EXTENDS AlertSystem, FiniteSetTheorems, WellFoundedInduction, TLAPS

\* A set that has 0, and n + 1 with n, has every natural number.
LEMMA NatInd ==
  ASSUME NEW S, 0 \in S, \A n \in Nat : n \in S => n + 1 \in S
  PROVE  Nat \subseteq S
<1> DEFINE T == Nat \ S
           R == OpToRel(<, Nat)
<1>1. SUFFICES ASSUME T # {} PROVE FALSE
  OBVIOUS
<1>2. IsWellFoundedOn(R, Nat)
  BY NatLessThanWellFounded, Zenon
<1> HIDE DEF R
<1>3. PICK x \in T : \A y \in T : ~ (<<y, x>> \in R)
  <2>1. T \subseteq Nat
    OBVIOUS
  <2> HIDE DEF T
  <2> QED BY <1>1, <1>2, <2>1, WFMin, Zenon
<1> USE DEF R
<1>4. \A y \in T : ~(y < x)
  BY <1>3 DEF OpToRel
<1>5. x # 0 /\ x \in Nat
  BY <1>3
<1>6. x - 1 \in Nat /\ x - 1 < x /\ (x - 1) + 1 = x
  BY <1>5
<1>7. x - 1 \in S
  BY <1>4, <1>6
<1> QED BY <1>7, <1>6, <1>3

\* A function that is built step by step exists.
LEMMA Recursion ==
  ASSUME NEW S, NEW base \in S, NEW N \in Nat
  PROVE  \A step \in [1..N -> [S -> S]] : \E g \in [0..N -> S] :
           g[0] = base /\ \A n \in 1..N : g[n] = step[n][g[n - 1]]
<1> TAKE step \in [1..N -> [S -> S]]
<1> DEFINE Upto(m, g) ==
             g \in [0..N -> S] /\ g[0] = base
             /\ \A n \in 1..N : n <= m => g[n] = step[n][g[n - 1]]
           Built == {m \in Nat : m <= N => \E g : Upto(m, g)}
<1>1. 0 \in Built
  <2> DEFINE g == [n \in 0..N |-> base]
  <2>1. Upto(0, g)  OBVIOUS
  <2> HIDE DEF Upto, g
  <2> QED BY <2>1
<1>2. ASSUME NEW m \in Nat, m \in Built PROVE m + 1 \in Built
  <2> SUFFICES ASSUME m + 1 <= N PROVE \E g : Upto(m + 1, g)
    OBVIOUS
  <2>1. PICK g : Upto(m, g)
    BY <1>2
  <2> DEFINE h == [g EXCEPT ![m + 1] = step[m + 1][g[m]]]
  <2>2. m + 1 \in 1..N /\ m \in 0..N /\ g[m] \in S
    BY <2>1
  <2>3. step[m + 1][g[m]] \in S
    BY <2>2
  <2>4. h \in [0..N -> S] /\ h[0] = base /\ h[m + 1] = step[m + 1][g[m]]
        /\ \A n \in 0..N : n # m + 1 => h[n] = g[n]
    BY <2>1, <2>2, <2>3
  <2> HIDE DEF h
  <2>5. \A n \in 1..N : n <= m + 1 => h[n] = step[n][h[n - 1]]
    <3> SUFFICES ASSUME NEW n \in 1..N, n <= m + 1 PROVE h[n] = step[n][h[n - 1]]
      OBVIOUS
    <3>1. n - 1 \in 0..N /\ n - 1 # m + 1 /\ n \in 0..N /\ (n = m + 1 \/ n <= m)
      BY <2>2
    <3>2. h[n - 1] = g[n - 1]
      BY <2>4, <3>1
    <3>3. CASE n = m + 1
      BY <2>2, <2>4, <3>2, <3>3
    <3>4. CASE n <= m
      <4>1. h[n] = g[n]
        BY <2>4, <3>1, <3>4
      <4>2. g[n] = step[n][g[n - 1]]
        BY <2>1, <3>4
      <4> QED BY <3>2, <4>1, <4>2
    <3> QED BY <3>1, <3>3, <3>4
  <2> QED BY <2>4, <2>5
<1> HIDE DEF Upto
<1>3. Nat \subseteq Built
  <2> HIDE DEF Built
  <2> QED BY <1>1, <1>2, NatInd
<1>4. PICK g : Upto(N, g)
  BY <1>3
<1> QED BY <1>4 DEF Upto

-----------------------------------------------------------------------------
(* What the operations on one alert preserve *)

\* What every copy of an alert satisfies, the one in memory included: only the
\* policy suppresses, and at most one occurrence late.
Earned(d) ==
  /\ d.status = "SUPPRESSED" => ShouldSuppress(d)
  /\ d.status = "NEW" /\ d.count > MinOccurrences => ~ShouldSuppress(d)
  /\ d.status # "CLOSED"

\* What the policy has left alone: an alert between two occurrences.
Quiet(a) ==
  /\ a.status = "SUPPRESSED" => ShouldSuppress(a)
  /\ a.status = "NEW" => ~ShouldSuppress(a)
  /\ a.status # "CLOSED"

Due(a) == a.status = "NEW" /\ ShouldEscalate(a)

\* A copy of the same alert, with no more occurrences.
Behind(d, a) == d.key = a.key /\ d.count <= a.count

\* A first occurrence.
LEMMA NewFacts ==
  ASSUME NEW k \in Keys
  PROVE  /\ NewAlert(k) \in Alert /\ NewAlert(k).key = k
         /\ Earned(NewAlert(k))
BY OccurrenceAssumption DEF NewAlert, Alert, AlertStatus, Earned

\* An occurrence more.
LEMMA RecurredFacts ==
  ASSUME NEW a \in Alert, Quiet(a)
  PROVE  /\ Recurred(a) \in Alert /\ Behind(a, Recurred(a))
         /\ Earned(Recurred(a))
<1> DEFINE b == Recurred(a)
<1>1. /\ b \in Alert /\ b.key = a.key /\ b.status = a.status /\ b.count = a.count + 1
      /\ a.count \in Nat
  BY DEF Recurred, Alert
<1>2. ShouldSuppress(a) => ShouldSuppress(b)
  BY <1>1, OccurrenceAssumption DEF ShouldSuppress
<1>3. b.count > MinOccurrences /\ ShouldSuppress(b) => ShouldSuppress(a)
  BY <1>1, OccurrenceAssumption DEF ShouldSuppress
<1> QED BY <1>1, <1>2, <1>3 DEF Quiet, Earned, Behind

\* After suppression has been evaluated.
LEMMA SuppressionFacts ==
  ASSUME NEW a \in Alert, Earned(a)
  PROVE  /\ AfterSuppression(a) \in Alert
         /\ Behind(a, AfterSuppression(a)) /\ Behind(AfterSuppression(a), a)
         /\ Quiet(AfterSuppression(a))
<1> DEFINE b == Moved(a, "SUPPRESSED")
<1>1. a.count \in Nat /\ a.status \in AlertStatus
  BY DEF Alert
<1>2. b \in Alert /\ b.key = a.key /\ b.status = "SUPPRESSED" /\ b.count = a.count
  BY DEF Moved, Alert, AlertStatus
<1> HIDE DEF b
<1>3. CASE WantsSuppression(a) /\ CanTransition(a.status, "SUPPRESSED")
  <2>1. AfterSuppression(a) = b
    BY <1>3 DEF AfterSuppression, b
  <2>2. ShouldSuppress(b)
    BY <1>2, <1>3 DEF WantsSuppression, ShouldSuppress
  <2> QED BY <1>1, <1>2, <2>1, <2>2 DEF Behind, Quiet
<1>4. CASE ~(WantsSuppression(a) /\ CanTransition(a.status, "SUPPRESSED"))
  <2>1. AfterSuppression(a) = a
    BY <1>4 DEF AfterSuppression
  <2>2. a.status = "NEW" => ~ShouldSuppress(a)
    BY <1>4 DEF WantsSuppression, CanTransition, AllowedTransitions
  <2> QED BY <1>1, <2>1, <2>2 DEF Behind, Quiet, Earned
<1> QED BY <1>3, <1>4

\* A status other than the three that Earned is about.
LEMMA MovedFacts ==
  ASSUME NEW a \in Alert, NEW t \in AlertStatus \ {"NEW", "SUPPRESSED", "CLOSED"}
  PROVE  /\ Moved(a, t) \in Alert
         /\ Behind(Moved(a, t), a) /\ Behind(a, Moved(a, t))
         /\ Moved(a, t).status = t /\ Earned(Moved(a, t)) /\ Quiet(Moved(a, t))
<1>1. /\ Moved(a, t) \in Alert /\ Moved(a, t).key = a.key /\ Moved(a, t).status = t
      /\ Moved(a, t).count = a.count /\ a.count \in Nat
  BY DEF Moved, Alert
<1> QED BY <1>1 DEF Behind, Earned, Quiet

\* Escalation, on its way and when it is done.
LEMMA EscalationFacts ==
  ASSUME NEW a \in Alert, Quiet(a)
  PROVE  /\ AfterEscalation(a) \in Alert
         /\ Behind(a, AfterEscalation(a)) /\ Behind(AfterEscalation(a), a)
         /\ Quiet(AfterEscalation(a)) /\ ~Due(AfterEscalation(a))
         /\ \A t \in Range(EscalationPath(a)) :
              /\ Moved(a, t) \in Alert /\ Earned(Moved(a, t))
              /\ Behind(Moved(a, t), AfterEscalation(a))
<1>1. a.count \in Nat /\ {"ACKNOWLEDGED", "ESCALATED"}
                              \subseteq AlertStatus \ {"NEW", "SUPPRESSED", "CLOSED"}
  BY DEF Alert, AlertStatus
<1>2. CASE EscalationPath(a) = <<>>
  <2>1. AfterEscalation(a) = a
    BY <1>2 DEF AfterEscalation
  <2>2. ~Due(a)
    BY <1>2 DEF EscalationPath, Due
  <2>3. Range(EscalationPath(a)) = {}
    BY <1>2 DEF Range
  <2> QED BY <1>1, <2>1, <2>2, <2>3 DEF Behind
<1>3. CASE EscalationPath(a) # <<>>
  <2>1. AfterEscalation(a) = Moved(a, "ESCALATED")
    BY <1>3 DEF AfterEscalation
  <2>2. Range(EscalationPath(a)) \subseteq {"ACKNOWLEDGED", "ESCALATED"}
    <3>1. EscalationPath(a) \in {<<>>, <<"ACKNOWLEDGED", "ESCALATED">>, <<"ESCALATED">>}
      BY DEF EscalationPath
    <3> QED BY <3>1 DEF Range
  <2>3. \A t \in {"ACKNOWLEDGED", "ESCALATED"} :
          /\ Moved(a, t) \in Alert /\ Earned(Moved(a, t))
          /\ Behind(Moved(a, t), a) /\ Behind(a, Moved(a, t))
          /\ Quiet(Moved(a, t)) /\ Moved(a, t).status = t
    BY <1>1, MovedFacts
  <2>4. ~Due(AfterEscalation(a))
    BY <2>1, <2>3 DEF Due
  <2>5. \A t \in {"ACKNOWLEDGED", "ESCALATED"} :
          Behind(Moved(a, t), AfterEscalation(a))
    <3> SUFFICES ASSUME NEW t \in {"ACKNOWLEDGED", "ESCALATED"}
                 PROVE  Behind(Moved(a, t), AfterEscalation(a))
      OBVIOUS
    <3>1. Moved(a, t).count \in Nat /\ Moved(a, "ESCALATED").count \in Nat
      BY <2>3 DEF Alert
    <3> QED BY <2>1, <2>3, <3>1, <1>1 DEF Behind
  <2> QED BY <2>1, <2>2, <2>3, <2>4, <2>5
<1> QED BY <1>2, <1>3

-----------------------------------------------------------------------------
(* The work on an event *)

Works ==
  [alerts: [AlertIds -> Document], dedup: [Keys -> AlertIds \cup {NoId}],
   saves: SUBSET Save, free: SUBSET AlertIds, touched: SUBSET AlertIds,
   raised: BOOLEAN]

\* The index leads to the alert of each key, and every alert is in it.
Indexed(w) ==
  /\ \A k \in Keys : w.dedup[k] # NoId =>
       w.alerts[w.dedup[k]] # NoAlert /\ w.alerts[w.dedup[k]].key = k
  /\ \A i \in AlertIds : w.alerts[i] # NoAlert => w.dedup[w.alerts[i].key] = i

\* The keys among R that have no alert yet.
Unindexed(w, R) == {k \in R : w.dedup[k] = NoId}

\* Identifiers are free until they are used, and are enough for the keys R.
FreeEnough(w0, w, R) ==
  /\ w.free \subseteq w0.free
  /\ \A i \in w.free : w.alerts[i] = NoAlert
  /\ \A i \in AlertIds : w.alerts[i] # NoAlert <=>
       w0.alerts[i] # NoAlert \/ i \in w0.free \ w.free
  /\ Cardinality(Unindexed(w, R)) <= Cardinality(w.free)

\* Alerts only gain occurrences, and what is saved of them is no further.
Grown(w0, w) ==
  /\ \A i \in AlertIds : w0.alerts[i] # NoAlert => Behind(w0.alerts[i], w.alerts[i])
  /\ \A i \in AlertIds : w.alerts[i] # NoAlert => Quiet(w.alerts[i])
  /\ w0.saves \subseteq w.saves
  /\ \A s \in w.saves \ w0.saves :
       /\ s.owner = Worker /\ w.alerts[s.id] # NoAlert
       /\ Behind(s.doc, w.alerts[s.id]) /\ Earned(s.doc)

\* An alert that is due to be escalated is one the batch has touched, or has
\* been due before.
DueTouched(w0, w) ==
  /\ \A i \in w.touched : w.alerts[i] # NoAlert
  /\ \A i \in AlertIds : w.alerts[i] # NoAlert /\ Due(w.alerts[i]) =>
       i \in w.touched \/ w.alerts[i] = w0.alerts[i]

DueBefore(w0, w) ==
  \A i \in AlertIds : w.alerts[i] # NoAlert /\ Due(w.alerts[i]) =>
    w.alerts[i] = w0.alerts[i]

\* Work that began as w0, on results with keys in R.
Good(w0, R) ==
  {w \in Works : /\ Indexed(w) /\ FreeEnough(w0, w, R)
                 /\ Grown(w0, w) /\ DueTouched(w0, w)}

\* Of some identifiers one is the least.
LEMMA FreshIsFree ==
  ASSUME NEW w \in Works, w.free # {}
  PROVE  Fresh(w) \in w.free
<1>1. w.free \subseteq Nat
  BY SystemBoundAssumption DEF Works, AlertIds
<1>2. \E i \in w.free : \A j \in w.free : i <= j
  <2> DEFINE R == OpToRel(<, Nat)
  <2>1. IsWellFoundedOn(R, Nat)
    BY NatLessThanWellFounded, Zenon
  <2> HIDE DEF R
  <2>2. PICK i \in w.free : \A j \in w.free : ~ (<<j, i>> \in R)
    BY <1>1, <2>1, WFMin, Zenon
  <2>3. \A j \in w.free : ~(j < i)
    BY <1>1, <2>2 DEF R, OpToRel
  <2> QED BY <1>1, <2>3
<1> QED BY <1>2 DEF Fresh

\* Good work stays so with an occurrence of a key in R, the first one or one
\* more of the alert that has it.
LEMMA OccurGood ==
  ASSUME NEW w0 \in Works, NEW R, IsFiniteSet(R), R \subseteq Keys,
         NEW w \in Good(w0, R), NEW k \in R, NEW i \in AlertIds,
         NEW a \in Alert, a.key = k, Earned(a),
         \/ w.dedup[k] = NoId /\ i \in w.free
         \/ w.dedup[k] = i /\ Behind(w.alerts[i], a)
  PROVE  Occur(w, k, i, a) \in Good(w0, R)
<1> DEFINE b == AfterSuppression(a)
           v == Occur(w, k, i, a)
<1>1. /\ b \in Alert /\ Behind(a, b) /\ Behind(b, a) /\ Quiet(b)
      /\ a.count \in Nat /\ b.count \in Nat /\ b.key = k
  <2>1. b \in Alert /\ Behind(a, b) /\ Behind(b, a) /\ Quiet(b)
    BY SuppressionFacts
  <2>2. \A d \in Alert : d.count \in Nat
    BY DEF Alert
  <2> QED BY <2>1, <2>2 DEF Behind
<1>2. Earned(b)
  BY <1>1 DEF Quiet, Earned
<1>3. /\ w \in Works /\ Indexed(w) /\ FreeEnough(w0, w, R)
      /\ Grown(w0, w) /\ DueTouched(w0, w)
  BY DEF Good
<1>4. SuppressionRaises(a) \in BOOLEAN
  BY DEF SuppressionRaises
<1>5. {SaveOf(i, a), SaveOf(i, b)} \subseteq Save
  BY <1>1 DEF SaveOf, Save
<1>6. /\ v.alerts = [w.alerts EXCEPT ![i] = b]
      /\ v.dedup = [w.dedup EXCEPT ![k] = i]
      /\ v.saves = w.saves \cup {SaveOf(i, a), SaveOf(i, b)}
      /\ v.free = w.free \ {i}
      /\ v.touched = w.touched \cup {i}
  BY DEF Occur, Put
<1>7. /\ w.alerts \in [AlertIds -> Document] /\ w.dedup \in [Keys -> AlertIds \cup {NoId}]
      /\ w.saves \in SUBSET Save /\ w.free \in SUBSET AlertIds
      /\ w.touched \in SUBSET AlertIds /\ k \in Keys
  BY <1>3 DEF Works
<1>8. b # NoAlert /\ NoId \notin AlertIds
  BY <1>1, NoneAssumption
<1>9. v \in Works
  <2>1. /\ [w.alerts EXCEPT ![i] = b] \in [AlertIds -> Document]
        /\ [w.dedup EXCEPT ![k] = i] \in [Keys -> AlertIds \cup {NoId}]
    BY <1>1, <1>7 DEF Document
  <2> QED BY <2>1, <1>4, <1>5, <1>7 DEF Occur, Put, Works
<1> HIDE DEF v, b
<1>10. /\ v.alerts[i] = b /\ \A j \in AlertIds \ {i} : v.alerts[j] = w.alerts[j]
       /\ v.dedup[k] = i /\ \A q \in Keys \ {k} : v.dedup[q] = w.dedup[q]
  BY <1>6, <1>7
<1>11. w.dedup[k] = NoId => w.alerts[i] = NoAlert
  BY <1>3, <1>8 DEF FreeEnough
<1>12. w.dedup[k] # NoId => /\ w.dedup[k] = i /\ w.alerts[i] # NoAlert
                            /\ w.alerts[i].key = k /\ Behind(w.alerts[i], a)
                            /\ i \notin w.free
  BY <1>3, <1>7 DEF Indexed, FreeEnough
<1>13. Indexed(v)
  <2>1. ASSUME NEW q \in Keys, v.dedup[q] # NoId
        PROVE  v.alerts[v.dedup[q]] # NoAlert /\ v.alerts[v.dedup[q]].key = q
    <3>1. CASE q = k
      BY <3>1, <1>1, <1>8, <1>10
    <3>2. CASE q # k
      <4>1. /\ w.dedup[q] # NoId /\ v.dedup[q] = w.dedup[q]
            /\ w.alerts[w.dedup[q]] # NoAlert /\ w.alerts[w.dedup[q]].key = q
        BY <2>1, <3>2, <1>3, <1>10 DEF Indexed
      <4>2. w.dedup[q] # i
        BY <3>2, <4>1, <1>11, <1>12
      <4>3. w.dedup[q] \in AlertIds
        BY <4>1, <1>7
      <4> QED BY <4>1, <4>2, <4>3, <1>10
    <3> QED BY <3>1, <3>2
  <2>2. ASSUME NEW j \in AlertIds, v.alerts[j] # NoAlert
        PROVE  v.dedup[v.alerts[j].key] = j
    <3>1. CASE j = i
      BY <3>1, <1>1, <1>10
    <3>2. CASE j # i
      <4>1. v.alerts[j] = w.alerts[j] /\ w.dedup[w.alerts[j].key] = j
        BY <2>2, <3>2, <1>3, <1>10 DEF Indexed
      <4>2. w.alerts[j].key \in Keys
        BY <2>2, <4>1, <1>7 DEF Document, Alert
      <4>3. w.alerts[j].key # k
        BY <3>2, <4>1, <1>8, <1>12
      <4> QED BY <4>1, <4>2, <4>3, <1>10
    <3> QED BY <3>1, <3>2
  <2> QED BY <2>1, <2>2 DEF Indexed
<1>14. FreeEnough(w0, v, R)
  <2>1. v.free \subseteq w0.free /\ \A j \in v.free : v.alerts[j] = NoAlert
    BY <1>3, <1>6, <1>7, <1>10 DEF FreeEnough
  <2>2. \A j \in AlertIds : v.alerts[j] # NoAlert <=>
          w0.alerts[j] # NoAlert \/ j \in w0.free \ v.free
    <3>1. ASSUME NEW j \in AlertIds, j # i
          PROVE  v.alerts[j] # NoAlert <=> w0.alerts[j] # NoAlert \/ j \in w0.free \ v.free
      BY <3>1, <1>3, <1>6, <1>10 DEF FreeEnough
    <3>2. w0.alerts[i] # NoAlert \/ i \in w0.free \ v.free
      <4>1. CASE w.dedup[k] = NoId
        <5>1. i \in w.free
          BY <4>1, <1>8
        <5> QED BY <5>1, <1>3, <1>6 DEF FreeEnough
      <4>2. CASE w.dedup[k] # NoId
        BY <4>2, <1>3, <1>6, <1>12 DEF FreeEnough
      <4> QED BY <4>1, <4>2
    <3> QED BY <3>1, <3>2, <1>8, <1>10
  <2>3. Cardinality(Unindexed(v, R)) <= Cardinality(v.free)
    <3>1. IsFiniteSet(Unindexed(w, R)) /\ IsFiniteSet(w.free)
      <4>1. IsFiniteSet(Unindexed(w, R))
        BY FS_Subset DEF Unindexed
      <4>2. IsFiniteSet(AlertIds)
        BY FS_Interval, SystemBoundAssumption DEF AlertIds
      <4> QED BY <4>1, <4>2, <1>7, FS_Subset
    <3>2. Unindexed(v, R) = Unindexed(w, R) \ {k}
      BY <1>8, <1>10 DEF Unindexed
    <3>3. Cardinality(Unindexed(w, R)) <= Cardinality(w.free)
      BY <1>3 DEF FreeEnough
    <3>4. CASE w.dedup[k] = NoId
      <4>1. k \in Unindexed(w, R) /\ i \in w.free
        BY <3>4, <1>8 DEF Unindexed
      <4>2. /\ Cardinality(Unindexed(v, R)) = Cardinality(Unindexed(w, R)) - 1
            /\ Cardinality(v.free) = Cardinality(w.free) - 1
        <5>1. /\ Cardinality(Unindexed(w, R) \ {k}) = Cardinality(Unindexed(w, R)) - 1
              /\ Cardinality(w.free \ {i}) = Cardinality(w.free) - 1
          BY <4>1, <3>1, FS_RemoveElement
        <5> QED BY <5>1, <3>2, <1>6
      <4>3. Cardinality(Unindexed(w, R)) \in Nat /\ Cardinality(w.free) \in Nat
        BY <3>1, FS_CardinalityType
      <4> QED BY <3>3, <4>2, <4>3
    <3>5. CASE w.dedup[k] # NoId
      <4>1. Unindexed(v, R) = Unindexed(w, R)
        BY <3>2, <3>5 DEF Unindexed
      <4>2. v.free = w.free
        BY <3>5, <1>6, <1>12
      <4> QED BY <3>3, <4>1, <4>2
    <3> QED BY <3>4, <3>5
  <2> QED BY <2>1, <2>2, <2>3 DEF FreeEnough
<1>15. w.alerts[i] # NoAlert => /\ Behind(w.alerts[i], b)
                                /\ \A d \in Alert : Behind(d, w.alerts[i]) => Behind(d, b)
  <2> SUFFICES ASSUME w.alerts[i] # NoAlert
               PROVE  /\ Behind(w.alerts[i], b)
                      /\ \A d \in Alert : Behind(d, w.alerts[i]) => Behind(d, b)
    OBVIOUS
  <2>1. w.alerts[i] \in Alert /\ Behind(w.alerts[i], a)
    BY <1>7, <1>11, <1>12 DEF Document
  <2>2. \A d \in Alert : d.count \in Nat
    BY DEF Alert
  <2> QED BY <2>1, <2>2, <1>1 DEF Behind
<1>16. Grown(w0, v)
  <2>1. \A j \in AlertIds : w0.alerts[j] # NoAlert => Behind(w0.alerts[j], v.alerts[j])
    <3> SUFFICES ASSUME NEW j \in AlertIds, w0.alerts[j] # NoAlert
                 PROVE  Behind(w0.alerts[j], v.alerts[j])
      OBVIOUS
    <3>1. Behind(w0.alerts[j], w.alerts[j]) /\ w.alerts[j] # NoAlert
      BY <1>3 DEF Grown, FreeEnough
    <3>2. w0.alerts[j] \in Alert
      BY DEF Works, Document
    <3> QED BY <3>1, <3>2, <1>10, <1>15
  <2>2. \A j \in AlertIds : v.alerts[j] # NoAlert => Quiet(v.alerts[j])
    BY <1>1, <1>3, <1>10 DEF Grown
  <2>3. w0.saves \subseteq v.saves
    BY <1>3, <1>6 DEF Grown
  <2>4. ASSUME NEW s \in v.saves \ w0.saves
        PROVE  /\ s.owner = Worker /\ v.alerts[s.id] # NoAlert
               /\ Behind(s.doc, v.alerts[s.id]) /\ Earned(s.doc)
    <3>1. CASE s \in w.saves
      <4>1. /\ s.owner = Worker /\ w.alerts[s.id] # NoAlert
            /\ Behind(s.doc, w.alerts[s.id]) /\ Earned(s.doc)
        BY <3>1, <1>3 DEF Grown
      <4>2. s.id \in AlertIds /\ s.doc \in Alert
        BY <3>1, <1>7 DEF Save
      <4> QED BY <4>1, <4>2, <1>8, <1>10, <1>15
    <3>2. CASE s \in {SaveOf(i, a), SaveOf(i, b)}
      <4>1. s.owner = Worker /\ s.id = i /\ s.doc \in {a, b}
        BY <3>2 DEF SaveOf
      <4>2. Behind(b, b)
        BY <1>1 DEF Behind
      <4> QED BY <4>1, <4>2, <1>1, <1>2, <1>8, <1>10
    <3> QED BY <3>1, <3>2, <1>6
  <2> QED BY <2>1, <2>2, <2>3, <2>4 DEF Grown
<1>17. DueTouched(w0, v)
  BY <1>3, <1>6, <1>7, <1>8, <1>10 DEF DueTouched
<1>18. v \in Good(w0, R)
  BY <1>9, <1>13, <1>14, <1>16, <1>17 DEF Good
<1> QED BY <1>18 DEF v

\* Good work stays so with a result.
LEMMA CreateGood ==
  ASSUME NEW w0 \in Works, NEW R, IsFiniteSet(R), R \subseteq Keys,
         NEW w \in Good(w0, R), NEW k \in R
  PROVE  Create(w, k) \in Good(w0, R)
<1>1. w \in Works /\ Indexed(w) /\ FreeEnough(w0, w, R) /\ Grown(w0, w)
  BY DEF Good
<1>2. w.dedup[k] \in AlertIds \cup {NoId} /\ k \in Keys
  BY <1>1 DEF Works
<1>3. CASE ~w.raised /\ w.dedup[k] = NoId
  <2>1. w.free # {}
    <3>1. IsFiniteSet(Unindexed(w, R)) /\ k \in Unindexed(w, R)
      BY <1>3, FS_Subset DEF Unindexed
    <3>2. Cardinality(Unindexed(w, R)) # 0 /\ Cardinality(Unindexed(w, R)) \in Nat
      BY <3>1, FS_EmptySet, FS_CardinalityType
    <3>3. Cardinality(Unindexed(w, R)) <= Cardinality(w.free)
      BY <1>1 DEF FreeEnough
    <3>4. Cardinality({}) = 0
      BY FS_EmptySet
    <3> QED BY <3>2, <3>3, <3>4
  <2>2. Fresh(w) \in w.free /\ Fresh(w) \in AlertIds
    BY <2>1, <1>1, FreshIsFree DEF Works
  <2>3. NewAlert(k) \in Alert /\ NewAlert(k).key = k /\ Earned(NewAlert(k))
    BY <1>2, NewFacts
  <2>4. Occur(w, k, Fresh(w), NewAlert(k)) \in Good(w0, R)
    BY <1>3, <2>2, <2>3, OccurGood
  <2> QED BY <1>3, <2>4 DEF Create
<1>4. CASE ~w.raised /\ w.dedup[k] # NoId
  <2> DEFINE i == w.dedup[k]
             a == w.alerts[i]
  <2>1. i \in AlertIds /\ a # NoAlert /\ a.key = k
    BY <1>1, <1>2, <1>4 DEF Indexed
  <2>2. a \in Alert /\ Quiet(a)
    BY <1>1, <2>1 DEF Works, Document, Grown
  <2> HIDE DEF a
  <2>3. Recurred(a) \in Alert /\ Behind(a, Recurred(a)) /\ Earned(Recurred(a))
    BY <2>2, RecurredFacts
  <2>4. Recurred(a).key = k
    BY <2>1, <2>3 DEF Behind
  <2>5. Occur(w, k, i, Recurred(a)) \in Good(w0, R)
    <3>1. Behind(w.alerts[i], Recurred(a))
      BY <2>3 DEF a
    <3> QED BY <2>1, <2>3, <2>4, <3>1, OccurGood
  <2> QED BY <1>4, <2>5 DEF Create, a
<1>5. CASE w.raised
  BY <1>5 DEF Create
<1> QED BY <1>3, <1>4, <1>5

\* Recursion, on good work.
LEMMA GoodRecursion ==
  ASSUME NEW w0, NEW R, NEW base \in Good(w0, R), NEW N \in Nat
  PROVE  \A step \in [1..N -> [Good(w0, R) -> Good(w0, R)]] :
           \E g \in [0..N -> Good(w0, R)] :
             g[0] = base /\ \A n \in 1..N : g[n] = step[n][g[n - 1]]
BY Recursion

\* Good work stays so with any number of results.
LEMMA CreatedGood ==
  ASSUME NEW w0 \in Works, NEW R, IsFiniteSet(R), R \subseteq Keys,
         NEW w \in Good(w0, R), NEW keys \in Seq(R)
  PROVE  Created(w, keys) \in Good(w0, R)
<1> DEFINE N == Len(keys)
           G == Good(w0, R)
           Def(g) == [n \in 0..N |-> IF n = 0 THEN w ELSE Create(g[n - 1], keys[n])]
           made == CHOOSE g : g = Def(g)
           step == [n \in 1..N |-> [v \in G |-> Create(v, keys[n])]]
<1>1. N \in Nat /\ \A n \in 1..N : keys[n] \in R
  OBVIOUS
<1>2. Created(w, keys) = made[N]
  BY DEF Created
<1>3. step \in [1..N -> [G -> G]]
  <2>1. \A n \in 1..N, v \in G : Create(v, keys[n]) \in G
    BY <1>1, CreateGood
  <2> HIDE DEF G, N
  <2> QED BY <2>1
<1>4. PICK g \in [0..N -> G] : g[0] = w /\ \A n \in 1..N : g[n] = step[n][g[n - 1]]
  <2>1. w \in G
    OBVIOUS
  <2> HIDE DEF step, N
  <2> QED BY <1>1, <1>3, <2>1, GoodRecursion
<1>5. g = Def(g)
  <2>1. ASSUME NEW n \in 1..N
        PROVE  g[n] = Create(g[n - 1], keys[n])
    <3>1. n - 1 \in 0..N
      BY <1>1
    <3>2. g[n - 1] \in G
      BY <3>1
    <3> HIDE DEF G
    <3> QED BY <1>4, <3>2
  <2>2. \A n \in 0..N : g[n] = IF n = 0 THEN w ELSE Create(g[n - 1], keys[n])
    <3> HIDE DEF N, G, step
    <3>1. \A n \in 0..N : n = 0 \/ n \in 1..N
      BY <1>1
    <3>2. 0 \notin 1..N
      BY <1>1
    <3> QED BY <1>4, <2>1, <3>1, <3>2
  <2> HIDE DEF N, G
  <2> QED BY <2>2
<1>6. made = Def(made)
  <2> HIDE DEF Def
  <2> QED BY <1>5
<1>7. \A n \in 0..N : made[n] = IF n = 0 THEN w ELSE Create(made[n - 1], keys[n])
  <2> HIDE DEF made, N
  <2> QED BY <1>6
<1> HIDE DEF made, N, G, Def, step
<1>8. DEFINE T == {n \in Nat : n <= N => made[n] \in G}
<1>9. 0 \in T
  <2>1. made[0] = w
    BY <1>1, <1>7
  <2> QED BY <2>1 DEF G
<1>10. ASSUME NEW n \in Nat, n \in T PROVE n + 1 \in T
  <2> SUFFICES ASSUME n + 1 <= N PROVE made[n + 1] \in G
    OBVIOUS
  <2>1. n + 1 \in 0..N /\ n + 1 # 0 /\ (n + 1) - 1 = n /\ n <= N /\ n + 1 \in 1..N
    BY <1>1
  <2>2. made[n] \in G
    BY <1>10, <2>1
  <2>3. made[n + 1] = Create(made[n], keys[n + 1])
    BY <1>7, <2>1
  <2>4. keys[n + 1] \in R
    BY <1>1, <2>1
  <2> QED BY <2>2, <2>3, <2>4, CreateGood DEF G
<1>11. Nat \subseteq T
  <2> HIDE DEF T
  <2> QED BY <1>9, <1>10, NatInd
<1> QED BY <1>1, <1>2, <1>11 DEF G

\* Good work stays so when the alerts of a batch are escalated, and none of
\* them is due any longer.
LEMMA EscalatedGood ==
  ASSUME NEW w0 \in Works, NEW R, NEW w \in Good(w0, R)
  PROVE  /\ Escalated(w, w.touched) \in Good(w0, R)
         /\ DueBefore(w0, Escalated(w, w.touched))
<1> DEFINE v == Escalated(w, w.touched)
           news == UNION {{SaveOf(i, Moved(w.alerts[i], target)) :
                             target \in Range(EscalationPath(w.alerts[i]))} :
                            i \in w.touched}
<1>1. /\ w \in Works /\ Indexed(w) /\ FreeEnough(w0, w, R)
      /\ Grown(w0, w) /\ DueTouched(w0, w)
  BY DEF Good
<1>2. /\ w.alerts \in [AlertIds -> Document] /\ w.dedup \in [Keys -> AlertIds \cup {NoId}]
      /\ w.saves \in SUBSET Save /\ w.free \in SUBSET AlertIds
      /\ w.touched \in SUBSET AlertIds
  BY <1>1 DEF Works
<1>3. ASSUME NEW i \in w.touched
      PROVE  /\ w.alerts[i] \in Alert /\ AfterEscalation(w.alerts[i]) \in Alert
             /\ Behind(w.alerts[i], AfterEscalation(w.alerts[i]))
             /\ AfterEscalation(w.alerts[i]).key = w.alerts[i].key
             /\ Quiet(AfterEscalation(w.alerts[i])) /\ ~Due(AfterEscalation(w.alerts[i]))
             /\ \A t \in Range(EscalationPath(w.alerts[i])) :
                  /\ Moved(w.alerts[i], t) \in Alert /\ Earned(Moved(w.alerts[i], t))
                  /\ Behind(Moved(w.alerts[i], t), AfterEscalation(w.alerts[i]))
  <2>1. w.alerts[i] \in Alert /\ Quiet(w.alerts[i])
    BY <1>1, <1>2 DEF DueTouched, Document, Grown
  <2> QED BY <2>1, EscalationFacts DEF Behind
<1>4. ASSUME NEW s \in news
      PROVE  /\ s \in Save /\ s.owner = Worker /\ s.id \in w.touched
             /\ Earned(s.doc) /\ Behind(s.doc, AfterEscalation(w.alerts[s.id]))
  <2>0. PICK i \in w.touched : \E t \in Range(EscalationPath(w.alerts[i])) :
          s = SaveOf(i, Moved(w.alerts[i], t))
    BY <1>4
  <2>1. PICK t \in Range(EscalationPath(w.alerts[i])) : s = SaveOf(i, Moved(w.alerts[i], t))
    BY <2>0
  <2>2. s.owner = Worker /\ s.id = i /\ s.doc = Moved(w.alerts[i], t)
    BY <2>1 DEF SaveOf
  <2>3. Moved(w.alerts[i], t) \in Alert /\ i \in AlertIds
    BY <1>2, <1>3
  <2>4. s \in Save
    BY <2>1, <2>3 DEF SaveOf, Save
  <2> QED BY <1>3, <2>2, <2>4
<1>5. /\ v.alerts = [i \in AlertIds |-> IF i \in w.touched
                       THEN AfterEscalation(w.alerts[i]) ELSE w.alerts[i]]
      /\ v.dedup = w.dedup /\ v.saves = w.saves \cup news
      /\ v.free = w.free /\ v.touched = w.touched
  BY DEF Escalated
<1>6. v \in Works
  <2>1. [i \in AlertIds |-> IF i \in w.touched THEN AfterEscalation(w.alerts[i])
                            ELSE w.alerts[i]] \in [AlertIds -> Document]
    BY <1>2, <1>3 DEF Document
  <2>2. news \subseteq Save
    BY <1>4
  <2> HIDE DEF news
  <2>3. w.saves \cup news \in SUBSET Save
    BY <1>2, <2>2
  <2> QED BY <2>1, <2>3, <1>2 DEF Escalated, Works, news
<1> HIDE DEF v, news
<1>7. \A i \in AlertIds :
        v.alerts[i] = IF i \in w.touched THEN AfterEscalation(w.alerts[i]) ELSE w.alerts[i]
  BY <1>5
<1>8. \A i \in AlertIds : /\ v.alerts[i] # NoAlert <=> w.alerts[i] # NoAlert
                          /\ w.alerts[i] # NoAlert => /\ v.alerts[i].key = w.alerts[i].key
                                                      /\ Behind(w.alerts[i], v.alerts[i])
  <2> SUFFICES ASSUME NEW i \in AlertIds
               PROVE  /\ v.alerts[i] # NoAlert <=> w.alerts[i] # NoAlert
                      /\ w.alerts[i] # NoAlert => /\ v.alerts[i].key = w.alerts[i].key
                                                  /\ Behind(w.alerts[i], v.alerts[i])
    OBVIOUS
  <2>1. CASE i \in w.touched
    BY <2>1, <1>3, <1>7, NoneAssumption
  <2>2. CASE i \notin w.touched
    <3>1. w.alerts[i] # NoAlert => w.alerts[i].count \in Nat
      BY <1>2 DEF Document, Alert
    <3> QED BY <2>2, <3>1, <1>7 DEF Behind
  <2> QED BY <2>1, <2>2
<1>9. Indexed(v)
  <2>1. \A k \in Keys : w.dedup[k] # NoId => w.dedup[k] \in AlertIds
    BY <1>2
  <2> QED BY <2>1, <1>1, <1>5, <1>8 DEF Indexed
<1>10. FreeEnough(w0, v, R)
  <2>1. Unindexed(v, R) = Unindexed(w, R)
    BY <1>5 DEF Unindexed
  <2>2. v.free \subseteq AlertIds
    BY <1>2, <1>5
  <2> QED BY <2>1, <2>2, <1>1, <1>5, <1>8 DEF FreeEnough
<1>11. Grown(w0, v)
  <2>1. \A i \in AlertIds : w0.alerts[i] # NoAlert => Behind(w0.alerts[i], v.alerts[i])
    <3> SUFFICES ASSUME NEW i \in AlertIds, w0.alerts[i] # NoAlert
                 PROVE  Behind(w0.alerts[i], v.alerts[i])
      OBVIOUS
    <3>1. Behind(w0.alerts[i], w.alerts[i]) /\ w.alerts[i] # NoAlert
      BY <1>1 DEF Grown, FreeEnough
    <3>2. w0.alerts[i] \in Alert /\ w.alerts[i] \in Alert /\ v.alerts[i] \in Alert
      BY <3>1, <1>1, <1>6, <1>8 DEF Works, Document
    <3>3. \A d \in Alert : d.count \in Nat
      BY DEF Alert
    <3> QED BY <3>1, <3>2, <3>3, <1>8 DEF Behind
  <2>2. \A i \in AlertIds : v.alerts[i] # NoAlert => Quiet(v.alerts[i])
    BY <1>1, <1>3, <1>7 DEF Grown
  <2>3. w0.saves \subseteq v.saves
    BY <1>1, <1>5 DEF Grown
  <2>4. ASSUME NEW s \in v.saves \ w0.saves
        PROVE  /\ s.owner = Worker /\ v.alerts[s.id] # NoAlert
               /\ Behind(s.doc, v.alerts[s.id]) /\ Earned(s.doc)
    <3>1. CASE s \in w.saves
      <4>1. /\ s.owner = Worker /\ w.alerts[s.id] # NoAlert
            /\ Behind(s.doc, w.alerts[s.id]) /\ Earned(s.doc)
        BY <3>1, <1>1 DEF Grown
      <4>2. s.id \in AlertIds /\ s.doc \in Alert
        BY <3>1, <1>2 DEF Save
      <4>3. Behind(w.alerts[s.id], v.alerts[s.id]) /\ v.alerts[s.id] # NoAlert
        BY <4>1, <4>2, <1>8
      <4>4. \A d \in Alert : d.count \in Nat
        BY DEF Alert
      <4>5. w.alerts[s.id] \in Alert /\ v.alerts[s.id] \in Alert
        BY <4>1, <4>2, <4>3, <1>1, <1>6 DEF Works, Document
      <4> QED BY <4>1, <4>2, <4>3, <4>4, <4>5 DEF Behind
    <3>2. CASE s \in news
      <4>1. s.owner = Worker /\ s.id \in w.touched /\ s.id \in AlertIds
            /\ Earned(s.doc) /\ Behind(s.doc, AfterEscalation(w.alerts[s.id]))
        BY <3>2, <1>2, <1>4
      <4>2. w.alerts[s.id] # NoAlert
        BY <4>1, <1>1 DEF DueTouched
      <4> QED BY <4>1, <4>2, <1>7, <1>8
    <3> QED BY <3>1, <3>2, <1>5
  <2> QED BY <2>1, <2>2, <2>3, <2>4 DEF Grown
<1>12. DueBefore(w0, v) /\ DueTouched(w0, v)
  <2>1. DueBefore(w0, v)
    <3> SUFFICES ASSUME NEW i \in AlertIds, v.alerts[i] # NoAlert, Due(v.alerts[i])
                 PROVE  v.alerts[i] = w0.alerts[i]
      BY DEF DueBefore
    <3>1. i \notin w.touched
      BY <1>3, <1>7
    <3>2. v.alerts[i] = w.alerts[i]
      BY <3>1, <1>7
    <3> QED BY <3>1, <3>2, <1>1 DEF DueTouched
  <2>2. \A i \in v.touched : v.alerts[i] # NoAlert
    BY <1>1, <1>2, <1>5, <1>8 DEF DueTouched
  <2> QED BY <2>1, <2>2 DEF DueBefore, DueTouched
<1>13. v \in Good(w0, R)
  BY <1>6, <1>9, <1>10, <1>11, <1>12 DEF Good
<1> QED BY <1>12, <1>13 DEF v

\* Good work stays so with a batch; unless it ended early nothing is due that
\* has not been so before.
LEMMA BatchGood ==
  ASSUME NEW w0 \in Works, NEW R, IsFiniteSet(R), R \subseteq Keys,
         NEW w \in Good(w0, R), w.raised \/ DueBefore(w0, w), NEW keys \in Seq(R)
  PROVE  /\ HandleBatch(w, keys) \in Good(w0, R)
         /\ HandleBatch(w, keys).raised \/ DueBefore(w0, HandleBatch(w, keys))
<1>1. CASE w.raised
  BY <1>1 DEF HandleBatch
<1>2. CASE ~w.raised
  <2> DEFINE start == [w EXCEPT !.touched = {}]
             created == Created(start, keys)
  <2>1. /\ start.alerts = w.alerts /\ start.dedup = w.dedup /\ start.saves = w.saves
        /\ start.free = w.free /\ start.touched = {} /\ start \in Works
    BY DEF Good, Works
  <2> HIDE DEF start
  <2>2. start \in Good(w0, R)
    <3>1. w \in Works /\ Indexed(w) /\ FreeEnough(w0, w, R) /\ Grown(w0, w)
      BY DEF Good
    <3>2. Indexed(start) /\ Grown(w0, start)
      BY <2>1, <3>1 DEF Indexed, Grown
    <3>3. FreeEnough(w0, start, R)
      BY <2>1, <3>1 DEF FreeEnough, Unindexed
    <3>4. DueTouched(w0, start)
      BY <2>1, <1>2 DEF DueTouched, DueBefore
    <3> QED BY <2>1, <3>2, <3>3, <3>4 DEF Good
  <2>3. created \in Good(w0, R)
    BY <2>2, CreatedGood
  <2>4. HandleBatch(w, keys) =
          IF created.raised THEN created ELSE Escalated(created, created.touched)
    BY <1>2 DEF HandleBatch, start
  <2> HIDE DEF created
  <2> QED BY <2>3, <2>4, EscalatedGood
<1> QED BY <1>1, <1>2

-----------------------------------------------------------------------------
(* The invariant *)

\* A request has a document while it is being handled, and only then.
RequestInv ==
  \A r \in Requests :
    IF requests[r].phase = "loaded"
    THEN requests[r].id \in AlertIds /\ requests[r].doc \in Alert
    ELSE requests[r].id = NoId

\* The worker knows the alerts that it has created, and no others.
BirthInv ==
  \A i \in AlertIds : /\ born[i] <= run
                      /\ memory.alerts[i] # NoAlert <=> born[i] = run

QuietInv == \A i \in AlertIds : memory.alerts[i] # NoAlert => Quiet(memory.alerts[i])

\* Every copy is of an alert that was created, has its status by right, and is
\* behind the worker as long as that knows the alert.
CopyInv ==
  \A i \in AlertIds : \A d \in Copies(i) :
    /\ born[i] # 0 /\ Earned(d)
    /\ memory.alerts[i] # NoAlert => Behind(d, memory.alerts[i])

\* The copies of an alert have one key, which no other alert of the same
\* incarnation has.
KeyInv ==
  \A i, j \in AlertIds : \A c \in Copies(i), d \in Copies(j) :
    /\ i = j => c.key = d.key
    /\ i # j /\ born[i] = born[j] => c.key # d.key

SystemInv ==
  /\ TypeOK
  /\ RequestInv
  /\ BirthInv
  /\ Indexed(memory)
  /\ QuietInv
  /\ CopyInv
  /\ KeyInv
  /\ EscalatedUnlessSkipped

\* What a copy is.
LEMMA CopyCases ==
  ASSUME NEW i
  PROVE  \A d : d \in Copies(i) <=>
           /\ d # NoAlert
           /\ \/ d = store[i]
              \/ \E s \in saves : s.id = i /\ s.doc = d
              \/ \E r \in Requests : requests[r].id = i /\ requests[r].doc = d
BY DEF Copies

\* A step of which the worker does not know keeps the invariant when the
\* copies it leaves come from copies there were, with key and occurrences.
LEMMA CopiesFrom ==
  ASSUME SystemInv, TypeOK', RequestInv', UNCHANGED <<memory, run, born, skipped>>,
         \A i \in AlertIds : \A d \in Copies(i)' :
           \E c \in Copies(i) : Earned(d) /\ d.key = c.key /\ d.count = c.count
  PROVE  SystemInv'
<1>1. BirthInv' /\ QuietInv' /\ Indexed(memory)' /\ EscalatedUnlessSkipped'
  BY DEF SystemInv, BirthInv, QuietInv, Indexed, EscalatedUnlessSkipped, Known
<1>2. CopyInv'
  <2> SUFFICES ASSUME NEW i \in AlertIds, NEW d \in Copies(i)'
               PROVE  /\ born[i] # 0 /\ Earned(d)
                      /\ memory.alerts[i] # NoAlert => Behind(d, memory.alerts[i])
    BY DEF CopyInv
  <2>1. PICK c \in Copies(i) : Earned(d) /\ d.key = c.key /\ d.count = c.count
    OBVIOUS
  <2> QED BY <2>1 DEF SystemInv, CopyInv, Behind
<1>3. KeyInv'
  <2> SUFFICES ASSUME NEW i \in AlertIds, NEW j \in AlertIds,
                      NEW c \in Copies(i)', NEW d \in Copies(j)'
               PROVE  /\ i = j => c.key = d.key
                      /\ i # j /\ born[i] = born[j] => c.key # d.key
    BY DEF KeyInv
  <2>1. PICK a \in Copies(i) : c.key = a.key
    OBVIOUS
  <2>2. PICK b \in Copies(j) : d.key = b.key
    OBVIOUS
  <2> QED BY <2>1, <2>2 DEF SystemInv, KeyInv
<1> QED BY <1>1, <1>2, <1>3 DEF SystemInv

\* ... for one thing when it leaves only copies there were.
LEMMA CopiesFewer ==
  ASSUME SystemInv, TypeOK', RequestInv', UNCHANGED <<memory, run, born, skipped>>,
         \A i \in AlertIds : Copies(i)' \subseteq Copies(i)
  PROVE  SystemInv'
<1>1. \A i \in AlertIds : \A d \in Copies(i)' : d \in Copies(i) /\ Earned(d)
  BY DEF SystemInv, CopyInv
<1> QED BY <1>1, CopiesFrom

-----------------------------------------------------------------------------
(* Saves and requests *)

\* A save that completes or fails.
LEMMA SaveKeeps ==
  ASSUME SystemInv, NEW s \in saves, SaveLands(s) \/ SaveFails(s)
  PROVE  SystemInv'
<1>1. /\ saves' = saves \ {s} /\ s \in Save
      /\ UNCHANGED <<memory, requests, run, born, skipped>>
      /\ \/ store' = [store EXCEPT ![s.id] = s.doc]
         \/ store' = store
  BY DEF SaveLands, SaveFails, SystemInv, TypeOK
<1>2. s.id \in AlertIds /\ s.doc \in Alert /\ s.doc # NoAlert
      /\ store \in [AlertIds -> Document]
  BY <1>1, NoneAssumption DEF Save, SystemInv, TypeOK
<1>3. TypeOK' /\ RequestInv'
  <2>1. store' \in [AlertIds -> Document]
    BY <1>1, <1>2 DEF Document
  <2> QED BY <1>1, <2>1 DEF SystemInv, TypeOK, RequestInv
<1>4. ASSUME NEW i \in AlertIds, NEW d \in Copies(i)'
      PROVE  d \in Copies(i)
  <2>1. /\ d # NoAlert
        /\ \/ d = store'[i]
           \/ \E t \in saves' : t.id = i /\ t.doc = d
           \/ \E r \in Requests : requests'[r].id = i /\ requests'[r].doc = d
    BY <1>4 DEF Copies
  <2>2. store'[i] = store[i] \/ (s.id = i /\ store'[i] = s.doc)
    BY <1>1, <1>2
  <2> QED BY <1>1, <2>1, <2>2, CopyCases
<1> QED BY <1>1, <1>3, <1>4, CopiesFewer

\* A request reads its document.
LEMMA LoadKeeps ==
  ASSUME SystemInv, NEW r \in Requests, NEW kind \in {"transition", "assign"},
         NEW i \in AlertIds, RequestLoads(r, kind, i)
  PROVE  SystemInv'
<1> DEFINE entry == [phase |-> "loaded", kind |-> kind, id |-> i, doc |-> store[i]]
<1>1. /\ store[i] # NoAlert /\ requests' = [requests EXCEPT ![r] = entry]
      /\ UNCHANGED <<memory, store, saves, run, born, skipped>>
  BY DEF RequestLoads
<1>2. store[i] \in Alert
  BY <1>1 DEF SystemInv, TypeOK, Document
<1>3. requests'[r] = entry /\ \A q \in Requests \ {r} : requests'[q] = requests[q]
  BY <1>1 DEF SystemInv, TypeOK
<1>4. TypeOK'
  <2>1. entry \in [phase: {"idle", "loaded", "answered", "rejected", "closed"},
                   kind: {"none", "transition", "assign"},
                   id: AlertIds \cup {NoId}, doc: Document]
    BY <1>2 DEF Document
  <2> HIDE DEF entry
  <2> QED BY <1>1, <2>1 DEF SystemInv, TypeOK
<1>5. RequestInv'
  BY <1>2, <1>3 DEF SystemInv, RequestInv
<1>6. ASSUME NEW j \in AlertIds, NEW d \in Copies(j)'
      PROVE  d \in Copies(j)
  <2>1. /\ d # NoAlert
        /\ \/ d = store[j]
           \/ \E t \in saves : t.id = j /\ t.doc = d
           \/ \E q \in Requests : requests'[q].id = j /\ requests'[q].doc = d
    BY <1>1, <1>6 DEF Copies
  <2>2. \A q \in Requests : requests'[q].id = j /\ requests'[q].doc = d =>
          d = store[j] \/ (requests[q].id = j /\ requests[q].doc = d)
    BY <1>3
  <2> QED BY <2>1, <2>2, CopyCases
<1> QED BY <1>1, <1>4, <1>5, <1>6, CopiesFewer

\* A request that is over has no document.
LEMMA OverFacts ==
  ASSUME SystemInv, NEW r \in Requests, NEW phase \in {"answered", "rejected", "closed"},
         Over(r, phase)
  PROVE  /\ requests' \in
              [Requests -> [phase: {"idle", "loaded", "answered", "rejected", "closed"},
                            kind: {"none", "transition", "assign"},
                            id: AlertIds \cup {NoId}, doc: Document]]
         /\ RequestInv'
         /\ \A q \in Requests, i \in AlertIds :
              requests'[q].id = i => requests'[q] = requests[q]
<1> DEFINE entry == [Idle EXCEPT !.phase = phase]
<1>1. requests' = [requests EXCEPT ![r] = entry]
  BY DEF Over
<1>2. entry = [phase |-> phase, kind |-> "none", id |-> NoId, doc |-> NoAlert]
  BY DEF Idle
<1>3. entry \in [phase: {"idle", "loaded", "answered", "rejected", "closed"},
                 kind: {"none", "transition", "assign"},
                 id: AlertIds \cup {NoId}, doc: Document]
  BY <1>2 DEF Document
<1>4. entry.id = NoId /\ entry.phase # "loaded"
  BY <1>2
<1> HIDE DEF entry
<1>5. requests'[r] = entry /\ \A q \in Requests \ {r} : requests'[q] = requests[q]
  BY <1>1 DEF SystemInv, TypeOK
<1>6. RequestInv'
  BY <1>4, <1>5 DEF SystemInv, RequestInv
<1>7. \A q \in Requests, i \in AlertIds :
        requests'[q].id = i => requests'[q] = requests[q]
  BY <1>4, <1>5, NoneAssumption
<1> QED BY <1>1, <1>3, <1>6, <1>7 DEF SystemInv, TypeOK

\* A request that is rejected or closed; its saves may be dropped.
LEMMA EndKeeps ==
  ASSUME SystemInv, NEW r \in Requests, NEW phase \in {"rejected", "closed"},
         Over(r, phase), saves' \subseteq saves,
         UNCHANGED <<memory, store, run, born, skipped>>
  PROVE  SystemInv'
<1>1. TypeOK' /\ RequestInv'
  BY OverFacts DEF SystemInv, TypeOK
<1>2. ASSUME NEW j \in AlertIds, NEW d \in Copies(j)'
      PROVE  d \in Copies(j)
  <2>1. /\ d # NoAlert
        /\ \/ d = store[j]
           \/ \E t \in saves' : t.id = j /\ t.doc = d
           \/ \E q \in Requests : requests'[q].id = j /\ requests'[q].doc = d
    BY <1>2 DEF Copies
  <2>2. \A q \in Requests : requests'[q].id = j => requests'[q] = requests[q]
    BY OverFacts
  <2> QED BY <2>1, <2>2, CopyCases
<1> QED BY <1>1, <1>2, CopiesFewer

\* A request saves its document as it has changed it.
LEMMA RequestSaveKeeps ==
  ASSUME SystemInv, NEW r \in Requests, requests[r].phase = "loaded",
         NEW a \in Alert, RequestSaves(r, a), Earned(a),
         a.key = requests[r].doc.key, a.count = requests[r].doc.count
  PROVE  SystemInv'
<1> DEFINE save == [owner |-> r, id |-> requests[r].id, doc |-> a]
<1>1. /\ Over(r, "answered") /\ saves' = saves \cup {save}
      /\ UNCHANGED <<memory, store, run, born, skipped>>
  BY DEF RequestSaves
<1>2. requests[r].id \in AlertIds /\ requests[r].doc \in Alert
  BY DEF SystemInv, RequestInv
<1>3. requests[r].doc \in Copies(requests[r].id)
  BY <1>2, NoneAssumption, CopyCases
<1>4. save \in Save /\ save.id = requests[r].id /\ save.doc = a
  BY <1>2 DEF Save
<1> HIDE DEF save
<1>5. TypeOK' /\ RequestInv'
  BY <1>1, <1>4, OverFacts DEF SystemInv, TypeOK
<1>6. ASSUME NEW j \in AlertIds, NEW d \in Copies(j)'
      PROVE  \E c \in Copies(j) : Earned(d) /\ d.key = c.key /\ d.count = c.count
  <2>1. /\ d # NoAlert
        /\ \/ d = store[j]
           \/ \E t \in saves' : t.id = j /\ t.doc = d
           \/ \E q \in Requests : requests'[q].id = j /\ requests'[q].doc = d
    BY <1>1, <1>6 DEF Copies
  <2>2. \A q \in Requests : requests'[q].id = j => requests'[q] = requests[q]
    BY <1>1, OverFacts
  <2>3. d \in Copies(j) \/ (j = requests[r].id /\ d = a)
    BY <1>1, <1>4, <2>1, <2>2, CopyCases
  <2>4. d \in Copies(j) => Earned(d)
    BY DEF SystemInv, CopyInv
  <2> QED BY <2>3, <2>4, <1>3
<1> QED BY <1>1, <1>5, <1>6, CopiesFrom

\* The requests of analysts.
LEMMA RequestKeeps ==
  ASSUME SystemInv, NEW r \in Requests,
         \/ \E target \in AlertStatus : RequestTransitions(r, target)
         \/ \E user \in Assignees \cup {Nobody} : RequestAssigns(r, user)
         \/ \E target \in AlertStatus : RequestRejected(r, target)
         \/ RequestCloses(r)
  PROVE  SystemInv'
<1>1. ASSUME NEW target \in AlertStatus, RequestTransitions(r, target)
      PROVE  SystemInv'
  <2> DEFINE doc == requests[r].doc
  <2>1. /\ requests[r].phase = "loaded" /\ target \in SupportedTargets
        /\ RequestSaves(r, Moved(doc, target))
    BY <1>1 DEF RequestTransitions, TransitionAccepted
  <2>2. doc \in Alert
    BY <2>1 DEF SystemInv, RequestInv
  <2>3. target \in AlertStatus \ {"NEW", "SUPPRESSED", "CLOSED"}
    BY <2>1 DEF SupportedTargets
  <2>4. /\ Moved(doc, target) \in Alert /\ Earned(Moved(doc, target))
        /\ Moved(doc, target).key = doc.key /\ Moved(doc, target).count = doc.count
    BY <2>2, <2>3, MovedFacts DEF Moved, Alert
  <2> QED BY <2>1, <2>4, RequestSaveKeeps
<1>2. ASSUME NEW user \in Assignees \cup {Nobody}, RequestAssigns(r, user)
      PROVE  SystemInv'
  <2> DEFINE doc == requests[r].doc
             a == [doc EXCEPT !.assignee = user]
  <2>1. requests[r].phase = "loaded" /\ RequestSaves(r, a)
    BY <1>2 DEF RequestAssigns
  <2>2. doc \in Alert /\ doc \in Copies(requests[r].id) /\ requests[r].id \in AlertIds
    BY <2>1, NoneAssumption, CopyCases DEF SystemInv, RequestInv
  <2>3. Earned(doc)
    BY <2>2 DEF SystemInv, CopyInv
  <2>4. /\ a \in Alert /\ a.key = doc.key /\ a.count = doc.count /\ a.status = doc.status
    BY <2>2 DEF Alert
  <2> HIDE DEF a, doc
  <2>5. Earned(a)
    BY <2>3, <2>4 DEF Earned, ShouldSuppress
  <2> QED BY <2>1, <2>4, <2>5, RequestSaveKeeps DEF doc
<1>3. ASSUME NEW target \in AlertStatus, RequestRejected(r, target)
      PROVE  SystemInv'
  <2>1. /\ Over(r, "rejected") /\ saves' = saves
        /\ UNCHANGED <<memory, store, run, born, skipped>>
    BY <1>3 DEF RequestRejected
  <2> QED BY <2>1, EndKeeps
<1>4. CASE RequestCloses(r)
  <2>1. /\ Over(r, "closed") /\ saves' \subseteq saves
        /\ UNCHANGED <<memory, store, run, born, skipped>>
    BY <1>4 DEF RequestCloses
  <2> QED BY <2>1, EndKeeps
<1> QED BY <1>1, <1>2, <1>3, <1>4

-----------------------------------------------------------------------------
(* The worker *)

\* A worker that starts again knows no alert.
LEMMA RestartKeeps ==
  ASSUME SystemInv, WorkerRestarts
  PROVE  SystemInv'
<1>1. /\ run < MaxRuns /\ run' = run + 1 /\ memory' = EmptyManager
      /\ saves' \subseteq saves /\ UNCHANGED <<store, requests, born, skipped>>
  BY DEF WorkerRestarts
<1>2. /\ \A i \in AlertIds : memory'.alerts[i] = NoAlert
      /\ \A k \in Keys : memory'.dedup[k] = NoId
      /\ memory' \in [alerts: [AlertIds -> Document], dedup: [Keys -> AlertIds \cup {NoId}]]
  BY <1>1 DEF EmptyManager, Document
<1>3. TypeOK' /\ RequestInv'
  <2>1. run' \in 1..MaxRuns
    BY <1>1, SystemBoundAssumption DEF SystemInv, TypeOK
  <2> QED BY <1>1, <1>2, <2>1 DEF SystemInv, TypeOK, RequestInv
<1>4. BirthInv'
  <2> SUFFICES ASSUME NEW i \in AlertIds
               PROVE  born[i] <= run' /\ born[i] # run'
    BY <1>1, <1>2 DEF BirthInv
  <2>1. born[i] <= run /\ born[i] \in Nat /\ run \in Nat
    BY SystemBoundAssumption DEF SystemInv, BirthInv, TypeOK
  <2> QED BY <1>1, <2>1
<1>5. Indexed(memory)' /\ QuietInv' /\ EscalatedUnlessSkipped'
  BY <1>2 DEF Indexed, QuietInv, EscalatedUnlessSkipped, Known
<1>6. \A i \in AlertIds : Copies(i)' \subseteq Copies(i)
  BY <1>1 DEF Copies
<1>7. CopyInv' /\ KeyInv'
  BY <1>1, <1>2, <1>6 DEF SystemInv, CopyInv, KeyInv
<1> QED BY <1>3, <1>4, <1>5, <1>7 DEF SystemInv

\* The keys of the results of an event.
KeysOf(e) == Range(e.detections) \cup Range(e.correlations)

\* The results of an event are finite in number.
LEMMA KeysFinite ==
  ASSUME NEW e \in Events
  PROVE  /\ IsFiniteSet(KeysOf(e)) /\ KeysOf(e) \subseteq Keys
         /\ e.detections \in Seq(KeysOf(e)) /\ e.correlations \in Seq(KeysOf(e))
<1>1. e.detections \in Seq(Keys) /\ e.correlations \in Seq(Keys)
  BY EventAssumption
<1>2. ASSUME NEW s \in Seq(Keys)
      PROVE  IsFiniteSet(Range(s)) /\ Range(s) \subseteq Keys /\ s \in Seq(Range(s))
  <2>1. DOMAIN s = 1..Len(s) /\ Len(s) \in Nat
    OBVIOUS
  <2>2. IsFiniteSet(DOMAIN s)
    BY <2>1, FS_Interval
  <2>3. s \in Surjection(DOMAIN s, Range(s))
    BY DEF Surjection, Range
  <2>4. IsFiniteSet(Range(s)) /\ Range(s) \subseteq Keys
    <3>1. IsFiniteSet(Range(s))
      BY <2>2, <2>3, FS_Surjection
    <3> QED BY <3>1, <2>1 DEF Range
  <2>5. \A n \in 1..Len(s) : s[n] \in Keys /\ s[n] \in Range(s)
    BY <2>1 DEF Range
  <2>6. s \in Seq(Range(s))
    BY <2>1, <2>5
  <2> QED BY <2>4, <2>6
<1>3. Range(e.detections) \subseteq KeysOf(e) /\ Range(e.correlations) \subseteq KeysOf(e)
  BY DEF KeysOf
<1>4. \A s, S, T : s \in Seq(S) /\ S \subseteq T => s \in Seq(T)
  OBVIOUS
<1>5. IsFiniteSet(Range(e.detections)) /\ IsFiniteSet(Range(e.correlations))
  BY <1>1, <1>2
<1>6. IsFiniteSet(KeysOf(e)) /\ KeysOf(e) \subseteq Keys
  BY <1>1, <1>2, <1>5, FS_Union DEF KeysOf
<1> QED BY <1>1, <1>2, <1>3, <1>4, <1>6

\* Handling an event begins with good work.
LEMMA WorkGood ==
  ASSUME SystemInv, NEW R, R \subseteq Keys,
         Cardinality({k \in R : memory.dedup[k] = NoId}) <= Cardinality(Unborn)
  PROVE  Work \in Works /\ Work \in Good(Work, R) /\ DueBefore(Work, Work)
<1>1. /\ memory.alerts \in [AlertIds -> Document]
      /\ memory.dedup \in [Keys -> AlertIds \cup {NoId}]
      /\ saves \subseteq Save /\ run \in Nat \ {0}
  BY SystemBoundAssumption DEF SystemInv, TypeOK
<1>2. Work \in Works
  BY <1>1 DEF Work, Works, Unborn
<1>3. /\ Work.alerts = memory.alerts /\ Work.dedup = memory.dedup
      /\ Work.saves = saves /\ Work.free = Unborn /\ Work.touched = {}
  BY DEF Work
<1>4. Indexed(Work)
  BY <1>3 DEF SystemInv, Indexed
<1>5. FreeEnough(Work, Work, R)
  <2>1. \A i \in Unborn : memory.alerts[i] = NoAlert
    BY <1>1 DEF Unborn, SystemInv, BirthInv
  <2> QED BY <1>3, <2>1 DEF FreeEnough, Unindexed
<1>6. Grown(Work, Work)
  <2>1. ASSUME NEW i \in AlertIds, memory.alerts[i] # NoAlert
        PROVE  Behind(memory.alerts[i], memory.alerts[i])
    <3>1. memory.alerts[i].count \in Nat
      BY <1>1, <2>1 DEF Document, Alert
    <3> QED BY <3>1 DEF Behind
  <2> QED BY <1>3, <2>1 DEF Grown, SystemInv, QuietInv
<1>7. DueTouched(Work, Work) /\ DueBefore(Work, Work)
  BY <1>3 DEF DueTouched, DueBefore
<1> QED BY <1>2, <1>4, <1>5, <1>6, <1>7 DEF Good

\* What the worker has done to an event keeps the invariant.
LEMMA WorkDone ==
  ASSUME SystemInv, NEW R, NEW done \in Good(Work, R),
         done.raised \/ DueBefore(Work, done),
         memory' = [alerts |-> done.alerts, dedup |-> done.dedup],
         saves' = done.saves,
         born' = [i \in AlertIds |-> IF i \in Unborn \ done.free THEN run ELSE born[i]],
         skipped' = (skipped \ {i \in AlertIds : done.alerts[i] # memory.alerts[i]})
                      \cup IF done.raised THEN done.touched ELSE {},
         UNCHANGED <<store, requests, run>>
  PROVE  SystemInv'
<1>1. /\ Work.alerts = memory.alerts /\ Work.saves = saves /\ Work.free = Unborn
  BY DEF Work
<1>2. /\ memory'.alerts = done.alerts /\ memory'.dedup = done.dedup
  OBVIOUS
<1>3. /\ done \in Works /\ Indexed(done) /\ FreeEnough(Work, done, R)
      /\ Grown(Work, done) /\ DueTouched(Work, done)
  BY DEF Good
<1>4. /\ done.alerts \in [AlertIds -> Document]
      /\ done.dedup \in [Keys -> AlertIds \cup {NoId}]
      /\ done.saves \subseteq Save /\ done.touched \subseteq AlertIds
  BY <1>3 DEF Works
<1>5. /\ run \in 1..MaxRuns /\ run # 0 /\ run \in Nat
      /\ born \in [AlertIds -> 0..MaxRuns]
      /\ memory.alerts \in [AlertIds -> Document]
  BY SystemBoundAssumption DEF SystemInv, TypeOK
<1>6. /\ \A i \in Unborn \ done.free : born'[i] = run /\ born[i] = 0
      /\ \A i \in AlertIds : i \notin Unborn \ done.free => born'[i] = born[i]
      /\ \A i \in AlertIds : born[i] # 0 => born'[i] # 0
  BY <1>5 DEF Unborn
<1>7. TypeOK' /\ RequestInv'
  <2>1. born' \in [AlertIds -> 0..MaxRuns]
    <3>1. run \in 0..MaxRuns
      BY <1>5
    <3> QED BY <3>1, <1>5
  <2>2. memory' \in [alerts: [AlertIds -> Document], dedup: [Keys -> AlertIds \cup {NoId}]]
    BY <1>4
  <2>3. skipped' \subseteq AlertIds
    BY <1>4 DEF SystemInv, TypeOK
  <2> QED BY <1>4, <2>1, <2>2, <2>3 DEF SystemInv, TypeOK, RequestInv
<1>8. BirthInv'
  <2> SUFFICES ASSUME NEW i \in AlertIds
               PROVE  born'[i] <= run /\ (done.alerts[i] # NoAlert <=> born'[i] = run)
    BY <1>2 DEF BirthInv
  <2>1. born[i] <= run /\ (memory.alerts[i] # NoAlert <=> born[i] = run)
    BY DEF SystemInv, BirthInv
  <2>2. done.alerts[i] # NoAlert <=> memory.alerts[i] # NoAlert \/ i \in Unborn \ done.free
    BY <1>1, <1>3 DEF FreeEnough
  <2>3. CASE i \in Unborn \ done.free
    BY <2>2, <2>3, <1>5, <1>6
  <2>4. CASE i \notin Unborn \ done.free
    BY <2>1, <2>2, <2>4, <1>6
  <2> QED BY <2>3, <2>4
<1>9. Indexed(memory)' /\ QuietInv'
  BY <1>2, <1>3 DEF Indexed, QuietInv, Grown
<1>10. ASSUME NEW i \in AlertIds, NEW d \in Copies(i)', d \notin Copies(i)
       PROVE  \E s \in done.saves \ saves : s.id = i /\ s.doc = d
  <2>1. /\ d # NoAlert
        /\ \/ d = store[i]
           \/ \E t \in done.saves : t.id = i /\ t.doc = d
           \/ \E q \in Requests : requests[q].id = i /\ requests[q].doc = d
    BY <1>10 DEF Copies
  <2> QED BY <1>10, <2>1, CopyCases
<1>11. CopyInv'
  <2> SUFFICES ASSUME NEW i \in AlertIds, NEW d \in Copies(i)'
               PROVE  /\ born'[i] # 0 /\ Earned(d)
                      /\ done.alerts[i] # NoAlert => Behind(d, done.alerts[i])
    BY <1>2 DEF CopyInv
  <2>1. CASE d \in Copies(i)
    <3>1. /\ born[i] # 0 /\ Earned(d)
          /\ memory.alerts[i] # NoAlert => Behind(d, memory.alerts[i])
      BY <2>1 DEF SystemInv, CopyInv
    <3>2. ASSUME done.alerts[i] # NoAlert
          PROVE  Behind(d, done.alerts[i])
      <4>1. i \notin Unborn
        BY <3>1 DEF Unborn
      <4>2. memory.alerts[i] # NoAlert
        BY <3>2, <4>1, <1>1, <1>3 DEF FreeEnough
      <4>3. Behind(d, memory.alerts[i]) /\ Behind(memory.alerts[i], done.alerts[i])
        BY <3>1, <4>2, <1>1, <1>3 DEF Grown
      <4>4. memory.alerts[i].count \in Nat /\ done.alerts[i].count \in Nat
        BY <3>2, <4>2, <1>4, <1>5 DEF Document, Alert
      <4>5. d \in Alert
        BY <2>1 DEF Copies, SystemInv, TypeOK, Document, Save
      <4>6. d.count \in Nat
        BY <4>5 DEF Alert
      <4> QED BY <4>3, <4>4, <4>6 DEF Behind
    <3> QED BY <3>1, <3>2, <1>6
  <2>2. CASE d \notin Copies(i)
    <3>1. PICK s \in done.saves \ saves : s.id = i /\ s.doc = d
      BY <2>2, <1>10
    <3>2. /\ done.alerts[i] # NoAlert /\ Behind(d, done.alerts[i]) /\ Earned(d)
      BY <3>1, <1>1, <1>3 DEF Grown
    <3>3. born'[i] = run
      BY <3>2, <1>2, <1>8 DEF BirthInv
    <3> QED BY <3>2, <3>3, <1>5
  <2> QED BY <2>1, <2>2
<1>12. KeyInv'
  <2> SUFFICES ASSUME NEW i \in AlertIds, NEW j \in AlertIds,
                      NEW c \in Copies(i)', NEW d \in Copies(j)'
               PROVE  /\ i = j => c.key = d.key
                      /\ i # j /\ born'[i] = born'[j] => c.key # d.key
    BY DEF KeyInv
  <2>1. /\ done.alerts[i] # NoAlert => c.key = done.alerts[i].key
        /\ done.alerts[j] # NoAlert => d.key = done.alerts[j].key
    BY <1>2, <1>11 DEF CopyInv, Behind
  <2>2. /\ done.alerts[i] # NoAlert <=> born'[i] = run
        /\ done.alerts[j] # NoAlert <=> born'[j] = run
    BY <1>2, <1>8 DEF BirthInv
  <2>3. CASE born'[i] = run
    <3>1. done.alerts[i] # NoAlert /\ c.key = done.alerts[i].key
      BY <2>1, <2>2, <2>3
    <3>2. ASSUME i # j, born'[i] = born'[j]
          PROVE  c.key # d.key
      <4>1. done.alerts[j] # NoAlert /\ d.key = done.alerts[j].key
        BY <3>2, <2>1, <2>2, <2>3
      <4>2. done.dedup[c.key] = i /\ done.dedup[d.key] = j
        BY <3>1, <4>1, <1>3 DEF Indexed
      <4> QED BY <3>2, <4>2
    <3> QED BY <3>1, <3>2, <2>1
  <2>4. CASE born'[i] # run
    <3>1. ASSUME NEW x \in AlertIds, born'[x] # run
          PROVE  born'[x] = born[x] /\ Copies(x)' \subseteq Copies(x)
      <4>1. done.alerts[x] = NoAlert
        BY <3>1, <1>2, <1>8 DEF BirthInv
      <4>2. \A s \in done.saves \ saves : s.id # x
        BY <4>1, <1>1, <1>3 DEF Grown
      <4>3. x \notin Unborn \ done.free
        BY <3>1, <1>6
      <4> QED BY <4>2, <4>3, <1>6, <1>10
    <3>2. CASE i = j
      <4>1. c \in Copies(i) /\ d \in Copies(i)
        BY <2>4, <3>1, <3>2
      <4> QED BY <3>2, <4>1 DEF SystemInv, KeyInv
    <3>3. CASE i # j /\ born'[i] = born'[j]
      <4>1. born'[j] # run
        BY <2>4, <3>3
      <4>2. c \in Copies(i) /\ d \in Copies(j) /\ born[i] = born[j]
        BY <2>4, <3>1, <3>3, <4>1
      <4> QED BY <3>3, <4>2 DEF SystemInv, KeyInv
    <3> QED BY <3>2, <3>3
  <2> QED BY <2>3, <2>4
<1>13. EscalatedUnlessSkipped'
  <2> SUFFICES ASSUME NEW i \in AlertIds, done.alerts[i] # NoAlert, Due(done.alerts[i])
               PROVE  i \in skipped'
    BY <1>2 DEF EscalatedUnlessSkipped, Known, Due
  <2>1. CASE done.alerts[i] = memory.alerts[i]
    <3>1. i \in skipped
      BY <2>1 DEF SystemInv, EscalatedUnlessSkipped, Known, Due
    <3> QED BY <2>1, <3>1
  <2>2. CASE done.alerts[i] # memory.alerts[i]
    <3>1. i \in done.touched
      BY <2>2, <1>1, <1>3 DEF DueTouched
    <3>2. done.raised
      BY <2>2, <1>1 DEF DueBefore
    <3> QED BY <3>1, <3>2
  <2> QED BY <2>1, <2>2
<1> QED BY <1>7, <1>8, <1>9, <1>11, <1>12, <1>13 DEF SystemInv

\* The worker handles an event.
LEMMA HandlingKeeps ==
  ASSUME SystemInv, NEW e \in Events, WorkerHandles(e)
  PROVE  SystemInv'
<1> DEFINE R == KeysOf(e)
           first == HandleBatch(Work, e.detections)
           done == HandleBatch(first, e.correlations)
<1>1. /\ IsFiniteSet(R) /\ R \subseteq Keys
      /\ e.detections \in Seq(R) /\ e.correlations \in Seq(R)
  BY KeysFinite
<1>2. Cardinality({k \in R : memory.dedup[k] = NoId}) <= Cardinality(Unborn)
  BY DEF WorkerHandles, KeysOf
<1>3. /\ memory' = [alerts |-> done.alerts, dedup |-> done.dedup]
      /\ saves' = done.saves
      /\ born' = [i \in AlertIds |-> IF i \in Unborn \ done.free THEN run ELSE born[i]]
      /\ skipped' = (skipped \ {i \in AlertIds : done.alerts[i] # memory.alerts[i]})
                      \cup IF done.raised THEN done.touched ELSE {}
      /\ UNCHANGED <<store, requests, run>>
  BY DEF WorkerHandles
<1> HIDE DEF R
<1>4. Work \in Works /\ Work \in Good(Work, R) /\ DueBefore(Work, Work)
  BY <1>1, <1>2, WorkGood
<1>5. first \in Good(Work, R) /\ (first.raised \/ DueBefore(Work, first))
  BY <1>1, <1>4, BatchGood
<1> HIDE DEF first
<1>6. done \in Good(Work, R) /\ (done.raised \/ DueBefore(Work, done))
  BY <1>1, <1>4, <1>5, BatchGood
<1> HIDE DEF done
<1> QED BY <1>3, <1>6, WorkDone

-----------------------------------------------------------------------------
(* Theorems *)

\* The invariant holds when the processes start, and every step keeps it.
LEMMA SystemInvariant == Spec => []SystemInv
<1>1. Init => SystemInv
  <2> SUFFICES ASSUME Init PROVE SystemInv
    OBVIOUS
  <2>1. /\ memory = EmptyManager /\ store = [i \in AlertIds |-> NoAlert]
        /\ saves = {} /\ requests = [r \in Requests |-> Idle] /\ run = 1
        /\ born = [i \in AlertIds |-> 0] /\ skipped = {}
    BY DEF Init
  <2>2. /\ \A i \in AlertIds : memory.alerts[i] = NoAlert
        /\ \A k \in Keys : memory.dedup[k] = NoId
        /\ memory \in [alerts: [AlertIds -> Document], dedup: [Keys -> AlertIds \cup {NoId}]]
    BY <2>1 DEF EmptyManager, Document
  <2>3. TypeOK
    <3>1. 1 \in 1..MaxRuns /\ 0 \in 0..MaxRuns
      BY SystemBoundAssumption
    <3>2. Idle \in [phase: {"idle", "loaded", "answered", "rejected", "closed"},
                    kind: {"none", "transition", "assign"},
                    id: AlertIds \cup {NoId}, doc: Document]
      BY DEF Idle, Document
    <3> QED BY <2>1, <2>2, <3>1, <3>2 DEF TypeOK, Document
  <2>4. RequestInv
    BY <2>1 DEF RequestInv, Idle
  <2>5. BirthInv /\ Indexed(memory) /\ QuietInv /\ EscalatedUnlessSkipped
    BY <2>1, <2>2 DEF BirthInv, Indexed, QuietInv, EscalatedUnlessSkipped, Known
  <2>6. \A i \in AlertIds : Copies(i) = {}
    BY <2>1, <2>4, NoneAssumption DEF Copies, RequestInv, Idle
  <2> QED BY <2>3, <2>4, <2>5, <2>6 DEF SystemInv, CopyInv, KeyInv
<1>2. SystemInv /\ [Next]_vars => SystemInv'
  <2> SUFFICES ASSUME SystemInv, [Next]_vars PROVE SystemInv'
    OBVIOUS
  <2>1. ASSUME NEW e \in Events, WorkerHandles(e) PROVE SystemInv'
    BY <2>1, HandlingKeeps
  <2>2. CASE WorkerRestarts
    BY <2>2, RestartKeeps
  <2>3. ASSUME NEW s \in saves, SaveLands(s) \/ SaveFails(s) PROVE SystemInv'
    BY <2>3, SaveKeeps
  <2>4. ASSUME NEW r \in Requests, NEW i \in AlertIds, NEW kind \in {"transition", "assign"},
               RequestLoads(r, kind, i)
        PROVE  SystemInv'
    BY <2>4, LoadKeeps
  <2>5. ASSUME NEW r \in Requests,
               \/ \E target \in AlertStatus :
                    RequestTransitions(r, target) \/ RequestRejected(r, target)
               \/ \E user \in Assignees \cup {Nobody} : RequestAssigns(r, user)
               \/ RequestCloses(r)
        PROVE  SystemInv'
    BY <2>5, RequestKeeps
  <2>6. CASE UNCHANGED vars
    <3>1. TypeOK' /\ RequestInv' /\ \A i \in AlertIds : Copies(i)' \subseteq Copies(i)
      BY <2>6 DEF vars, SystemInv, TypeOK, RequestInv, Copies
    <3> QED BY <2>6, <3>1, CopiesFewer DEF vars
  <2> QED BY <2>1, <2>2, <2>3, <2>4, <2>5, <2>6 DEF Next
<1> QED BY <1>1, <1>2, PTL DEF Spec

\* Memory, documents, saves and requests keep their types.
THEOREM TypeCorrect == Spec => []TypeOK
<1>1. SystemInv => TypeOK
  BY DEF SystemInv
<1> QED BY <1>1, SystemInvariant, PTL

\* However saves are reordered, dropped and overtaken, no copy of an alert is
\* ahead of the worker or has another key.
THEOREM NoCopyAhead == Spec => []CopiesNeverAhead
<1>1. SystemInv => CopiesNeverAhead
  BY DEF SystemInv, CopyInv, CopiesNeverAhead, Known, Behind
<1> QED BY <1>1, SystemInvariant, PTL

\* Wherever a copy of an alert is, it is SUPPRESSED only by the policy, and
\* NEW only while the policy does not ask for more.
THEOREM SuppressionIsEarned == Spec => []SuppressionEarned
<1>1. SystemInv => SuppressionEarned
  BY DEF SystemInv, CopyInv, SuppressionEarned, Earned
<1> QED BY <1>1, SystemInvariant, PTL

\* Two stored alerts of one key were created by different incarnations of the
\* worker.
THEOREM OneAlertStored == Spec => []OneStoredAlertPerKeyAndRun
<1>1. SystemInv => OneStoredAlertPerKeyAndRun
  <2> SUFFICES ASSUME SystemInv, NEW i \in AlertIds, NEW j \in AlertIds,
                      store[i] # NoAlert, store[j] # NoAlert,
                      store[i].key = store[j].key, i # j
               PROVE  born[i] # born[j]
    BY DEF OneStoredAlertPerKeyAndRun
  <2>1. store[i] \in Copies(i) /\ store[j] \in Copies(j)
    BY CopyCases
  <2> QED BY <2>1 DEF SystemInv, KeyInv
<1> QED BY <1>1, SystemInvariant, PTL

\* The worker leaves no alert that must escalate in NEW, except those of a
\* batch that ended early.
THEOREM DueAlertsEscalated == Spec => []EscalatedUnlessSkipped
<1>1. SystemInv => EscalatedUnlessSkipped
  BY DEF SystemInv
<1> QED BY <1>1, SystemInvariant, PTL
=============================================================================
