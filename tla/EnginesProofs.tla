---------------------------- MODULE EnginesProofs ----------------------------
(***************************************************************************)
(* The two engines of the worker, for any rules and events.  Detection:    *)
(* what the suppression guard lets pass and hides.  Correlation: that its  *)
(* evidence is consumed, that every match is a real one, and that no       *)
(* window holds a pattern that was not reported.                           *)
(***************************************************************************)
EXTENDS DetectionEngine, CorrelationEngine, FiniteSetTheorems, WellFoundedInduction,
        TLAPS

-----------------------------------------------------------------------------
(* The suppression guard of the detection engine *)

\* A pass that is less than a lifetime old has an entry that lasts as long.
PassesEntered ==
  \A y \in passed :
    \/ y.at + Ttl <= now
    \/ \E x \in entries : /\ x.rule = y.rule /\ x.event = y.event
                          /\ x.expires >= y.at + Ttl

\* An entry comes from a pass, a lifetime before it expires, or from one that an
\* evaluation found and did not return.
EntriesPassed ==
  \A x \in entries :
    \E y \in passed \cup withheld :
      y.rule = x.rule /\ y.event = x.event /\ x.expires = y.at + Ttl

-----------------------------------------------------------------------------
(* Types *)

\* What an evaluation enters are entries, and they replace those of the same
\* rule and event.
LEMMA EntriesAfterType ==
  ASSUME DetectionTypeOK, NEW e \in Events
  PROVE  /\ EntriesAfter(e) \subseteq Entry
         /\ \A x, y \in EntriesAfter(e) :
              x.rule = y.rule /\ x.event = y.event => x = y
<1> DEFINE passing == {r \in MatchedBy[e] : ~IsSuppressed(r, e)}
           kept == {x \in entries : ~(x.event = e /\ x.rule \in passing)}
           new == {[rule |-> r, event |-> e, expires |-> now + Ttl] : r \in passing}
<1>1. EntriesAfter(e) = kept \cup new
  BY DEF EntriesAfter
<1>2. now + Ttl \in 0..(MaxNow + Ttl)
  BY TtlAssumption DEF DetectionTypeOK
<1>3. passing \subseteq DetectionRules
  BY MatchAssumption
<1>4. new \subseteq Entry
  BY <1>2, <1>3 DEF Entry
<1>5. kept \subseteq Entry /\ \A x, y \in kept :
        x.rule = y.rule /\ x.event = y.event => x = y
  BY DEF DetectionTypeOK
<1>6. \A x \in kept, y \in new : ~(x.rule = y.rule /\ x.event = y.event)
  OBVIOUS
<1>7. \A x, y \in new : x.rule = y.rule => x = y
  OBVIOUS
<1> HIDE DEF kept, new
<1> QED
  BY <1>1, <1>4, <1>5, <1>6, <1>7

\* Every step keeps the types.
LEMMA DetectionTypeInductive == DetectionTypeOK /\ [DetectionNext]_detectionVars => DetectionTypeOK'
<1> SUFFICES ASSUME DetectionTypeOK, [DetectionNext]_detectionVars PROVE DetectionTypeOK'
  OBVIOUS
<1>1. CASE Tick
  BY <1>1, TtlAssumption DEF Tick, DetectionTypeOK
<1>2. ASSUME NEW e \in Events, NEW outcome \in [Plugins -> Outcomes],
             DetectionEvaluate(e, outcome)
      PROVE  DetectionTypeOK'
  <2>1. RuleResults(e) \subseteq RuleResult
    <3>1. \A r \in MatchedBy[e] : r \in DetectionRules /\ IsSuppressed(r, e) \in BOOLEAN
      BY MatchAssumption DEF IsSuppressed
    <3> QED
      BY <3>1 DEF RuleResults, RuleResult
  <2>2. now' = now /\ now \in 0..MaxNow
    BY <1>2 DEF DetectionEvaluate, DetectionTypeOK
  <2>3. entries' \subseteq Entry /\ \A x, y \in entries' :
          x.rule = y.rule /\ x.event = y.event => x = y
    BY <1>2, EntriesAfterType DEF DetectionEvaluate
  <2>4. returned' \in [event: SUBSET Events, at: 0..MaxNow, raised: BOOLEAN,
                       rules: SUBSET RuleResult, plugins: SUBSET Plugins]
    BY <1>2, <2>1, <2>2 DEF DetectionEvaluate
  <2>5. passed' \cup withheld' \subseteq [rule: DetectionRules, event: Events, at: 0..MaxNow]
    <3>1. \A x \in RuleResults(e) : x.rule \in DetectionRules
      BY MatchAssumption DEF RuleResults
    <3>2. passed' \cup withheld' \subseteq passed \cup withheld \cup
            {[rule |-> x.rule, event |-> e, at |-> now] : x \in RuleResults(e)}
      BY <1>2 DEF DetectionEvaluate
    <3>3. {[rule |-> x.rule, event |-> e, at |-> now] : x \in RuleResults(e)}
            \subseteq [rule: DetectionRules, event: Events, at: 0..MaxNow]
      BY <3>1, <2>2
    <3> QED
      BY <3>2, <3>3 DEF DetectionTypeOK
  <2> QED
    BY <2>2, <2>3, <2>4, <2>5 DEF DetectionTypeOK
<1>3. CASE UNCHANGED detectionVars
  BY <1>3 DEF detectionVars, DetectionTypeOK
<1> QED
  BY <1>1, <1>2, <1>3 DEF DetectionNext

\* Entries and results keep their types, and the guard never has two entries
\* for a rule and an event.
THEOREM DetectionTypeCorrect == DetectionSpec => []DetectionTypeOK
<1>1. DetectionInit => DetectionTypeOK
  BY TtlAssumption DEF DetectionInit, DetectionTypeOK
<1> QED
  BY <1>1, DetectionTypeInductive, PTL DEF DetectionSpec

-----------------------------------------------------------------------------
(* Repeated passes *)

\* A rule that passes now has no pass in the last lifetime.
LEMMA PassingIsFirst ==
  ASSUME DetectionTypeOK, PassesEntered, NEW e \in Events, NEW r \in MatchedBy[e],
         ~IsSuppressed(r, e),
         NEW y \in passed, y.rule = r, y.event = e
  PROVE  y.at + Ttl <= now
<1>1. y.at \in Nat /\ now \in Nat /\ Ttl \in Nat
  BY TtlAssumption DEF DetectionTypeOK
<1>2. ASSUME NEW x \in entries, x.rule = r, x.event = e, x.expires >= y.at + Ttl
      PROVE  y.at + Ttl <= now
  <2>1. x.expires \in Int
    BY TtlAssumption DEF DetectionTypeOK, Entry
  <2>2. ~(x.expires > now)
    BY <1>2 DEF IsSuppressed
  <2> QED
    BY <1>1, <1>2, <2>1, <2>2
<1> QED
  BY <1>2 DEF PassesEntered

\* The results that pass in an evaluation: what it adds to passed.
LEMMA PassedBy ==
  ASSUME NEW e \in Events, NEW outcome \in [Plugins -> Outcomes],
         DetectionEvaluate(e, outcome), NEW y \in passed', y \notin passed
  PROVE  /\ y.event = e /\ y.at = now
         /\ y.rule \in MatchedBy[e] /\ ~IsSuppressed(y.rule, e)
BY DEF DetectionEvaluate, RuleResults

\* Every step keeps an entry for each pass of the last lifetime.
LEMMA EnteredInductive ==
  DetectionTypeOK /\ PassesEntered /\ [DetectionNext]_detectionVars => PassesEntered'
<1> SUFFICES ASSUME DetectionTypeOK, PassesEntered, [DetectionNext]_detectionVars PROVE PassesEntered'
  OBVIOUS
<1>1. CASE Tick
  <2>1. now' = now + 1 /\ now \in Int /\ entries' = entries /\ passed' = passed
    BY <1>1 DEF Tick, DetectionTypeOK
  <2>2. \A y \in passed : y.at + Ttl \in Int
    BY TtlAssumption DEF DetectionTypeOK
  <2> QED
    BY <2>1, <2>2 DEF PassesEntered
<1>2. ASSUME NEW e \in Events, NEW outcome \in [Plugins -> Outcomes],
             DetectionEvaluate(e, outcome)
      PROVE  PassesEntered'
  <2>1. now' = now /\ entries' = EntriesAfter(e)
    BY <1>2 DEF DetectionEvaluate
  <2> SUFFICES ASSUME NEW y \in passed'
               PROVE  \/ y.at + Ttl <= now
                      \/ \E x \in EntriesAfter(e) :
                           /\ x.rule = y.rule /\ x.event = y.event
                           /\ x.expires >= y.at + Ttl
    BY <2>1 DEF PassesEntered
  <2>2. CASE y \notin passed
    <3> DEFINE new == [rule |-> y.rule, event |-> e, expires |-> now + Ttl]
    <3>1. y.event = e /\ y.at = now
      BY <1>2, <2>2, PassedBy
    <3>2. new \in EntriesAfter(e)
      BY <1>2, <2>2, PassedBy DEF EntriesAfter
    <3>3. new.expires >= y.at + Ttl
      BY <3>1, TtlAssumption DEF DetectionTypeOK
    <3> QED
      BY <3>1, <3>2, <3>3
  <2>3. ASSUME y \in passed, y.event = e, y.rule \in MatchedBy[e],
               ~IsSuppressed(y.rule, e)
        PROVE  y.at + Ttl <= now
    BY <2>3, PassingIsFirst
  <2>4. ASSUME y \in passed,
               ~(y.event = e /\ y.rule \in MatchedBy[e] /\ ~IsSuppressed(y.rule, e))
        PROVE  \A x \in entries :
                 x.rule = y.rule /\ x.event = y.event => x \in EntriesAfter(e)
    BY <2>4 DEF EntriesAfter
  <2> QED
    BY <2>2, <2>3, <2>4 DEF PassesEntered
<1>3. CASE UNCHANGED detectionVars
  BY <1>3 DEF detectionVars, PassesEntered
<1> QED
  BY <1>1, <1>2, <1>3 DEF DetectionNext

\* What passes in a step passes a lifetime after the pass before.
LEMMA SpacedStep == DetectionTypeOK /\ PassesEntered /\ [DetectionNext]_detectionVars => [PassesAreSpaced]_detectionVars
<1> SUFFICES ASSUME DetectionTypeOK, PassesEntered, DetectionNext PROVE PassesAreSpaced
  OBVIOUS
<1>1. CASE Tick
  BY <1>1 DEF Tick, PassesAreSpaced
<1>2. ASSUME NEW e \in Events, NEW outcome \in [Plugins -> Outcomes],
             DetectionEvaluate(e, outcome)
      PROVE  PassesAreSpaced
  <2> SUFFICES ASSUME NEW x \in passed', x \notin passed, NEW y \in passed,
                      x.rule = y.rule, x.event = y.event
               PROVE  x.at >= y.at + Ttl
    BY DEF PassesAreSpaced
  <2>1. x.event = e /\ x.at = now /\ x.rule \in MatchedBy[e] /\ ~IsSuppressed(x.rule, e)
    BY <1>2, PassedBy
  <2>2. y.at + Ttl <= now
    BY <2>1, PassingIsFirst
  <2> QED
    BY <2>1, <2>2, TtlAssumption DEF DetectionTypeOK
<1> QED
  BY <1>1, <1>2 DEF DetectionNext

\* Two results that pass the guard for one rule and event are a lifetime
\* apart, whatever plugins do.
THEOREM PassesSpaced == DetectionSpec => RepeatsAreSpaced
<1>1. DetectionInit => DetectionTypeOK /\ PassesEntered
  BY TtlAssumption DEF DetectionInit, DetectionTypeOK, PassesEntered
<1> QED
  BY <1>1, DetectionTypeInductive, EnteredInductive, SpacedStep, PTL DEF DetectionSpec, RepeatsAreSpaced

-----------------------------------------------------------------------------
(* Nothing is hidden for good *)

\* Every step keeps a pass behind each entry and behind each suppressed result,
\* returned or withheld.
LEMMA HiddenInductive ==
  DetectionTypeOK /\ EntriesPassed /\ SuppressedPassedBefore /\ [DetectionNext]_detectionVars
    => EntriesPassed' /\ SuppressedPassedBefore'
<1> SUFFICES ASSUME DetectionTypeOK, EntriesPassed, SuppressedPassedBefore, [DetectionNext]_detectionVars
             PROVE  EntriesPassed' /\ SuppressedPassedBefore'
  OBVIOUS
<1>1. CASE Tick
  BY <1>1 DEF Tick, EntriesPassed, SuppressedPassedBefore
<1>2. ASSUME NEW e \in Events, NEW outcome \in [Plugins -> Outcomes],
             DetectionEvaluate(e, outcome)
      PROVE  EntriesPassed' /\ SuppressedPassedBefore'
  <2> DEFINE passing == {[rule |-> x.rule, event |-> e, at |-> now] :
                           x \in {y \in RuleResults(e) : ~y.suppressed}}
  <2>1. /\ entries' = EntriesAfter(e)
        /\ returned'.rules \subseteq RuleResults(e)
        /\ returned'.at = now
        /\ passed' \cup withheld' = passed \cup withheld \cup passing
    BY <1>2 DEF DetectionEvaluate
  <2>2. ASSUME NEW x \in EntriesAfter(e)
        PROVE  \E y \in passed' \cup withheld' :
                 y.rule = x.rule /\ y.event = x.event /\ x.expires = y.at + Ttl
    <3>1. CASE x \in entries
      BY <3>1, <2>1 DEF EntriesPassed
    <3>2. CASE x \notin entries
      <4>1. PICK r \in MatchedBy[e] :
              /\ ~IsSuppressed(r, e)
              /\ x = [rule |-> r, event |-> e, expires |-> now + Ttl]
        BY <3>2 DEF EntriesAfter
      <4>2. [rule |-> r, event |-> e, suppressed |-> FALSE] \in RuleResults(e)
        <5>1. IsSuppressed(r, e) = FALSE
          BY <4>1 DEF IsSuppressed
        <5> QED
          BY <5>1 DEF RuleResults
      <4>3. [rule |-> r, event |-> e, at |-> now] \in passed' \cup withheld'
        BY <2>1, <4>2
      <4> QED
        BY <4>1, <4>3
    <3> QED
      BY <3>1, <3>2
  <2>3. ASSUME NEW x \in RuleResults(e), x.suppressed
        PROVE  \E y \in passed' \cup withheld' :
                 y.rule = x.rule /\ y.event = x.event /\ now < y.at + Ttl
    <3>1. PICK z \in entries : z.rule = x.rule /\ z.event = x.event /\ z.expires > now
      BY <2>3 DEF RuleResults, IsSuppressed
    <3>2. PICK y \in passed \cup withheld :
            y.rule = z.rule /\ y.event = z.event /\ z.expires = y.at + Ttl
      BY <3>1 DEF EntriesPassed
    <3>3. y \in passed' \cup withheld'
      BY <2>1
    <3>4. y.at + Ttl > now
      BY <3>1, <3>2
    <3>5. now < y.at + Ttl
      BY <3>4, TtlAssumption DEF DetectionTypeOK
    <3> QED
      BY <3>1, <3>2, <3>3, <3>5
  <2> QED
    BY <2>1, <2>2, <2>3 DEF EntriesPassed, SuppressedPassedBefore
<1>3. CASE UNCHANGED detectionVars
  BY <1>3 DEF detectionVars, EntriesPassed, SuppressedPassedBefore
<1> QED
  BY <1>1, <1>2, <1>3 DEF DetectionNext

\* The guard hides nothing for good, whatever plugins do: what it suppresses
\* passed less than a lifetime ago, or would have if a plugin's result had not
\* ended the evaluation.
THEOREM NothingHidden == DetectionSpec => []SuppressedPassedBefore
<1>1. DetectionInit => DetectionTypeOK /\ EntriesPassed /\ SuppressedPassedBefore
  BY TtlAssumption DEF DetectionInit, DetectionTypeOK, EntriesPassed, SuppressedPassedBefore
<1> QED
  BY <1>1, HiddenInductive, DetectionTypeInductive, PTL DEF DetectionSpec

-----------------------------------------------------------------------------
(* The evidence of the correlation engine *)

\* The evaluations are numbered by event and turn, the latest highest, and a turn
\* is followed by another only if it returned a match.
Numbered ==
  /\ \A x \in Range(evaluated) :
       \/ x = Last(evaluated)
       \/ x.id < Last(evaluated).id
       \/ x.id = Last(evaluated).id /\ x.turn < Last(evaluated).turn
  /\ \A x, y \in Range(evaluated) : x.id = y.id /\ x # y => Repeated(x, y)

\* What a window and a match hold was evaluated before, and is there once.
EvidenceSeen ==
  /\ \A r \in Rules, g \in Groups :
       /\ Range(state[<<r, g>>].events) \subseteq Range(evaluated)
       /\ IsInjective(state[<<r, g>>].events)
  /\ \A m \in matches :
       Range(m.events) \subseteq Range(evaluated) /\ IsInjective(m.events)

WindowsApart ==
  \A r \in Rules : \A g, h \in Groups :
    g # h => Range(state[<<r, g>>].events) \cap Range(state[<<r, h>>].events) = {}

\* Also when a window and a match hold the same sequence of events, which
\* EvidenceConsumed would not tell apart and the next event would.
MatchesApartFromWindows ==
  \A m \in matches : \A g \in Groups :
    Range(m.events) \cap Range(state[<<m.rule, g>>].events) = {}

MatchesApart ==
  \A m, k \in matches :
    m.rule = k.rule /\ m.events # k.events => Range(m.events) \cap Range(k.events) = {}

EvidenceApart ==
  Numbered /\ EvidenceSeen /\ WindowsApart /\ MatchesApartFromWindows /\ MatchesApart

-----------------------------------------------------------------------------
(* One rule and one event *)

\* The elements of a sequence that grows by one.
LEMMA AppendRange ==
  ASSUME NEW S, NEW s \in Seq(S), NEW x \in S
  PROVE  /\ Append(s, x) \in Seq(S)
         /\ Range(Append(s, x)) = Range(s) \cup {x}
         /\ Last(Append(s, x)) = x
         /\ IsInjective(s) /\ x \notin Range(s) => IsInjective(Append(s, x))
<1>1. /\ Append(s, x) \in Seq(S)
      /\ DOMAIN Append(s, x) = 1..Len(s) + 1
      /\ DOMAIN s = 1..Len(s)
      /\ Len(s) \in Nat
  OBVIOUS
<1>2. \A n \in 1..Len(s) : Append(s, x)[n] = s[n]
  OBVIOUS
<1>3. Append(s, x)[Len(s) + 1] = x
  OBVIOUS
<1>4. Range(Append(s, x)) \subseteq Range(s) \cup {x}
  <2> SUFFICES ASSUME NEW n \in 1..Len(s) + 1
               PROVE  Append(s, x)[n] \in Range(s) \cup {x}
    BY <1>1 DEF Range
  <2>1. CASE n \in 1..Len(s)
    BY <2>1, <1>1, <1>2 DEF Range
  <2>2. CASE n = Len(s) + 1
    BY <2>2, <1>3
  <2> QED
    BY <2>1, <2>2, <1>1
<1>5. Range(s) \subseteq Range(Append(s, x))
  <2> SUFFICES ASSUME NEW n \in 1..Len(s) PROVE s[n] \in Range(Append(s, x))
    BY <1>1 DEF Range
  <2>1. n \in 1..Len(s) + 1
    BY <1>1
  <2> QED
    BY <2>1, <1>1, <1>2 DEF Range
<1>6. x \in Range(Append(s, x))
  <2>1. Len(s) + 1 \in 1..Len(s) + 1
    BY <1>1
  <2> QED
    BY <2>1, <1>1, <1>3 DEF Range
<1>7. Last(Append(s, x)) = x
  BY <1>1, <1>3 DEF Last
<1>8. ASSUME IsInjective(s), x \notin Range(s)
      PROVE  IsInjective(Append(s, x))
  <2>1. \A n \in 1..Len(s) : s[n] # x
    BY <1>1, <1>8 DEF Range
  <2> QED
    BY <1>1, <1>2, <1>3, <1>8, <2>1 DEF IsInjective
<1> QED
  BY <1>1, <1>4, <1>5, <1>6, <1>7, <1>8

\* An empty window holds nothing.
LEMMA EmptyRange == Range(<<>>) = {} /\ IsInjective(<<>>)
BY DEF Range, IsInjective

\* The window an event falls into holds nothing new.
LEMMA CurrentWindowEvidence ==
  ASSUME TypeOK, NEW r \in Rules, NEW e \in Event
  PROVE  /\ CurrentWindow(r, e) \in Window
         /\ Range(CurrentWindow(r, e).events) \subseteq Range(state[<<r, e.group>>].events)
         /\ IsInjective(state[<<r, e.group>>].events) =>
              IsInjective(CurrentWindow(r, e).events)
<1> DEFINE fresh == [started |-> e.time, events |-> <<>>, open |-> TRUE]
<1>1. e.group \in Groups /\ e.time \in 0..MaxTime
  BY DEF Event
<1>2. state[<<r, e.group>>] \in Window
  BY <1>1 DEF TypeOK
<1>3. fresh \in Window /\ Range(fresh.events) = {} /\ IsInjective(fresh.events)
  BY <1>1, EmptyRange DEF Window
<1>4. CurrentWindow(r, e) = state[<<r, e.group>>] \/ CurrentWindow(r, e) = fresh
  BY DEF CurrentWindow
<1> HIDE DEF fresh
<1> QED
  BY <1>2, <1>3, <1>4

\* What a window collects, and what is left of it: the event is the only
\* addition, and a match leaves nothing.
LEMMA NextEvidence ==
  ASSUME TypeOK, NEW r \in Rules, NEW e \in Event
  PROVE  LET old == Range(state[<<r, e.group>>].events)
         IN  /\ Collected(r, e).events \in Seq(Event)
             /\ Range(Collected(r, e).events) \subseteq old \cup {e}
             /\ NextWindow(r, e) \in Window
             /\ Range(NextWindow(r, e).events) \subseteq old \cup {e}
             /\ Fires(r, e) => Range(NextWindow(r, e).events) = {}
             /\ IsInjective(state[<<r, e.group>>].events) /\ e \notin old =>
                  IsInjective(Collected(r, e).events) /\ IsInjective(NextWindow(r, e).events)
<1> DEFINE old == Range(state[<<r, e.group>>].events)
           w == CurrentWindow(r, e)
<1>1. /\ w \in Window /\ Range(w.events) \subseteq old
      /\ IsInjective(state[<<r, e.group>>].events) => IsInjective(w.events)
  BY CurrentWindowEvidence
<1>2. w.events \in Seq(Event)
  BY <1>1 DEF Window
<1>3. /\ Append(w.events, e) \in Seq(Event)
      /\ Range(Append(w.events, e)) = Range(w.events) \cup {e}
      /\ IsInjective(w.events) /\ e \notin Range(w.events) =>
           IsInjective(Append(w.events, e))
  BY <1>2, AppendRange
<1>4. Collected(r, e) \in Window /\ Collected(r, e).events = Append(w.events, e)
  BY <1>1, <1>3 DEF Collected, Window
<1>5. NoWindow \in Window /\ Range(NoWindow.events) = {} /\ IsInjective(NoWindow.events)
  <2>1. 0 \in 0..MaxTime
    BY TimeAssumption
  <2> QED
    BY <2>1, EmptyRange DEF NoWindow, Window
<1>6. Range(Collected(r, e).events) \subseteq old \cup {e}
  BY <1>1, <1>3, <1>4
<1>7. /\ NextWindow(r, e) \in {NoWindow, Collected(r, e), w}
      /\ Fires(r, e) => NextWindow(r, e) = NoWindow
  BY DEF NextWindow
<1> HIDE DEF w
<1> QED
  BY <1>1, <1>3, <1>4, <1>5, <1>6, <1>7

-----------------------------------------------------------------------------
(* Types *)

\* Every step keeps the types.
LEMMA TypeInductive == TypeOK /\ [Next]_vars => TypeOK'
<1> SUFFICES ASSUME TypeOK, [Next]_vars PROVE TypeOK'
  OBVIOUS
<1>1. ASSUME NEW e \in Event, Evaluate(e) PROVE TypeOK'
  <2>1. \A r \in Rules : NextWindow(r, e) \in Window
    BY NextEvidence
  <2>2. state' \in [Rules \X Groups -> Window]
    BY <1>1, <2>1 DEF Evaluate, TypeOK
  <2>3. evaluated' \in Seq(Event)
    BY <1>1 DEF Evaluate, TypeOK
  <2>4. e.group \in Groups /\ \A r \in Rules : Collected(r, e).events \in Seq(Event)
    BY NextEvidence DEF Event
  <2>5. matches' \subseteq [rule: Rules, group: Groups, events: Seq(Event)]
    BY <1>1, <2>4 DEF Evaluate, TypeOK
  <2> QED
    BY <2>2, <2>3, <2>5 DEF TypeOK
<1>2. CASE UNCHANGED vars
  BY <1>2 DEF vars, TypeOK
<1> QED
  BY <1>1, <1>2 DEF Next, EvaluateNext, EvaluateAgain

\* Windows and results keep their types.
THEOREM TypeCorrect == Spec => []TypeOK
<1>1. Init => TypeOK
  <2>1. 0 \in 0..MaxTime
    BY TimeAssumption
  <2>2. NoWindow \in Window
    BY <2>1 DEF NoWindow, Window
  <2> QED
    BY <2>2 DEF Init, TypeOK
<1> QED
  BY <1>1, TypeInductive, PTL DEF Spec

-----------------------------------------------------------------------------
(* Consumption *)

\* The windows after an evaluation: only those of the event's group gain, and
\* only the event.
LEMMA WindowAfter ==
  ASSUME TypeOK, NEW e \in Event, Evaluate(e), NEW r \in Rules, NEW g \in Groups
  PROVE  LET old == Range(state[<<r, g>>].events)
             new == Range(state'[<<r, g>>].events)
         IN  /\ g # e.group => new = old
             /\ g = e.group => new \subseteq old \cup {e}
             /\ g = e.group /\ Fires(r, e) => new = {}
             /\ IsInjective(state[<<r, g>>].events) /\ e \notin old =>
                  IsInjective(state'[<<r, g>>].events)
<1>1. state'[<<r, g>>] = IF g = e.group THEN NextWindow(r, e) ELSE state[<<r, g>>]
  BY DEF Evaluate
<1> QED
  BY <1>1, NextEvidence

\* The matches of an evaluation: what they hold was in the window, or is the
\* event.
LEMMA MatchAfter ==
  ASSUME TypeOK, NEW e \in Event, Evaluate(e), NEW m \in matches', m \notin matches
  PROVE  /\ m.rule \in Rules /\ e.group \in Groups
         /\ Fires(m.rule, e)
         /\ m.events = Collected(m.rule, e).events
         /\ Range(m.events) \subseteq Range(state[<<m.rule, e.group>>].events) \cup {e}
         /\ IsInjective(state[<<m.rule, e.group>>].events)
              /\ e \notin Range(state[<<m.rule, e.group>>].events) => IsInjective(m.events)
<1>1. PICK r \in Rules :
        /\ Fires(r, e)
        /\ m = [rule |-> r, group |-> e.group, events |-> Collected(r, e).events]
  BY DEF Evaluate
<1> QED
  BY <1>1, NextEvidence DEF Event

\* Whether it is the next event or one that is repeated, what is evaluated was
\* not before, and the numbers go on.
LEMMA EvaluationIsFresh ==
  ASSUME TypeOK, Numbered, NEW e \in Event, EvaluateNext(e) \/ EvaluateAgain(e)
  PROVE  /\ e \notin Range(evaluated)
         /\ Range(evaluated') = Range(evaluated) \cup {e}
         /\ Numbered'
<1>1. /\ evaluated \in Seq(Event) /\ evaluated' = Append(evaluated, e)
      /\ matches \subseteq matches'
  BY DEF TypeOK, EvaluateNext, EvaluateAgain, Evaluate
<1>2. Range(evaluated') = Range(evaluated) \cup {e} /\ Last(evaluated') = e
  BY <1>1, AppendRange
<1>3. \A x \in Range(evaluated) \cup {e} : x \in Event /\ x.id \in Nat /\ x.turn \in Nat
  <2>1. \A x \in Range(evaluated) \cup {e} : x \in Event
    BY <1>1 DEF Range
  <2> QED
    BY <2>1 DEF Event
<1>4. evaluated # <<>> => Last(evaluated) \in Range(evaluated)
  <2>1. evaluated # <<>> => Len(evaluated) \in DOMAIN evaluated
    BY <1>1
  <2> QED
    BY <2>1 DEF Last, Range
<1>5. \A x \in Range(evaluated) : x.id < e.id \/ (x.id = e.id /\ x.turn < e.turn)
  <2> SUFFICES ASSUME NEW x \in Range(evaluated)
               PROVE  x.id < e.id \/ (x.id = e.id /\ x.turn < e.turn)
    OBVIOUS
  <2> DEFINE l == Last(evaluated)
  <2>1. evaluated # <<>>
    BY EmptyRange
  <2>2. /\ x = l \/ x.id < l.id \/ (x.id = l.id /\ x.turn < l.turn)
        /\ l \in Event /\ l.id \in Nat /\ l.turn \in Nat
    BY <1>3, <1>4, <2>1 DEF Numbered
  <2>3. e.id = l.id + 1 \/ (e.id = l.id /\ e.turn = l.turn + 1)
    BY <2>1, <2>2 DEF EvaluateNext, EvaluateAgain, Event
  <2> HIDE DEF l
  <2> QED
    BY <1>3, <2>2, <2>3
<1>6. e \notin Range(evaluated)
  BY <1>3, <1>5
<1>7. ASSUME NEW x \in Event, Completed(x)
      PROVE  Completed(x)'
  BY <1>1, <1>7 DEF Completed
<1>8. ASSUME NEW x \in Range(evaluated), x.id = e.id
      PROVE  x.turn < e.turn /\ Completed(x)
  <2> DEFINE l == Last(evaluated)
  <2>1. evaluated # <<>>
    BY EmptyRange
  <2>2. l \in Event /\ l \in Range(evaluated) /\ x \in Event
    BY <1>3, <1>4, <2>1
  <2>3. x.turn < e.turn
    BY <1>3, <1>5, <1>8
  <2>4. EvaluateAgain(e)
    <3>1. x.id <= l.id /\ x.id \in Nat /\ l.id \in Nat
      BY <1>3, <2>2 DEF Numbered
    <3>2. EvaluateNext(e) => e.id = l.id + 1
      BY <2>1 DEF EvaluateNext
    <3> HIDE DEF l
    <3> QED
      BY <1>8, <3>1, <3>2
  <2>5. Completed(l) /\ e.id = l.id
    BY <2>2, <2>4 DEF EvaluateAgain, Event
  <2>6. x # l => Completed(x)
    <3>1. x # l => Repeated(x, l) /\ x.turn < l.turn /\ x.turn \in Nat /\ l.turn \in Nat
      BY <1>3, <1>8, <2>2, <2>5 DEF Numbered
    <3> HIDE DEF l
    <3> QED
      BY <3>1 DEF Repeated
  <2> QED
    BY <2>3, <2>5, <2>6
<1>9. Numbered'
  <2>1. ASSUME NEW x \in Range(evaluated'), NEW y \in Range(evaluated'),
               x.id = y.id, x # y
        PROVE  Repeated(x, y)'
    <3>1. CASE x \in Range(evaluated) /\ y \in Range(evaluated)
      <4>1. Repeated(x, y)
        BY <2>1, <3>1 DEF Numbered
      <4> QED
        BY <1>3, <1>7, <3>1, <4>1 DEF Repeated
    <3>2. CASE x = e
      BY <1>2, <1>3, <1>7, <1>8, <2>1, <3>2 DEF Repeated
    <3>3. CASE y = e
      BY <1>2, <1>3, <1>7, <1>8, <2>1, <3>3 DEF Repeated
    <3> QED
      BY <1>2, <3>1, <3>2, <3>3
  <2> QED
    BY <1>2, <1>5, <2>1 DEF Numbered
<1> QED
  BY <1>2, <1>6, <1>9

\* Every step keeps the evidence apart.
LEMMA ApartInductive == TypeOK /\ EvidenceApart /\ [Next]_vars => EvidenceApart'
<1> SUFFICES ASSUME TypeOK, EvidenceApart, [Next]_vars PROVE EvidenceApart'
  OBVIOUS
<1>1. ASSUME NEW e \in Event, EvaluateNext(e) \/ EvaluateAgain(e)
      PROVE  EvidenceApart'
  <2> USE <1>1 DEF EvidenceApart
  <2>0. Evaluate(e)
    BY DEF EvaluateNext, EvaluateAgain
  <2>f. /\ e \notin Range(evaluated) /\ Range(evaluated') = Range(evaluated) \cup {e}
        /\ Numbered'
    BY EvaluationIsFresh
  <2>1. /\ \A r \in Rules, g \in Groups : e \notin Range(state[<<r, g>>].events)
        /\ \A m \in matches : e \notin Range(m.events)
    BY <2>f DEF EvidenceSeen
  <2>2. \A m \in matches : m.rule \in Rules
    BY DEF TypeOK
  <2>3. EvidenceSeen'
    <3>1. ASSUME NEW r \in Rules, NEW g \in Groups
          PROVE  /\ Range(state'[<<r, g>>].events) \subseteq Range(evaluated')
                 /\ IsInjective(state'[<<r, g>>].events)
      <4>1. /\ Range(state[<<r, g>>].events) \subseteq Range(evaluated)
            /\ IsInjective(state[<<r, g>>].events)
        BY DEF EvidenceSeen
      <4> QED
        BY <2>0, <2>1, <2>f, <4>1, WindowAfter
    <3>2. ASSUME NEW m \in matches'
          PROVE  Range(m.events) \subseteq Range(evaluated') /\ IsInjective(m.events)
      <4>1. CASE m \in matches
        BY <2>f, <4>1 DEF EvidenceSeen
      <4>2. CASE m \notin matches
        <5>1. /\ m.rule \in Rules /\ e.group \in Groups
              /\ Range(m.events) \subseteq Range(state[<<m.rule, e.group>>].events) \cup {e}
              /\ IsInjective(state[<<m.rule, e.group>>].events)
                   /\ e \notin Range(state[<<m.rule, e.group>>].events) => IsInjective(m.events)
          BY <2>0, <4>2, MatchAfter
        <5> QED
          BY <2>1, <2>f, <5>1 DEF EvidenceSeen
      <4> QED
        BY <4>1, <4>2
    <3> QED
      BY <3>1, <3>2 DEF EvidenceSeen
  <2>4. WindowsApart'
    <3> SUFFICES ASSUME NEW r \in Rules, NEW g \in Groups, NEW h \in Groups, g # h
                 PROVE  Range(state'[<<r, g>>].events) \cap Range(state'[<<r, h>>].events) = {}
      BY DEF WindowsApart
    <3>1. Range(state[<<r, g>>].events) \cap Range(state[<<r, h>>].events) = {}
      BY DEF WindowsApart
    <3>2. /\ e \notin Range(state[<<r, g>>].events)
          /\ e \notin Range(state[<<r, h>>].events)
      BY <2>1
    <3>3. CASE g = e.group
      BY <3>1, <3>2, <3>3, <2>0, WindowAfter
    <3>4. CASE g # e.group
      BY <3>1, <3>2, <3>4, <2>0, WindowAfter
    <3> QED
      BY <3>3, <3>4
  <2>5. MatchesApartFromWindows'
    <3> SUFFICES ASSUME NEW m \in matches', NEW g \in Groups
                 PROVE  Range(m.events) \cap Range(state'[<<m.rule, g>>].events) = {}
      BY DEF MatchesApartFromWindows
    <3>1. CASE m \in matches
      <4>1. Range(m.events) \cap Range(state[<<m.rule, g>>].events) = {}
        BY <3>1 DEF MatchesApartFromWindows
      <4>2. Range(state'[<<m.rule, g>>].events)
              \subseteq Range(state[<<m.rule, g>>].events) \cup {e}
        BY <2>2, <3>1, <2>0, WindowAfter
      <4> QED
        BY <2>1, <3>1, <4>1, <4>2
    <3>2. CASE m \notin matches
      <4>1. /\ m.rule \in Rules /\ e.group \in Groups /\ Fires(m.rule, e)
            /\ Range(m.events) \subseteq Range(state[<<m.rule, e.group>>].events) \cup {e}
        BY <3>2, <2>0, MatchAfter
      <4>2. CASE g = e.group
        BY <4>1, <4>2, <2>0, WindowAfter
      <4>3. CASE g # e.group
        <5>1. Range(state'[<<m.rule, g>>].events) = Range(state[<<m.rule, g>>].events)
          BY <4>1, <4>3, <2>0, WindowAfter
        <5>2. Range(state[<<m.rule, e.group>>].events)
                \cap Range(state[<<m.rule, g>>].events) = {}
          BY <4>1, <4>3 DEF WindowsApart
        <5> QED
          BY <2>1, <4>1, <5>1, <5>2
      <4> QED
        BY <4>2, <4>3
    <3> QED
      BY <3>1, <3>2
  <2>6. MatchesApart'
    <3>1. ASSUME NEW m \in matches', m \notin matches, NEW k \in matches, m.rule = k.rule
          PROVE  Range(m.events) \cap Range(k.events) = {}
      <4>1. /\ e.group \in Groups
            /\ Range(m.events) \subseteq Range(state[<<m.rule, e.group>>].events) \cup {e}
        BY <3>1, <2>0, MatchAfter
      <4>2. Range(k.events) \cap Range(state[<<k.rule, e.group>>].events) = {}
        BY <4>1 DEF MatchesApartFromWindows
      <4> QED
        BY <2>1, <3>1, <4>1, <4>2
    <3>2. ASSUME NEW m \in matches', m \notin matches, NEW k \in matches', k \notin matches,
                 m.rule = k.rule
          PROVE  m.events = k.events
      BY <3>2, <2>0, MatchAfter
    <3> SUFFICES ASSUME NEW m \in matches', NEW k \in matches',
                        m.rule = k.rule, m.events # k.events
                 PROVE  Range(m.events) \cap Range(k.events) = {}
      BY DEF MatchesApart
    <3>3. CASE m \in matches /\ k \in matches
      BY <3>3 DEF MatchesApart
    <3>4. CASE m \notin matches /\ k \in matches
      BY <3>1, <3>4
    <3>5. CASE m \in matches /\ k \notin matches
      BY <3>1, <3>5
    <3>6. CASE m \notin matches /\ k \notin matches
      BY <3>2, <3>6
    <3> QED
      BY <3>3, <3>4, <3>5, <3>6
  <2> QED
    BY <2>f, <2>3, <2>4, <2>5, <2>6
<1>2. CASE UNCHANGED vars
  BY <1>2 DEF vars, EvidenceApart, Numbered, Repeated, Completed, EvidenceSeen, WindowsApart,
    MatchesApartFromWindows, MatchesApart
<1> QED
  BY <1>1, <1>2 DEF Next

\* Windows and matches that are apart share no evaluation, whichever two are
\* compared, and those of one event are repetitions.
LEMMA ApartConsumed == EvidenceApart => EvidenceConsumed
<1> SUFFICES ASSUME EvidenceApart, NEW r \in Rules,
                    NEW s \in {m.events : m \in {q \in matches : q.rule = r}}
                                \cup {state[<<r, g>>].events : g \in Groups},
                    NEW t \in {m.events : m \in {q \in matches : q.rule = r}}
                                \cup {state[<<r, g>>].events : g \in Groups},
                    NEW i \in DOMAIN s, NEW j \in DOMAIN t, s[i].id = t[j].id,
                    ~(s = t /\ i = j)
             PROVE  Repeated(s[i], t[j])
  BY DEF EvidenceConsumed
<1>1. ASSUME s # t PROVE Range(s) \cap Range(t) = {}
  <2>1. CASE \E m, k \in matches : m.rule = r /\ k.rule = r /\ s = m.events /\ t = k.events
    BY <1>1, <2>1 DEF EvidenceApart, MatchesApart
  <2>2. CASE \E m \in matches, g \in Groups :
               m.rule = r /\ s = m.events /\ t = state[<<r, g>>].events
    BY <2>2 DEF EvidenceApart, MatchesApartFromWindows
  <2>3. CASE \E m \in matches, g \in Groups :
               m.rule = r /\ t = m.events /\ s = state[<<r, g>>].events
    BY <2>3 DEF EvidenceApart, MatchesApartFromWindows
  <2>4. CASE \E g, h \in Groups : s = state[<<r, g>>].events /\ t = state[<<r, h>>].events
    BY <1>1, <2>4 DEF EvidenceApart, WindowsApart
  <2> QED
    BY <2>1, <2>2, <2>3, <2>4
<1>2. /\ Range(s) \cup Range(t) \subseteq Range(evaluated)
      /\ IsInjective(s)
  BY DEF EvidenceApart, EvidenceSeen
<1>3. s[i] \in Range(s) /\ t[j] \in Range(t)
  BY DEF Range
<1>4. s[i] # t[j]
  BY <1>1, <1>2, <1>3 DEF IsInjective
<1> QED
  BY <1>2, <1>3, <1>4 DEF EvidenceApart, Numbered

\* An evaluation is evidence of one match of a rule or of one window that may
\* still match, and an event twice only by an evaluation that a match caused to
\* be repeated, for any rules, groups and number of events and attempts.
THEOREM EvidenceIsConsumed == Spec => []EvidenceConsumed
<1>1. Init => TypeOK /\ EvidenceApart
  <2>1. 0 \in 0..MaxTime
    BY TimeAssumption
  <2>2. NoWindow \in Window
    BY <2>1 DEF NoWindow, Window
  <2>3. Range(NoWindow.events) = {} /\ IsInjective(NoWindow.events)
    BY EmptyRange DEF NoWindow
  <2>4. Init => \A r \in Rules, g \in Groups :
                  Range(state[<<r, g>>].events) = {} /\ IsInjective(state[<<r, g>>].events)
    BY <2>3 DEF Init
  <2>5. Init => TypeOK
    BY <2>2 DEF Init, TypeOK
  <2>6. Init => matches = {} /\ Range(evaluated) = {}
    BY EmptyRange DEF Init
  <2> QED
    BY <2>4, <2>5, <2>6 DEF EvidenceApart, Numbered, EvidenceSeen, WindowsApart,
      MatchesApartFromWindows, MatchesApart
<1> QED
  BY <1>1, TypeInductive, ApartInductive, ApartConsumed, PTL DEF Spec

-----------------------------------------------------------------------------
(* Induction and recursion on the natural numbers *)

\* A set that has 0, and n + 1 with n, has every natural number.
LEMMA NatInd ==
  ASSUME NEW S, 0 \in S, \A n \in Nat : n \in S => n + 1 \in S
  PROVE  Nat \subseteq S
<1> DEFINE T == Nat \ S
           R == OpToRel(<, Nat)
<1>1. SUFFICES ASSUME T # {} PROVE FALSE
  OBVIOUS
<1>2. IsWellFoundedOn(R, Nat)
  BY NatLessThanWellFounded, Zenon
<1> HIDE DEF R
<1>3. PICK x \in T : \A y \in T : ~ (<<y, x>> \in R)
  <2>1. T \subseteq Nat
    OBVIOUS
  <2> HIDE DEF T
  <2> QED BY <1>1, <1>2, <2>1, WFMin, Zenon
<1> USE DEF R
<1>4. \A y \in T : ~(y < x)
  BY <1>3 DEF OpToRel
<1>5. x # 0 /\ x \in Nat
  BY <1>3
<1>6. x - 1 \in Nat /\ x - 1 < x /\ (x - 1) + 1 = x
  BY <1>5
<1>7. x - 1 \in S
  BY <1>4, <1>6
<1> QED BY <1>7, <1>6, <1>3

\* A function that is built step by step exists.
LEMMA Recursion ==
  ASSUME NEW S, NEW base \in S, NEW N \in Nat
  PROVE  \A step \in [1..N -> [S -> S]] : \E g \in [0..N -> S] :
           g[0] = base /\ \A n \in 1..N : g[n] = step[n][g[n - 1]]
<1> TAKE step \in [1..N -> [S -> S]]
<1> DEFINE Upto(m, g) ==
             g \in [0..N -> S] /\ g[0] = base
             /\ \A n \in 1..N : n <= m => g[n] = step[n][g[n - 1]]
           Built == {m \in Nat : m <= N => \E g : Upto(m, g)}
<1>1. 0 \in Built
  <2> DEFINE g == [n \in 0..N |-> base]
  <2>1. Upto(0, g)  OBVIOUS
  <2> HIDE DEF Upto, g
  <2> QED BY <2>1
<1>2. ASSUME NEW m \in Nat, m \in Built PROVE m + 1 \in Built
  <2> SUFFICES ASSUME m + 1 <= N PROVE \E g : Upto(m + 1, g)
    OBVIOUS
  <2>1. PICK g : Upto(m, g)
    BY <1>2
  <2> DEFINE h == [g EXCEPT ![m + 1] = step[m + 1][g[m]]]
  <2>2. m + 1 \in 1..N /\ m \in 0..N /\ g[m] \in S
    BY <2>1
  <2>3. step[m + 1][g[m]] \in S
    BY <2>2
  <2>4. h \in [0..N -> S] /\ h[0] = base /\ h[m + 1] = step[m + 1][g[m]]
        /\ \A n \in 0..N : n # m + 1 => h[n] = g[n]
    BY <2>1, <2>2, <2>3
  <2> HIDE DEF h
  <2>5. \A n \in 1..N : n <= m + 1 => h[n] = step[n][h[n - 1]]
    <3> SUFFICES ASSUME NEW n \in 1..N, n <= m + 1 PROVE h[n] = step[n][h[n - 1]]
      OBVIOUS
    <3>1. n - 1 \in 0..N /\ n - 1 # m + 1 /\ n \in 0..N /\ (n = m + 1 \/ n <= m)
      BY <2>2
    <3>2. h[n - 1] = g[n - 1]
      BY <2>4, <3>1
    <3>3. CASE n = m + 1
      BY <2>2, <2>4, <3>2, <3>3
    <3>4. CASE n <= m
      <4>1. h[n] = g[n]
        BY <2>4, <3>1, <3>4
      <4>2. g[n] = step[n][g[n - 1]]
        BY <2>1, <3>4
      <4> QED BY <3>2, <4>1, <4>2
    <3> QED BY <3>1, <3>3, <3>4
  <2> QED BY <2>4, <2>5
<1> HIDE DEF Upto
<1>3. Nat \subseteq Built
  <2> HIDE DEF Built
  <2> QED BY <1>1, <1>2, NatInd
<1>4. PICK g : Upto(N, g)
  BY <1>3
<1> QED BY <1>4 DEF Upto

-----------------------------------------------------------------------------
(* Threshold rules: counting finds the pattern *)

\* A finite set has a subset of every size up to its own.
LEMMA SomeOf ==
  ASSUME NEW S, IsFiniteSet(S), NEW n \in Nat, n <= Cardinality(S)
  PROVE  \E T \in SUBSET S : Cardinality(T) = n
<1>1. Cardinality(S) \in Nat
  BY FS_CardinalityType
<1>2. PICK f \in Bijection(1..Cardinality(S), S) : TRUE
  BY FS_CardinalityType DEF ExistsBijection
<1> DEFINE T == {f[m] : m \in 1..n}
<1>3. /\ f \in [1..Cardinality(S) -> S]
      /\ \A a, b \in 1..Cardinality(S) : f[a] = f[b] => a = b
  BY <1>2 DEF Bijection, Injection, Surjection, IsInjective
<1>4. 1..n \subseteq 1..Cardinality(S)
  BY <1>1
<1>5. T \subseteq S
  BY <1>3, <1>4
<1>6. [m \in 1..n |-> f[m]] \in Bijection(1..n, T)
  BY <1>3, <1>4 DEF Bijection, Injection, Surjection, IsInjective
<1>7. Cardinality(T) = n
  <2>1. ExistsBijection(1..n, T)
    BY <1>6 DEF ExistsBijection
  <2>2. IsFiniteSet(T)
    BY <1>5, FS_Subset
  <2> HIDE DEF T
  <2> QED BY <2>1, <2>2, FS_CountingElements
<1> QED BY <1>5, <1>7

\* The events of a window are finite in number.
LEMMA MatchingFinite ==
  ASSUME NEW r \in Rules, NEW events \in Seq(Event)
  PROVE  IsFiniteSet(Matching(events, r))
<1>1. DOMAIN events = 1..Len(events) /\ Len(events) \in Nat
  OBVIOUS
<1>2. IsFiniteSet(1..Len(events))
  BY <1>1, FS_Interval
<1> QED BY <1>1, <1>2, FS_Subset DEF Matching

\* A threshold is reached exactly when threshold-many of the events match.
LEMMA ThresholdFindsPattern ==
  ASSUME NEW r \in Rules, NEW events \in Seq(Event), RuleOf[r].mode = "threshold"
  PROVE  EvaluateThreshold(events, r) <=> Pattern(r, events)
<1> DEFINE t == RuleOf[r].threshold
<1>1. t \in Nat
  BY RuleAssumption DEF Rule
<1>2. IsFiniteSet(Matching(events, r)) /\ Cardinality(Matching(events, r)) \in Nat
  BY MatchingFinite, FS_CardinalityType
<1>3. Pattern(r, events) <=>
        \E chosen \in SUBSET Matching(events, r) : Cardinality(chosen) = t
  BY DEF Pattern, Matching
<1>4. ASSUME t <= Cardinality(Matching(events, r))
      PROVE  \E chosen \in SUBSET Matching(events, r) : Cardinality(chosen) = t
  BY <1>1, <1>2, <1>4, SomeOf
<1>5. ASSUME NEW chosen \in SUBSET Matching(events, r), Cardinality(chosen) = t
      PROVE  t <= Cardinality(Matching(events, r))
  BY <1>2, <1>5, FS_Subset
<1> QED BY <1>1, <1>2, <1>3, <1>4, <1>5 DEF EvaluateThreshold

-----------------------------------------------------------------------------
(* Sequence rules: taking conditions greedily finds the pattern *)

\* Recursion, on the conditions taken.
LEMMA StepRecursion ==
  ASSUME NEW N \in Nat, NEW L \in Nat
  PROVE  \A next \in [1..N -> [0..L -> 0..L]] : \E g \in [0..N -> 0..L] :
           g[0] = 0 /\ \A n \in 1..N : g[n] = next[n][g[n - 1]]
<1> DEFINE S == 0..L
<1>1. 0 \in S
  OBVIOUS
<1> HIDE DEF S
<1>2. \A next \in [1..N -> [S -> S]] : \E g \in [0..N -> S] :
        g[0] = 0 /\ \A n \in 1..N : g[n] = next[n][g[n - 1]]
  BY <1>1, Recursion, SMTT(40)
<1> QED BY <1>2 DEF S

\* The next condition after each of the events.
LEMMA StepsTaken ==
  ASSUME NEW r \in Rules, NEW events \in Seq(Event)
  PROVE  \E step \in [0..Len(events) -> 0..Len(RuleOf[r].conditions)] :
           /\ step[0] = 0
           /\ \A n \in 1..Len(events) : step[n] = Advance(r, step[n - 1], events[n])
           /\ EvaluateSequence(events, r) <=>
                step[Len(events)] = Len(RuleOf[r].conditions)
<1> DEFINE N == Len(events)
           L == Len(RuleOf[r].conditions)
           S == 0..L
           Def(g) == [n \in 0..N |-> IF n = 0 THEN 0 ELSE Advance(r, g[n - 1], events[n])]
           step == CHOOSE g : g = Def(g)
           next == [n \in 1..N |-> [m \in S |-> Advance(r, m, events[n])]]
<1>1. EvaluateSequence(events, r) <=> step[N] = L
  BY DEF EvaluateSequence
<1>2. N \in Nat /\ L \in Nat /\ 0 \in S
  BY RuleAssumption DEF Rule
<1>3. \A n \in 1..N, m \in S : Advance(r, m, events[n]) \in S
  <2> HIDE DEF N
  <2> QED BY <1>2 DEF Advance
<1> HIDE DEF N, L, S
<1>4. next \in [1..N -> [S -> S]]
  BY <1>3
<1>5. PICK g \in [0..N -> S] :
        g[0] = 0 /\ \A n \in 1..N : g[n] = next[n][g[n - 1]]
  <2>1. \A f \in [1..N -> [S -> S]] : \E g \in [0..N -> S] :
          g[0] = 0 /\ \A n \in 1..N : g[n] = f[n][g[n - 1]]
    BY <1>2, StepRecursion DEF S
  <2> HIDE DEF next, Def, step
  <2> QED BY <1>4, <2>1
<1>6. ASSUME NEW n \in 1..N
      PROVE  next[n][g[n - 1]] = Advance(r, g[n - 1], events[n])
  <2>1. n - 1 \in 0..N
    BY <1>2
  <2>2. g[n - 1] \in S
    BY <2>1
  <2> QED BY <2>2
<1> HIDE DEF next
<1>7. g = Def(g)
  <2>1. \A n \in 0..N : n = 0 \/ n \in 1..N
    BY <1>2
  <2> QED BY <1>2, <1>5, <1>6, <2>1
<1>8. step = Def(step)
  <2> HIDE DEF Def
  <2> QED BY <1>7
<1> HIDE DEF step
<1>9. /\ step[0] = 0 /\ DOMAIN step = 0..N /\ step = [n \in 0..N |-> step[n]]
      /\ \A n \in 1..N : step[n] = Advance(r, step[n - 1], events[n])
  <2>1. 0 \in 0..N /\ \A n \in 1..N : n \in 0..N /\ n # 0
    BY <1>2
  <2>2. DOMAIN step = 0..N
    BY <1>8
  <2>3. \A n \in 0..N : step[n] = IF n = 0 THEN 0 ELSE Advance(r, step[n - 1], events[n])
    BY <1>8
  <2>4. step = [n \in 0..N |-> step[n]]
    <3>1. Def(step) = [n \in 0..N |-> Def(step)[n]]
      OBVIOUS
    <3> HIDE DEF Def
    <3> QED BY <1>8, <3>1
  <2> HIDE DEF Def
  <2> QED BY <2>1, <2>2, <2>3, <2>4
<1> HIDE DEF Def
<1> DEFINE P == {n \in Nat : n <= N => step[n] \in S}
<1>10. 0 \in P
  BY <1>2, <1>9
<1>11. ASSUME NEW n \in Nat, n \in P
       PROVE  n + 1 \in P
  <2> SUFFICES ASSUME n + 1 <= N PROVE step[n + 1] \in S
    OBVIOUS
  <2>1. step[n] \in S /\ n + 1 \in 1..N /\ (n + 1) - 1 = n
    BY <1>2, <1>11
  <2> QED BY <1>3, <1>9, <2>1
<1>12. Nat \subseteq P
  <2> HIDE DEF P
  <2> QED BY <1>10, <1>11, NatInd
<1>13. step \in [0..N -> S]
  <2>1. \A n \in 0..N : step[n] \in S
    BY <1>2, <1>12
  <2> QED BY <1>9, <2>1
<1> QED BY <1>1, <1>9, <1>13 DEF N, L, S

\* The events at the given places satisfy the first m conditions, one after
\* the other.
Satisfied(r, events, m, at) ==
  /\ at \in [1..m -> DOMAIN events]
  /\ \A i, j \in 1..m : i < j => at[i] < at[j]
  /\ \A i \in 1..m : events[at[i]].kind \in RuleOf[r].conditions[i]

\* The conditions that have been taken are satisfied.
LEMMA TakenSatisfied ==
  ASSUME NEW r \in Rules, NEW events \in Seq(Event),
         NEW step \in [0..Len(events) -> 0..Len(RuleOf[r].conditions)],
         step[0] = 0,
         \A n \in 1..Len(events) : step[n] = Advance(r, step[n - 1], events[n])
  PROVE  \E at : Satisfied(r, events, step[Len(events)], at)
<1> DEFINE N == Len(events)
           L == Len(RuleOf[r].conditions)
           P == {n \in Nat : n <= N =>
                   \E at : Satisfied(r, events, step[n], at)
                           /\ \A i \in 1..step[n] : at[i] <= n}
<1>1. N \in Nat /\ L \in Nat /\ DOMAIN events = 1..N
  BY RuleAssumption DEF Rule
<1>2. /\ step \in [0..N -> 0..L]
      /\ \A n \in 1..N : step[n] = Advance(r, step[n - 1], events[n])
  OBVIOUS
<1> HIDE DEF N, L
<1>3. 0 \in P
  <2> DEFINE at == [i \in 1..0 |-> 1]
  <2>1. 1..0 = {}
    OBVIOUS
  <2>2. Satisfied(r, events, 0, at) /\ \A i \in 1..0 : at[i] <= 0
    BY <2>1 DEF Satisfied
  <2> HIDE DEF at
  <2> QED BY <2>2
<1>4. ASSUME NEW n \in Nat, n \in P
      PROVE  n + 1 \in P
  <2> SUFFICES ASSUME n + 1 <= N
               PROVE  \E at : /\ Satisfied(r, events, step[n + 1], at)
                              /\ \A i \in 1..step[n + 1] : at[i] <= n + 1
    OBVIOUS
  <2>1. PICK at : /\ Satisfied(r, events, step[n], at)
                  /\ \A i \in 1..step[n] : at[i] <= n
    BY <1>1, <1>4
  <2>2. /\ n + 1 \in 1..N /\ (n + 1) - 1 = n /\ n \in 0..N
        /\ step[n] \in 0..L /\ step[n] \in Nat
        /\ step[n + 1] = Advance(r, step[n], events[n + 1])
    BY <1>1, <1>2
  <2> DEFINE m == step[n]
             k == n + 1
  <2>3. CASE step[n + 1] = m
    <3>1. \A i \in 1..m : at[i] \in Nat
      BY <1>1, <2>1 DEF Satisfied
    <3>2. \A i \in 1..m : at[i] <= n + 1
      BY <2>1, <3>1
    <3> QED BY <2>1, <2>3, <3>2
  <2>4. CASE step[n + 1] # m
    <3>1. /\ m < L /\ step[n + 1] = m + 1
          /\ events[k].kind \in RuleOf[r].conditions[m + 1]
      BY <2>2, <2>4 DEF Advance, L
    <3> DEFINE more == [i \in 1..(m + 1) |-> IF i = m + 1 THEN k ELSE at[i]]
    <3> HIDE DEF m, k
    <3>2. /\ m \in Nat /\ k \in 1..N
          /\ \A i \in 1..(m + 1) : i = m + 1 \/ (i \in 1..m /\ i # m + 1)
      BY <2>2 DEF m, k
    <3>3. /\ more \in [1..(m + 1) -> DOMAIN events]
          /\ more[m + 1] = k /\ \A i \in 1..m : more[i] = at[i]
      <4>1. \A i \in 1..m : at[i] \in DOMAIN events
        BY <2>1 DEF Satisfied, m
      <4>2. m + 1 \in 1..(m + 1) /\ \A i \in 1..m : i \in 1..(m + 1) /\ i # m + 1
        BY <3>2
      <4>3. \A i \in 1..(m + 1) : (IF i = m + 1 THEN k ELSE at[i]) \in DOMAIN events
        BY <1>1, <3>2, <4>1
      <4> QED BY <4>2, <4>3
    <3> HIDE DEF more
    <3>4. \A i \in 1..m : at[i] \in 1..N /\ at[i] <= n /\ more[i] < k
      <4>1. \A i \in 1..m : at[i] \in 1..N /\ at[i] <= n
        BY <1>1, <2>1 DEF Satisfied, m
      <4> QED BY <1>1, <3>3, <4>1 DEF k
    <3>5. \A i, j \in 1..(m + 1) : i < j => more[i] < more[j]
      <4> SUFFICES ASSUME NEW i \in 1..(m + 1), NEW j \in 1..(m + 1), i < j
                   PROVE  more[i] < more[j]
        OBVIOUS
      <4>1. i \in 1..m
        BY <3>2
      <4>2. CASE j = m + 1
        BY <3>3, <3>4, <4>1, <4>2
      <4>3. CASE j \in 1..m
        BY <2>1, <3>3, <4>1, <4>3 DEF Satisfied, m
      <4> QED BY <3>2, <4>2, <4>3
    <3>6. \A i \in 1..(m + 1) : events[more[i]].kind \in RuleOf[r].conditions[i]
      BY <2>1, <3>1, <3>2, <3>3 DEF Satisfied, m
    <3>7. Satisfied(r, events, m + 1, more)
      BY <3>3, <3>5, <3>6 DEF Satisfied
    <3>8. \A i \in 1..(m + 1) : more[i] <= k
      <4>1. k \in Nat
        BY <1>1, <3>2
      <4>2. \A i \in 1..m : more[i] \in Nat
        BY <3>3, <3>4, <1>1
      <4> QED BY <3>2, <3>3, <3>4, <4>1, <4>2
    <3> QED BY <3>1, <3>7, <3>8 DEF k
  <2> QED BY <2>3, <2>4
<1>5. Nat \subseteq P
  <2> HIDE DEF P
  <2> QED BY <1>3, <1>4, NatInd
<1>6. N \in P /\ N <= N
  BY <1>1, <1>5
<1> QED BY <1>6 DEF N

\* Taken greedily, no condition comes later than in any other way to satisfy
\* them all.
LEMMA GreedyIsFirst ==
  ASSUME NEW r \in Rules, NEW events \in Seq(Event),
         NEW step \in [0..Len(events) -> 0..Len(RuleOf[r].conditions)],
         step[0] = 0,
         \A n \in 1..Len(events) : step[n] = Advance(r, step[n - 1], events[n]),
         NEW at, Satisfied(r, events, Len(RuleOf[r].conditions), at)
  PROVE  step[Len(events)] = Len(RuleOf[r].conditions)
<1> DEFINE N == Len(events)
           L == Len(RuleOf[r].conditions)
           Grows == {p \in Nat : p <= N => \A n \in 0..p : step[n] <= step[p]}
           IsAhead(j) == j \in 1..L => step[at[j]] >= j
           Ahead == {j \in Nat : IsAhead(j)}
<1>1. N \in Nat /\ L \in Nat /\ DOMAIN events = 1..N
  BY RuleAssumption DEF Rule
<1>2. /\ step \in [0..N -> 0..L]
      /\ \A n \in 1..N : step[n] = Advance(r, step[n - 1], events[n])
  OBVIOUS
<1>3. /\ \A i \in 1..L : at[i] \in 1..N
      /\ \A i, j \in 1..L : i < j => at[i] < at[j]
      /\ \A i \in 1..L : events[at[i]].kind \in RuleOf[r].conditions[i]
  BY <1>1 DEF Satisfied
<1>4. \A n \in 1..N, m \in 0..L :
        /\ m <= Advance(r, m, events[n])
        /\ m < L /\ events[n].kind \in RuleOf[r].conditions[m + 1] =>
             Advance(r, m, events[n]) = m + 1
  <2> HIDE DEF N
  <2> QED BY <1>1 DEF Advance
<1> HIDE DEF N, L
<1>5. \A n \in 0..N : step[n] \in 0..L /\ step[n] \in Nat
  BY <1>1, <1>2
<1>6. \A n, p \in 0..N : n <= p => step[n] <= step[p]
  <2>1. 0 \in Grows
    <3>1. step[0] <= step[0] /\ 0..0 = {0}
      BY <1>1, <1>5
    <3> QED BY <3>1
  <2>2. ASSUME NEW p \in Nat, p \in Grows
        PROVE  p + 1 \in Grows
    <3> SUFFICES ASSUME p + 1 <= N, NEW n \in 0..(p + 1) PROVE step[n] <= step[p + 1]
      OBVIOUS
    <3>1. /\ p \in 0..N /\ p + 1 \in 1..N /\ p + 1 \in 0..N /\ (p + 1) - 1 = p
          /\ n \in 0..N /\ (n = p + 1 \/ n \in 0..p) /\ p <= N
      BY <1>1
    <3>2. step[p] <= step[p + 1]
      BY <1>2, <1>4, <1>5, <3>1
    <3>3. CASE n = p + 1
      BY <1>5, <3>1, <3>3
    <3>4. CASE n \in 0..p
      <4>1. step[n] <= step[p]
        BY <2>2, <3>1, <3>4
      <4> QED BY <1>5, <3>1, <3>2, <4>1
    <3> QED BY <3>1, <3>3, <3>4
  <2>3. Nat \subseteq Grows
    <3> HIDE DEF Grows
    <3> QED BY <2>1, <2>2, NatInd
  <2> QED BY <1>1, <2>3
<1>7. Nat \subseteq Ahead
  <2>1. 0 \in Ahead
    OBVIOUS
  <2>2. ASSUME NEW j \in Nat, j \in Ahead
        PROVE  IsAhead(j + 1)
    <3> SUFFICES ASSUME j + 1 \in 1..L PROVE step[at[j + 1]] >= j + 1
      OBVIOUS
    <3> DEFINE p == at[j + 1]
    <3>1. /\ p \in 1..N /\ p - 1 \in 0..N /\ p \in 0..N
          /\ step[p] = Advance(r, step[p - 1], events[p])
          /\ events[p].kind \in RuleOf[r].conditions[j + 1]
      <4>1. p \in 1..N /\ events[p].kind \in RuleOf[r].conditions[j + 1]
        BY <1>3
      <4> HIDE DEF p
      <4>2. p - 1 \in 0..N /\ p \in 0..N
        BY <1>1, <4>1
      <4> QED BY <1>2, <4>1, <4>2
    <3>2. step[p - 1] >= j
      <4>1. CASE j = 0
        BY <1>5, <3>1, <4>1
      <4>2. CASE j # 0
        <5>1. j \in 1..L /\ j < j + 1
          BY <1>1, <4>2
        <5>2. step[at[j]] >= j /\ at[j] < p /\ at[j] \in 1..N
          BY <1>3, <2>2, <5>1
        <5>3. at[j] <= p - 1 /\ at[j] \in 0..N
          BY <1>1, <3>1, <5>2
        <5>4. step[at[j]] <= step[p - 1]
          BY <1>6, <3>1, <5>3
        <5>5. step[at[j]] \in Nat /\ step[p - 1] \in Nat
          BY <1>5, <3>1, <5>3
        <5> QED BY <5>2, <5>4, <5>5
      <4> QED BY <4>1, <4>2
    <3> HIDE DEF p
    <3>3. step[p - 1] \in 0..L /\ step[p] \in 0..L /\ step[p - 1] <= step[p]
      BY <1>4, <1>5, <3>1
    <3>4. CASE step[p - 1] = j
      <4>1. j < L /\ j \in 0..L
        BY <1>1
      <4>2. step[p] = j + 1
        BY <1>4, <3>1, <3>4, <4>1
      <4> QED BY <4>2 DEF p
    <3>5. CASE step[p - 1] # j
      BY <1>1, <3>2, <3>3, <3>5 DEF p
    <3> QED BY <3>4, <3>5
  <2>3. \A j \in Nat : j \in Ahead => j + 1 \in Ahead
    <3> HIDE DEF IsAhead
    <3> QED BY <2>2
  <2> HIDE DEF Ahead
  <2> QED BY <2>1, <2>3, NatInd
<1>8. N \in 0..N /\ step[N] \in 0..L
  BY <1>1, <1>5
<1>9. CASE L = 0
  BY <1>8, <1>9 DEF N, L
<1>10. CASE L # 0
  <2>1. L \in 1..L
    BY <1>1, <1>10
  <2>2. step[at[L]] >= L /\ at[L] \in 0..N /\ at[L] <= N
    BY <1>1, <1>3, <1>7, <2>1
  <2>3. step[at[L]] <= step[N]
    BY <1>6, <1>8, <2>2
  <2>4. step[N] = L
    BY <1>1, <1>5, <1>8, <2>2, <2>3
  <2> QED BY <2>4 DEF N, L
<1> QED BY <1>9, <1>10

\* A sequence rule fires exactly when some of the events satisfy its
\* conditions one after the other.
LEMMA SequenceFindsPattern ==
  ASSUME NEW r \in Rules, NEW events \in Seq(Event), RuleOf[r].mode # "threshold"
  PROVE  EvaluateSequence(events, r) <=> Pattern(r, events)
<1> DEFINE N == Len(events)
           L == Len(RuleOf[r].conditions)
<1>1. DOMAIN RuleOf[r].conditions = 1..L
  BY RuleAssumption DEF Rule
<1>2. Pattern(r, events) <=> \E at : Satisfied(r, events, L, at)
  BY <1>1 DEF Pattern, Satisfied
<1>3. PICK step \in [0..N -> 0..L] :
        /\ step[0] = 0
        /\ \A n \in 1..N : step[n] = Advance(r, step[n - 1], events[n])
        /\ EvaluateSequence(events, r) <=> step[N] = L
  BY StepsTaken
<1>4. ASSUME step[N] = L
      PROVE  \E at : Satisfied(r, events, L, at)
  <2>1. \E at : Satisfied(r, events, step[N], at)
    BY <1>3, TakenSatisfied
  <2> QED BY <1>4, <2>1
<1>5. ASSUME NEW at, Satisfied(r, events, L, at)
      PROVE  step[N] = L
  BY <1>3, <1>5, GreedyIsFirst
<1> QED BY <1>2, <1>3, <1>4, <1>5

-----------------------------------------------------------------------------
(* Soundness of matches *)

\* A window holds events of its group and time, and no pattern.
SoundWindow(r, g, w) ==
  /\ ~Pattern(r, w.events)
  /\ \A n \in DOMAIN w.events :
       /\ WithinWindow(w.started, w.events[n].time, RuleOf[r].seconds)
       /\ w.events[n].group = g

WindowsSound == \A r \in Rules, g \in Groups : SoundWindow(r, g, state[<<r, g>>])

SoundInv == TypeOK /\ WindowsSound /\ MatchesAreSound

\* No events are no pattern.
LEMMA NoEventsNoPattern ==
  ASSUME NEW r \in Rules
  PROVE  ~Pattern(r, <<>>)
<1>1. DOMAIN <<>> = {}
  OBVIOUS
<1>2. CASE RuleOf[r].mode = "threshold"
  <2>1. RuleOf[r].threshold # 0
    BY RuleAssumption DEF Rule
  <2>2. \A chosen \in SUBSET {} : Cardinality(chosen) = 0
    BY FS_EmptySet
  <2> QED BY <1>1, <1>2, <2>1, <2>2 DEF Pattern
<1>3. CASE RuleOf[r].mode # "threshold"
  <2>1. /\ RuleOf[r].conditions # <<>>
        /\ RuleOf[r].conditions \in Seq(SUBSET Kinds)
    BY <1>3, RuleAssumption DEF Rule
  <2>2. 1 \in DOMAIN RuleOf[r].conditions
    BY <2>1
  <2> QED BY <1>1, <1>3, <2>2 DEF Pattern
<1> QED BY <1>2, <1>3

\* The window that an event falls into, with the event: it is sound but for
\* the pattern, on which the rule fires.
LEMMA CollectedSound ==
  ASSUME TypeOK, WindowsSound, NEW r \in Rules, NEW e \in Event
  PROVE  LET w == CurrentWindow(r, e)
             c == Collected(r, e)
         IN  /\ SoundWindow(r, e.group, w)
             /\ w.events \in Seq(Event) /\ c.events = Append(w.events, e)
             /\ c.started = w.started /\ c.started \in Nat
             /\ \A n \in DOMAIN c.events :
                  /\ c.events[n] \in Event
                  /\ WithinWindow(c.started, c.events[n].time, RuleOf[r].seconds)
                  /\ c.events[n].group = e.group
             /\ Fires(r, e) <=> Collects(r, e) /\ Pattern(r, c.events)
<1> DEFINE w == CurrentWindow(r, e)
           c == Collected(r, e)
           old == state[<<r, e.group>>]
           fresh == [started |-> e.time, events |-> <<>>, open |-> TRUE]
           s == RuleOf[r].seconds
<1>1. e.group \in Groups /\ e.time \in 0..MaxTime /\ MaxTime \in Nat /\ s \in Nat
  BY TimeAssumption, RuleAssumption DEF Event, Rule
<1>2. w \in Window /\ w.events \in Seq(Event) /\ w.started \in Nat
  <2>1. w \in Window
    BY CurrentWindowEvidence
  <2> HIDE DEF w
  <2> QED BY <1>1, <2>1 DEF Window
<1>3. /\ SoundWindow(r, e.group, w)
      /\ WithinWindow(w.started, e.time, s)
  <2>1. CASE old.open /\ WithinWindow(old.started, e.time, s)
    <3>1. w = old
      BY <2>1 DEF CurrentWindow
    <3> QED BY <1>1, <2>1, <3>1 DEF WindowsSound
  <2>2. CASE ~(old.open /\ WithinWindow(old.started, e.time, s))
    <3>1. w = fresh
      BY <2>2 DEF CurrentWindow
    <3>2. w.started = e.time /\ w.events = <<>> /\ DOMAIN <<>> = {}
      BY <3>1
    <3>3. SoundWindow(r, e.group, w)
      BY <3>2, NoEventsNoPattern DEF SoundWindow
    <3>4. WithinWindow(e.time, e.time, s)
      BY <1>1 DEF WithinWindow
    <3> QED BY <3>2, <3>3, <3>4
  <2> QED BY <2>1, <2>2
<1> HIDE DEF w, s
<1>4. c.events = Append(w.events, e) /\ c.started = w.started
  BY <1>2 DEF Collected, w, Window
<1> HIDE DEF c
<1>5. ASSUME NEW n \in DOMAIN c.events
      PROVE  /\ c.events[n] \in Event
             /\ WithinWindow(c.started, c.events[n].time, s)
             /\ c.events[n].group = e.group
  <2>1. /\ Len(w.events) \in Nat /\ DOMAIN c.events = 1..(Len(w.events) + 1)
        /\ DOMAIN w.events = 1..Len(w.events)
        /\ c.events[Len(w.events) + 1] = e
        /\ \A i \in 1..Len(w.events) : c.events[i] = w.events[i] /\ w.events[i] \in Event
    BY <1>2, <1>4
  <2>2. CASE n = Len(w.events) + 1
    BY <1>3, <1>4, <2>1, <2>2
  <2>3. CASE n # Len(w.events) + 1
    <3>1. n \in 1..Len(w.events)
      BY <2>1, <2>3
    <3> QED BY <1>3, <1>4, <2>1, <3>1 DEF SoundWindow, s
  <2> QED BY <2>2, <2>3
<1>6. Fires(r, e) <=> Collects(r, e) /\ Pattern(r, c.events)
  <2>1. c.events \in Seq(Event)
    BY <1>2, <1>4
  <2> QED BY <2>1, ThresholdFindsPattern, SequenceFindsPattern DEF Fires, c
<1> QED BY <1>2, <1>3, <1>4, <1>5, <1>6 DEF w, c, s

\* Every step keeps windows and matches sound.
LEMMA SoundStep == SoundInv /\ [Next]_vars => SoundInv'
<1> SUFFICES ASSUME SoundInv, [Next]_vars PROVE SoundInv'
  OBVIOUS
<1>1. TypeOK /\ WindowsSound /\ MatchesAreSound /\ TypeOK'
  BY TypeInductive DEF SoundInv
<1>2. ASSUME NEW e \in Event, Evaluate(e)
      PROVE  WindowsSound' /\ MatchesAreSound'
  <2>1. e.group \in Groups
    BY DEF Event
  <2>2. WindowsSound'
    <3> SUFFICES ASSUME NEW r \in Rules, NEW g \in Groups
                 PROVE  SoundWindow(r, g, state'[<<r, g>>])
      BY DEF WindowsSound
    <3>1. state'[<<r, g>>] = IF g = e.group THEN NextWindow(r, e) ELSE state[<<r, g>>]
      BY <1>2 DEF Evaluate
    <3>2. CASE g # e.group
      BY <1>1, <3>1, <3>2 DEF WindowsSound
    <3>3. CASE g = e.group
      <4>1. CASE Fires(r, e)
        <5>1. state'[<<r, g>>] = NoWindow /\ NoWindow.events = <<>> /\ DOMAIN <<>> = {}
          BY <3>1, <3>3, <4>1 DEF NextWindow, NoWindow
        <5> QED BY <5>1, NoEventsNoPattern DEF SoundWindow
      <4>2. CASE ~Fires(r, e) /\ Collects(r, e)
        <5>1. state'[<<r, g>>] = Collected(r, e)
          BY <3>1, <3>3, <4>2 DEF NextWindow
        <5> QED BY <1>1, <3>3, <4>2, <5>1, CollectedSound DEF SoundWindow
      <4>3. CASE ~Fires(r, e) /\ ~Collects(r, e)
        <5>1. state'[<<r, g>>] = CurrentWindow(r, e)
          BY <3>1, <3>3, <4>3 DEF NextWindow
        <5> QED BY <1>1, <3>3, <5>1, CollectedSound
      <4> QED BY <4>1, <4>2, <4>3
    <3> QED BY <3>2, <3>3
  <2>3. MatchesAreSound'
    <3> SUFFICES ASSUME NEW m \in matches'
                 PROVE  /\ \A n \in DOMAIN m.events : m.events[n].group = m.group
                        /\ WithinSeconds(m.events, RuleOf[m.rule].seconds)
                        /\ Pattern(m.rule, m.events)
                        /\ ~Pattern(m.rule, Front(m.events))
      BY DEF MatchesAreSound
    <3>1. CASE m \in matches
      BY <1>1, <3>1 DEF MatchesAreSound
    <3>2. CASE m \notin matches
      <4>1. PICK r \in Rules :
              /\ Fires(r, e)
              /\ m = [rule |-> r, group |-> e.group, events |-> Collected(r, e).events]
        BY <1>2, <3>2 DEF Evaluate
      <4> DEFINE w == CurrentWindow(r, e)
                 c == Collected(r, e)
                 s == RuleOf[r].seconds
      <4>2. m.rule = r /\ m.group = e.group /\ m.events = c.events
        BY <4>1
      <4>3. /\ ~Pattern(r, w.events) /\ w.events \in Seq(Event)
            /\ c.events = Append(w.events, e) /\ c.started \in Nat
            /\ \A n \in DOMAIN c.events :
                 /\ c.events[n] \in Event
                 /\ WithinWindow(c.started, c.events[n].time, s)
                 /\ c.events[n].group = e.group
            /\ Pattern(r, c.events)
        BY <1>1, <4>1, CollectedSound DEF SoundWindow
      <4> HIDE DEF w, c
      <4>4. Front(c.events) = w.events
        <5>1. /\ Len(c.events) = Len(w.events) + 1 /\ Len(w.events) \in Nat
              /\ \A i \in 1..Len(w.events) : c.events[i] = w.events[i]
          BY <4>3
        <5>2. w.events = [i \in 1..Len(w.events) |-> w.events[i]]
          BY <4>3
        <5>3. Front(c.events) = [i \in 1..Len(w.events) |-> c.events[i]]
          BY <5>1 DEF Front
        <5> QED BY <5>1, <5>2, <5>3
      <4>5. WithinSeconds(c.events, s)
        <5> SUFFICES ASSUME NEW i \in DOMAIN c.events, NEW j \in DOMAIN c.events
                     PROVE  c.events[i].time - c.events[j].time <= s
          BY DEF WithinSeconds
        <5>1. \A x \in Event : x.time \in Nat
          BY TimeAssumption DEF Event
        <5>2. s \in Nat
          BY RuleAssumption DEF Rule
        <5> HIDE DEF s
        <5>3. /\ c.events[i].time \in Nat /\ c.events[j].time \in Nat
              /\ WithinWindow(c.started, c.events[i].time, s)
              /\ WithinWindow(c.started, c.events[j].time, s)
          BY <4>3, <5>1
        <5>4. ASSUME NEW a \in Nat, NEW b \in Nat, NEW d \in Nat,
                     WithinWindow(d, a, s), WithinWindow(d, b, s)
              PROVE  a - b <= s
          BY <5>2, <5>4 DEF WithinWindow
        <5>5. c.started \in Nat
          BY <4>3
        <5> QED BY <5>3, <5>4, <5>5
      <4> QED BY <4>2, <4>3, <4>4, <4>5
    <3> QED BY <3>1, <3>2
  <2> QED BY <2>2, <2>3
<1>3. CASE UNCHANGED vars
  <2>1. WindowsSound' /\ MatchesAreSound'
    BY <1>1, <1>3 DEF vars, WindowsSound, MatchesAreSound
  <2> QED BY <1>1, <2>1 DEF SoundInv
<1> QED BY <1>1, <1>2, <1>3 DEF Next, EvaluateNext, EvaluateAgain, SoundInv

LEMMA SoundInit == Init => SoundInv
<1> SUFFICES ASSUME Init PROVE SoundInv
  OBVIOUS
<1>1. 0 \in 0..MaxTime
  BY TimeAssumption
<1>2. NoWindow \in Window /\ NoWindow.events = <<>> /\ DOMAIN <<>> = {}
  BY <1>1 DEF NoWindow, Window
<1>3. TypeOK /\ MatchesAreSound
  BY <1>2 DEF Init, TypeOK, MatchesAreSound
<1>4. WindowsSound
  BY <1>2, NoEventsNoPattern DEF Init, WindowsSound, SoundWindow
<1> QED BY <1>3, <1>4 DEF SoundInv

\* Every match contains the pattern of its rule, within the time of the rule
\* and one group, and has it only since its last event.
THEOREM MatchesSound == Spec => []MatchesAreSound
<1>1. SoundInv => MatchesAreSound
  BY DEF SoundInv
<1> QED BY <1>1, SoundInit, SoundStep, PTL DEF Spec

\* No window that is open holds a pattern: the greedy scan of a sequence and
\* the count of a threshold miss none.
THEOREM NothingPending == Spec => []NoPatternPending
<1>1. SoundInv => NoPatternPending
  BY DEF SoundInv, WindowsSound, SoundWindow, NoPatternPending
<1> QED BY <1>1, SoundInit, SoundStep, PTL DEF Spec
=============================================================================
