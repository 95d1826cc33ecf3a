--------------------------- MODULE DetectionEngine ---------------------------
(***************************************************************************)
(* The detection engine of one worker: it evaluates an event against the   *)
(* rules, each match passing through the suppression guard, and against    *)
(* the detector plugins.  evaluate is synchronous: one action.  Time is    *)
(* the clock that the guard reads.                                         *)
(***************************************************************************)
EXTENDS Integers, FiniteSets

CONSTANTS
  DetectionRules, Plugins,
  Events,     \* events, evaluated any number of times
  MatchedBy,  \* the rules each event matches
  Outcomes,   \* what a plugin may do: no result, a result, raise, or
              \* return what DetectionResult does not validate
  Ttl,        \* suppression lifetime (60 s)
  MaxNow      \* bound: the clock

ASSUME MatchAssumption == MatchedBy \in [Events -> SUBSET DetectionRules]
ASSUME OutcomeAssumption == Outcomes \subseteq {"none", "match", "raises", "invalid"}
ASSUME TtlAssumption == Ttl \in Nat \ {0} /\ MaxNow \in Nat

VARIABLES
  now,
  entries,   \* DetectionSuppression._entries, as [rule, event, expires]
  returned,  \* what the latest evaluation returned, or that it raised
  passed,    \* history: unsuppressed rule results returned so far
  withheld   \* history: those of evaluations that raised and returned none

detectionVars == <<now, entries, returned, passed, withheld>>

Entry == [rule: DetectionRules, event: Events, expires: 0..(MaxNow + Ttl)]

RuleResult == [rule: DetectionRules, event: Events, suppressed: BOOLEAN]

\* Entries and results have their types, and the guard has at most one entry
\* for a rule and an event.
DetectionTypeOK ==
  /\ now \in 0..MaxNow
  /\ entries \subseteq Entry
  /\ \A x, y \in entries : x.rule = y.rule /\ x.event = y.event => x = y
  /\ returned \in [event: SUBSET Events, at: 0..MaxNow, raised: BOOLEAN,
                   rules: SUBSET RuleResult, plugins: SUBSET Plugins]
  /\ passed \cup withheld \subseteq [rule: DetectionRules, event: Events, at: 0..MaxNow]

DetectionInit ==
  /\ now = 0
  /\ entries = {}
  /\ returned = [event |-> {}, at |-> 0, raised |-> FALSE, rules |-> {}, plugins |-> {}]
  /\ passed = {} /\ withheld = {}

Tick ==
  /\ now < MaxNow
  /\ now' = now + 1
  /\ UNCHANGED <<entries, returned, passed, withheld>>

\* Mutant: expires one moment early.
SuppressedShort(r, e) ==
  \E x \in entries : x.rule = r /\ x.event = e /\ x.expires > now + 1

\* Mutant: the key of an entry is the rule alone.
SuppressedByRule(r, e) == e \in Events /\ \E x \in entries : x.rule = r /\ x.expires > now

\* is_suppressed; an entry that expires at this moment no longer counts.
IsSuppressed(r, e) ==
  \E x \in entries : x.rule = r /\ x.event = e /\ x.expires > now

RuleResults(e) ==
  {[rule |-> r, event |-> e, suppressed |-> IsSuppressed(r, e)] : r \in MatchedBy[e]}

\* Mutant: an expired entry is not replaced.
EntriesPiledUp(e) ==
  entries \cup {[rule |-> r, event |-> e, expires |-> now + Ttl] :
                  r \in {q \in MatchedBy[e] : ~IsSuppressed(q, e)}}

\* is_suppressed pops an expired entry it meets, and a match that passes is
\* entered for the next Ttl seconds.  No other entry is touched.
EntriesAfter(e) ==
  LET passing == {r \in MatchedBy[e] : ~IsSuppressed(r, e)}
  IN  {x \in entries : ~(x.event = e /\ x.rule \in passing)}
        \cup {[rule |-> r, event |-> e, expires |-> now + Ttl] : r \in passing}

\* The call of a plugin is guarded, the validation of what it returns is not:
\* it ends the evaluation, whose rules have been entered already.
DetectionEvaluate(e, outcome) ==
  LET raised == \E p \in Plugins : outcome[p] = "invalid"
      passing == {[rule |-> x.rule, event |-> e, at |-> now] :
                    x \in {y \in RuleResults(e) : ~y.suppressed}}
  IN  /\ entries' = EntriesAfter(e)
      /\ returned' =
           [event |-> {e}, at |-> now, raised |-> raised,
            rules |-> IF raised THEN {} ELSE RuleResults(e),
            plugins |-> IF raised THEN {} ELSE {p \in Plugins : outcome[p] = "match"}]
      /\ passed' = IF raised THEN passed ELSE passed \cup passing
      /\ withheld' = IF raised THEN withheld \cup passing ELSE withheld
      /\ UNCHANGED now

DetectionNext ==
  \/ Tick
  \/ \E e \in Events, outcome \in [Plugins -> Outcomes] : DetectionEvaluate(e, outcome)

DetectionSpec == DetectionInit /\ [][DetectionNext]_detectionVars

-----------------------------------------------------------------------------
(* Properties *)

PassesAreSpaced ==
  \A x \in passed' \ passed : \A y \in passed :
    x.rule = y.rule /\ x.event = y.event => x.at >= y.at + Ttl

\* Two results that pass the guard for one rule and event are a lifetime
\* apart, also when the second comes at the very moment the entry expires.
RepeatsAreSpaced == [][PassesAreSpaced]_detectionVars

\* The guard hides nothing for good, and nothing of another event or rule: what
\* it suppresses passed less than a lifetime ago, or would have if the result of
\* a plugin had not ended that evaluation.
SuppressedPassedBefore ==
  \A x \in returned.rules : x.suppressed =>
    \E y \in passed \cup withheld : /\ y.rule = x.rule /\ y.event = x.event
                                    /\ returned.at < y.at + Ttl
=============================================================================
