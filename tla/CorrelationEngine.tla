-------------------------- MODULE CorrelationEngine --------------------------
(***************************************************************************)
(* The correlation engine of one worker: a window of collected events for  *)
(* every rule and group, threshold and sequence rules evaluated on it, and *)
(* the consumption of a window once it matches.                            *)
(*                                                                         *)
(* evaluate is synchronous and takes one event through all enabled rules:  *)
(* it is one action.  Events arrive in any order of their timestamps.  The *)
(* fields that conditions look at are abstracted to the kind of an event;  *)
(* a condition is the set of kinds that satisfy it.                        *)
(*                                                                         *)
(* The worker evaluates an event again when the alerts of its matches have *)
(* raised: the attempt is repeated, on the windows the first evaluation    *)
(* has left.  The turn of an event numbers its evaluations.                *)
(***************************************************************************)
EXTENDS Integers, FiniteSets, SequencesExt

CONSTANTS
  Rules,        \* the enabled rules, with their RuleOf: [mode, seconds,
  RuleOf,       \*   threshold, conditions]
  Groups,       \* values of the group_by fields
  Kinds,        \* what the conditions can tell apart
  MaxTime,      \* bound: timestamps
  MaxTurns,     \* attempts at an event: RetryPolicy.max_attempts (3)
  MaxEvents     \* bound: events evaluated

Rule ==
  [mode: {"threshold", "sequence"}, seconds: Nat \ {0}, threshold: Nat \ {0},
   conditions: Seq(SUBSET Kinds)]

ASSUME RuleAssumption ==
  /\ RuleOf \in [Rules -> Rule]
  /\ \A r \in Rules : RuleOf[r].mode = "sequence" => RuleOf[r].conditions # <<>>
ASSUME TimeAssumption ==
  MaxTime \in Nat /\ MaxEvents \in Nat /\ MaxTurns \in Nat \ {0}

Event ==
  [id: 1..MaxEvents, turn: 1..MaxTurns, time: 0..MaxTime, group: Groups, kind: Kinds]

VARIABLES
  state,      \* _state: the open window of each rule and group
  evaluated,  \* history: the evaluations so far
  matches     \* history: the CorrelationResults, [rule, group, events]

vars == <<state, evaluated, matches>>

\* No window is open.
NoWindow == [started |-> 0, events |-> <<>>, open |-> FALSE]

Window == [started: 0..MaxTime, events: Seq(Event), open: BOOLEAN]

\* Windows and results have their types.
TypeOK ==
  /\ state \in [Rules \X Groups -> Window]
  /\ evaluated \in Seq(Event)
  /\ matches \subseteq [rule: Rules, group: Groups, events: Seq(Event)]

Init ==
  /\ state = [key \in Rules \X Groups |-> NoWindow]
  /\ evaluated = <<>>
  /\ matches = {}

-----------------------------------------------------------------------------
(* Rule evaluation *)

\* Mutant: an event older than the start of the window is inside it.
WithinWindowLate(start, current, seconds) == current - start <= seconds

\* An event older than the start of the window is outside it, too.
WithinWindow(start, current, seconds) ==
  current >= start /\ current - start <= seconds

MatchesAll(e, r) == \A c \in Range(RuleOf[r].conditions) : e.kind \in c

Matching(events, r) == {n \in DOMAIN events : MatchesAll(events[n], r)}

\* Mutant: fires only above the threshold.
AboveThreshold(events, r) == Cardinality(Matching(events, r)) > RuleOf[r].threshold

EvaluateThreshold(events, r) ==
  Cardinality(Matching(events, r)) >= RuleOf[r].threshold

\* The index of the next condition moves on with an event that satisfies it.
Advance(r, step, e) ==
  IF step < Len(RuleOf[r].conditions) /\ e.kind \in RuleOf[r].conditions[step + 1]
  THEN step + 1 ELSE step

EvaluateSequence(events, r) ==
  LET step[n \in 0..Len(events)] ==
        IF n = 0 THEN 0 ELSE Advance(r, step[n - 1], events[n])
  IN  step[Len(events)] = Len(RuleOf[r].conditions)

\* Mutant: a window remembers when it ends.
DeadlineWindow(r, e) ==
  LET w == state[<<r, e.group>>]
  IN  IF w.open /\ e.time <= w.started THEN w
      ELSE [started |-> e.time + RuleOf[r].seconds, events |-> <<>>, open |-> TRUE]

\* The window the event falls into: the open one, or a new one that the event
\* starts, whether or not the rule is interested in the event.
CurrentWindow(r, e) ==
  LET w == state[<<r, e.group>>]
  IN  IF w.open /\ WithinWindow(w.started, e.time, RuleOf[r].seconds)
      THEN w
      ELSE [started |-> e.time, events |-> <<>>, open |-> TRUE]

Collects(r, e) == RuleOf[r].mode = "sequence" \/ MatchesAll(e, r)

Collected(r, e) ==
  [CurrentWindow(r, e) EXCEPT !.events = Append(CurrentWindow(r, e).events, e)]

Fires(r, e) ==
  /\ Collects(r, e)
  /\ IF RuleOf[r].mode = "threshold"
     THEN EvaluateThreshold(Collected(r, e).events, r)
     ELSE EvaluateSequence(Collected(r, e).events, r)

\* Mutant: a match does not consume its window.
KeptWindow(r, e) ==
  IF Collects(r, e) THEN Collected(r, e) ELSE CurrentWindow(r, e)

NextWindow(r, e) ==
  IF Fires(r, e) THEN NoWindow
  ELSE IF Collects(r, e) THEN Collected(r, e)
  ELSE CurrentWindow(r, e)

Evaluate(e) ==
  /\ evaluated' = Append(evaluated, e)
  /\ state' = [key \in Rules \X Groups |->
                 IF key[2] = e.group THEN NextWindow(key[1], e) ELSE state[key]]
  /\ matches' = matches \cup
       {[rule |-> r, group |-> e.group, events |-> Collected(r, e).events] :
          r \in {q \in Rules : Fires(q, e)}}

\* The evaluation has returned a match.
Completed(e) == \E m \in matches : Last(m.events) = e

\* The next event that the worker takes
EvaluateNext(e) ==
  /\ e.id = (IF evaluated = <<>> THEN 1 ELSE Last(evaluated).id + 1)
  /\ e.turn = 1
  /\ Evaluate(e)

\* The attempt failed after the evaluation: only alerts of its matches can raise.
EvaluateAgain(e) ==
  /\ evaluated # <<>>
  /\ Completed(Last(evaluated))
  /\ e = [Last(evaluated) EXCEPT !.turn = @ + 1]
  /\ Evaluate(e)

Next == \E e \in Event : EvaluateNext(e) \/ EvaluateAgain(e)

Spec == Init /\ [][Next]_vars

-----------------------------------------------------------------------------
(* What a match is, by definition *)

\* Some threshold-many of the events match; some events, in the order they
\* were evaluated, satisfy the conditions one after the other.
Pattern(r, events) ==
  IF RuleOf[r].mode = "threshold"
  THEN \E chosen \in SUBSET DOMAIN events :
         /\ Cardinality(chosen) = RuleOf[r].threshold
         /\ \A n \in chosen : MatchesAll(events[n], r)
  ELSE LET conditions == RuleOf[r].conditions
       IN  \E at \in [DOMAIN conditions -> DOMAIN events] :
             /\ \A m, n \in DOMAIN conditions : m < n => at[m] < at[n]
             /\ \A n \in DOMAIN conditions : events[at[n]].kind \in conditions[n]

WithinSeconds(events, seconds) ==
  \A m, n \in DOMAIN events : events[m].time - events[n].time <= seconds

-----------------------------------------------------------------------------
(* Properties *)

\* Every match is a real one, and fires at its last event and not before: its
\* evidence is from one group and one window, contains the pattern of the
\* rule, and without its last event does not.
MatchesAreSound ==
  \A m \in matches :
    /\ \A n \in DOMAIN m.events : m.events[n].group = m.group
    /\ WithinSeconds(m.events, RuleOf[m.rule].seconds)
    /\ Pattern(m.rule, m.events)
    /\ ~Pattern(m.rule, Front(m.events))

\* No open window holds a pattern that was not reported, whatever stretch of
\* other events lies between, and all it holds is within its time.
NoPatternPending ==
  \A r \in Rules, g \in Groups :
    LET w == state[<<r, g>>]
    IN  /\ ~Pattern(r, w.events)
        /\ \A n \in DOMAIN w.events :
             WithinWindow(w.started, w.events[n].time, RuleOf[r].seconds)

\* x and y are evaluations of one event, the later repeated because the earlier
\* returned a match.
Repeated(x, y) ==
  \/ x.turn < y.turn /\ Completed(x)
  \/ y.turn < x.turn /\ Completed(y)

\* Evidence is consumed: an evaluation of an event is evidence once, in one
\* match of a rule or one window that is open.  An event is evidence twice only
\* when it was evaluated again, and that only after a match.
EvidenceConsumed ==
  \A r \in Rules :
    LET uses == {m.events : m \in {q \in matches : q.rule = r}}
                  \cup {state[<<r, g>>].events : g \in Groups}
    IN  \A s, t \in uses : \A i \in DOMAIN s, j \in DOMAIN t :
          s[i].id = t[j].id => <<s, i>> = <<t, j>> \/ Repeated(s[i], t[j])
=============================================================================
