--------------------------- MODULE IngestionWorker ---------------------------
(***************************************************************************)
(* The ingestion worker: it pops events from the Redis list and carries    *)
(* each one through parsing, persistence, publication, detection, alerting *)
(* and correlation, with bounded retries and a dead-letter queue.          *)
(*                                                                         *)
(* Every await that may fail is a step with a success and a failure; what  *)
(* runs between two awaits is one step.  A BLPOP has two: Redis removes    *)
(* the event, and then the reply arrives and is decoded, or not.  A retry  *)
(* starts again from parsing, on the suppression entries, alerts and       *)
(* correlation window that the failed attempt left behind.  All of these,  *)
(* and the dead-letter queue, are memory of the process; the list is not.  *)
(*                                                                         *)
(* Alerts are kept as AlertRegister has them, one per key, which           *)
(* AlertManager implements.  One correlation rule, in threshold mode, with *)
(* one group stands for correlation; its windows are in CorrelationEngine. *)
(***************************************************************************)
EXTENDS AlertLifecycle, FiniteSets, SequencesExt

CONSTANTS
  Events,           \* raw events the collector sends, each once
  Malformed,        \* events that no parser accepts
  RulesOf,          \* keys of the detection rules each event matches, in order
  PluginsOf,        \* keys of the detector plugins that report on each event,
                    \*   evaluated after the rules
  Evidence,         \* events that match the conditions of the correlation rule
  CorrelationKey,   \* deduplication key of its alerts
  Threshold,        \* events that make a match (5 in repeated-failed-auth)
  MaxAttempts,      \* RetryPolicy.max_attempts (3)
  NoAlert, NoEvent,
  MaxFaults,        \* bound: awaited calls that fail
  MaxCrashes        \* bound: crashes

ASSUME EventAssumption ==
  /\ RulesOf \in [Events -> Seq(Keys)] /\ PluginsOf \in [Events -> Seq(Keys)]
  /\ Malformed \subseteq Events /\ Evidence \subseteq Events
  /\ CorrelationKey \in Keys /\ NoEvent \notin Events /\ NoAlert \notin Alert
\* The registry refuses two rules of one id, and the key of a correlation alert
\* is the hash of other material than that of a detection.
ASSUME KeyAssumption ==
  \A e \in Events : IsInjective(RulesOf[e]) /\ CorrelationKey \notin Range(RulesOf[e])
ASSUME LimitAssumption ==
  /\ {Threshold, MaxAttempts} \subseteq Nat \ {0}
  /\ {MaxFaults, MaxCrashes} \subseteq Nat

VARIABLES
  unsent,       \* events the collector has not pushed yet
  queue,        \* the Redis list
  phase,        \* the await the worker is at
  event,        \* the event that Redis has removed for the worker
  attempt,      \* number of the current attempt
  results,      \* detection results, and how many of them are persisted
  suppressed,   \* live entries of DetectionSuppression
  alerts,       \* the alert of each key
  window,       \* events of the open correlation window
  deadLetters,  \* the in-memory dead-letter queue
  stopping,     \* _stop_event
  faults, crashes,
  fate,         \* history: what became of each event: processed or dead
  slow,         \* history: events whose attempts have outlasted an entry (60 s)
  dropped,      \* history: events that a failing get has taken from the list
  counted       \* history: occurrences each event has added to each key

memory == <<suppressed, alerts, window, deadLetters>>
history == <<fate, dropped, slow, counted>>
vars == <<unsent, queue, phase, event, attempt, results, memory, stopping,
          faults, crashes, history>>

Result == [key: Keys, suppressed: BOOLEAN, rule: BOOLEAN]

\* The state of the worker has its types: attempts stay within max_attempts,
\* and the open correlation window below its threshold.
TypeOK ==
  /\ unsent \subseteq Events
  /\ queue \in Seq(Events)
  /\ phase \in {"looping", "popping", "taken", "backoff", "processing", "saving", "publishing",
                "persisting", "retrying", "exited", "down"}
  /\ event \in Events \cup {NoEvent}
  /\ attempt \in 0..MaxAttempts
  /\ results \in [found: Seq(Result), saved: Nat]
  /\ suppressed \subseteq Keys \X Events
  /\ alerts \in [Keys -> Alert \cup {NoAlert}]
  /\ window \in Seq(Evidence) /\ Len(window) < Threshold
  /\ deadLetters \in Seq(Events)
  /\ stopping \in BOOLEAN
  /\ faults \in 0..MaxFaults /\ crashes \in 0..MaxCrashes
  /\ fate \in [Events -> {"open", "processed", "dead"}]
  /\ {dropped, slow} \subseteq SUBSET Events
  /\ counted \in [Keys -> [Events -> Nat]]

NoResults == [found |-> <<>>, saved |-> 0]

Init ==
  /\ unsent = Events
  /\ queue = <<>>
  /\ phase = "looping"
  /\ event = NoEvent
  /\ attempt = 0
  /\ results = NoResults
  /\ suppressed = {}
  /\ alerts = [k \in Keys |-> NoAlert]
  /\ window = <<>>
  /\ deadLetters = <<>>
  /\ stopping = FALSE
  /\ faults = 0 /\ crashes = 0
  /\ fate = [e \in Events |-> "open"]
  /\ dropped = {} /\ slow = {}
  /\ counted = [k \in Keys |-> [e \in Events |-> 0]]

-----------------------------------------------------------------------------
(* Queue *)

\* Mutant: put pushes at the end that is popped.
EnqueueFirst(e) ==
  /\ e \in unsent
  /\ unsent' = unsent \ {e}
  /\ queue' = <<e>> \o queue
  /\ UNCHANGED <<phase, event, attempt, results, memory, stopping, faults,
                 crashes, history>>

\* RedisEventQueue.put, from the collector process
Enqueue(e) ==
  /\ e \in unsent
  /\ unsent' = unsent \ {e}
  /\ queue' = Append(queue, e)
  /\ UNCHANGED <<phase, event, attempt, results, memory, stopping, faults,
                 crashes, history>>

\* BLPOP has no timeout: with an empty list the worker stays in it.  Redis
\* removes the event before the worker has it.
Take ==
  /\ phase = "popping"
  /\ queue # <<>>
  /\ event' = Head(queue)
  /\ queue' = Tail(queue)
  /\ phase' = "taken"
  /\ UNCHANGED <<unsent, attempt, results, memory, stopping, faults, crashes, history>>

\* The reply has arrived and is a raw event: get returns it to process_one.
GetReturns ==
  /\ phase = "taken"
  /\ phase' = "processing"
  /\ attempt' = 1
  /\ UNCHANGED <<unsent, queue, event, results, memory, stopping, faults,
                 crashes, history>>

Fault == faults < MaxFaults /\ faults' = faults + 1

\* get raises, because the command failed, its reply was lost or the payload
\* is refused, and process_one has not reached its try: the worker loop logs
\* the error and waits retry_delay_seconds or for stop.
GetFails ==
  /\ phase \in {"popping", "taken"}
  /\ Fault
  /\ phase' = "backoff"
  /\ event' = NoEvent
  /\ dropped' = dropped \cup ({event} \ {NoEvent})
  /\ UNCHANGED <<unsent, queue, attempt, results, memory, stopping, crashes,
                 fate, slow, counted>>

\* Mutant: the wait for the stop event has no timeout.
BackoffEndsOnStop ==
  /\ phase = "backoff"
  /\ stopping
  /\ phase' = "looping"
  /\ UNCHANGED <<unsent, queue, event, attempt, results, memory, stopping,
                 faults, crashes, history>>

BackoffEnds ==
  /\ phase = "backoff"
  /\ phase' = "looping"
  /\ UNCHANGED <<unsent, queue, event, attempt, results, memory, stopping,
                 faults, crashes, history>>

-----------------------------------------------------------------------------
(* Retries and outcomes: with_retry, process_one *)

DropInHand ==
  event' = NoEvent /\ attempt' = 0 /\ results' = NoResults

\* Mutant: one retry too many.
AttemptFailsLate ==
  IF attempt <= MaxAttempts
  THEN /\ phase' = "retrying"
       /\ results' = NoResults
       /\ UNCHANGED <<event, attempt, deadLetters, fate>>
  ELSE /\ phase' = "looping"
       /\ deadLetters' = Append(deadLetters, event)
       /\ fate' = [fate EXCEPT ![event] = "dead"]
       /\ DropInHand

\* Mutant: an event whose attempts are used up is dropped.
AttemptFailsDropped ==
  IF attempt < MaxAttempts
  THEN /\ phase' = "retrying"
       /\ results' = NoResults
       /\ UNCHANGED <<event, attempt, deadLetters, fate>>
  ELSE /\ phase' = "looping"
       /\ UNCHANGED <<deadLetters, fate>>
       /\ DropInHand

\* The attempt ends with an exception: wait and retry, or dead-letter.
AttemptFails ==
  IF attempt < MaxAttempts
  THEN /\ phase' = "retrying"
       /\ results' = NoResults
       /\ UNCHANGED <<event, attempt, deadLetters, fate>>
  ELSE /\ phase' = "looping"
       /\ deadLetters' = Append(deadLetters, event)
       /\ fate' = [fate EXCEPT ![event] = "dead"]
       /\ DropInHand

Retry ==
  /\ phase = "retrying"
  /\ phase' = "processing"
  /\ attempt' = attempt + 1
  /\ UNCHANGED <<unsent, queue, event, results, memory, stopping, faults,
                 crashes, history>>

\* An awaited call of the attempt fails.
CallFails ==
  /\ phase \in {"saving", "publishing", "persisting"}
  /\ Fault
  /\ AttemptFails
  /\ UNCHANGED <<unsent, queue, suppressed, alerts, window, stopping, crashes,
                 dropped, slow, counted>>

-----------------------------------------------------------------------------
(* _process_event up to detection *)

Parse ==
  /\ phase = "processing"
  /\ IF event \in Malformed
     THEN AttemptFails
     ELSE /\ phase' = "saving"
          /\ UNCHANGED <<event, attempt, results, deadLetters, fate>>
  /\ UNCHANGED <<unsent, queue, suppressed, alerts, window, stopping, faults,
                 crashes, dropped, slow, counted>>

SaveEvent ==
  /\ phase = "saving"
  /\ phase' = "publishing"
  /\ UNCHANGED <<unsent, queue, event, attempt, results, memory, stopping,
                 faults, crashes, history>>

-----------------------------------------------------------------------------
(* Alerts and correlation: no await until the end of the attempt.  The     *)
(* work is a record of what it changes; raised: an AlertLifecycleError has *)
(* ended the attempt.                                                      *)

Work == [alerts |-> alerts, window |-> window, counted |-> counted,
         raised |-> FALSE]

Occur(w, k) ==
  LET a == IF w.alerts[k] = NoAlert THEN NewAlert(k) ELSE Recurred(w.alerts[k])
  IN  IF w.raised THEN w
      ELSE [alerts |-> [w.alerts EXCEPT ![k] = AfterSuppression(a)],
            counted |-> [w.counted EXCEPT ![k][event] = @ + 1],
            raised |-> SuppressionRaises(a),
            window |-> w.window]

\* create_from_detections, create_from_correlations: one result after the
\* other, except those that the guard has suppressed.
Created(w, found) ==
  LET made[n \in 0..Len(found)] ==
        IF n = 0 THEN w
        ELSE IF found[n].suppressed THEN made[n - 1]
        ELSE Occur(made[n - 1], found[n].key)
  IN  made[Len(found)]

\* The keys of the results that may become alerts.
Eligible(found) == {found[n].key : n \in {m \in DOMAIN found : ~found[m].suppressed}}

\* Then evaluate_escalation of every alert it returned.
RaiseAlerts(w, found) ==
  LET created == Created(w, found)
  IN  IF created.raised THEN created
      ELSE [created EXCEPT !.alerts =
              [k \in Keys |-> IF k \in Eligible(found)
                              THEN AfterEscalation(created.alerts[k])
                              ELSE created.alerts[k]]]

\* CorrelationEngine.evaluate: a match consumes the window.
Correlate(w) ==
  LET matching == Append(w.window, event)
  IN  IF w.raised \/ event \notin Evidence THEN w
      ELSE IF Len(matching) < Threshold THEN [w EXCEPT !.window = matching]
      ELSE RaiseAlerts([alerts |-> w.alerts, window |-> <<>>, counted |-> w.counted,
                        raised |-> FALSE],
                       <<[key |-> CorrelationKey, rule |-> FALSE, suppressed |-> FALSE]>>)

Conclude(found) ==
  \E alerted \in {RaiseAlerts(Work, found)} :
  \E done \in {Correlate(alerted)} :
    /\ alerts' = done.alerts
    /\ window' = done.window
    /\ counted' = done.counted
    /\ UNCHANGED <<dropped, slow>>
    /\ IF done.raised
       THEN AttemptFails
       ELSE /\ phase' = "looping"
            /\ DropInHand
            /\ fate' = [fate EXCEPT ![event] = "processed"]
            /\ UNCHANGED deadLetters

\* Mutant: the suppression guard is not asked.
RuleResultsUnguarded ==
  [n \in DOMAIN RulesOf[event] |->
     [key |-> RulesOf[event][n], rule |-> TRUE, suppressed |-> FALSE]]

\* DetectionEngine.evaluate: rules pass through the suppression guard,
\* plugins do not.
RuleResults ==
  [n \in DOMAIN RulesOf[event] |->
     [key |-> RulesOf[event][n], rule |-> TRUE,
      suppressed |-> <<RulesOf[event][n], event>> \in suppressed]]

PluginResults ==
  [n \in DOMAIN PluginsOf[event] |->
     [key |-> PluginsOf[event][n], rule |-> FALSE, suppressed |-> FALSE]]

PublishAndDetect ==
  /\ phase = "publishing"
  /\ LET found == RuleResults \o PluginResults
     IN  /\ suppressed' = suppressed \cup (Range(RulesOf[event]) \X {event})
         /\ IF found # <<>>
            THEN /\ results' = [found |-> found, saved |-> 0]
                 /\ phase' = "persisting"
                 /\ UNCHANGED <<event, attempt, alerts, window, deadLetters, history>>
            ELSE Conclude(<<>>)
  /\ UNCHANGED <<unsent, queue, stopping, faults, crashes>>

\* A plugin that reports on the event has returned something that is no result:
\* evaluate raises, after the rules have been entered.
DetectionRaises ==
  /\ phase = "publishing"
  /\ PluginsOf[event] # <<>>
  /\ Fault
  /\ suppressed' = suppressed \cup (Range(RulesOf[event]) \X {event})
  /\ AttemptFails
  /\ UNCHANGED <<unsent, queue, alerts, window, stopping, crashes, dropped, slow,
                 counted>>

PersistResult ==
  /\ phase = "persisting"
  /\ IF results.saved + 1 < Len(results.found)
     THEN /\ results' = [results EXCEPT !.saved = results.saved + 1]
          /\ UNCHANGED <<phase, event, attempt, alerts, window, deadLetters, history>>
     ELSE Conclude(results.found)
  /\ UNCHANGED <<unsent, queue, suppressed, stopping, faults, crashes>>

-----------------------------------------------------------------------------
(* Time, shutdown and crashes *)

\* An entry expires while its event is in hand; later nobody asks for it.
EntryExpires(k) ==
  /\ <<k, event>> \in suppressed
  /\ suppressed' = suppressed \ {<<k, event>>}
  /\ slow' = slow \cup {event}
  /\ UNCHANGED <<unsent, queue, phase, event, attempt, results, alerts, window,
                 deadLetters, stopping, faults, crashes, fate, dropped, counted>>

LoseMemory ==
  /\ suppressed' = {}
  /\ alerts' = [k \in Keys |-> NoAlert]
  /\ window' = <<>>
  /\ deadLetters' = <<>>
  /\ DropInHand

\* SIGTERM sets _stop_event; it does not interrupt the call in progress.
RequestStop ==
  /\ phase \notin {"exited", "down"}
  /\ ~stopping
  /\ stopping' = TRUE
  /\ UNCHANGED <<unsent, queue, phase, event, attempt, results, memory, faults,
                 crashes, history>>

\* Mutant: the loop does not look at _stop_event.
LoopTurnsAlways ==
  /\ phase = "looping"
  /\ phase' = "popping"
  /\ UNCHANGED <<event, attempt, results, memory, unsent, queue, stopping, faults,
                 crashes, history>>

\* The loop of start looks at _stop_event between two events.
LoopTurns ==
  /\ phase = "looping"
  /\ IF stopping
     THEN phase' = "exited" /\ LoseMemory
     ELSE phase' = "popping" /\ UNCHANGED <<event, attempt, results, memory>>
  /\ UNCHANGED <<unsent, queue, stopping, faults, crashes, history>>

Crash ==
  /\ phase \notin {"exited", "down"}
  /\ crashes < MaxCrashes
  /\ crashes' = crashes + 1
  /\ phase' = "down"
  /\ LoseMemory
  /\ UNCHANGED <<unsent, queue, stopping, faults, history>>

Restart ==
  /\ phase = "down"
  /\ phase' = "looping"
  /\ stopping' = FALSE
  /\ UNCHANGED <<unsent, queue, event, attempt, results, memory, faults,
                 crashes, history>>

\* What the worker does once Redis has answered
Step ==
  \/ GetReturns \/ Parse \/ SaveEvent \/ PublishAndDetect \/ DetectionRaises
  \/ PersistResult \/ CallFails \/ Retry \/ BackoffEnds \/ LoopTurns

Next ==
  \/ \E e \in Events : Enqueue(e)
  \/ Take \/ GetFails \/ Step
  \/ \E k \in Keys : EntryExpires(k)
  \/ RequestStop \/ Crash \/ Restart

Spec == Init /\ [][Next]_vars

\* The worker's task keeps running, Redis answers a pop and OpenSearch a call
\* (well or badly).  Nothing obliges anyone to send, stop or crash.
FairSpec == Spec /\ WF_vars(Step) /\ WF_vars(Take) /\ WF_vars(Restart)

-----------------------------------------------------------------------------
(* Properties *)

InQueue(e) == e \in Range(queue)

\* Sent, and nowhere any more: not queued, not in hand, not settled.
Vanished(e) ==
  e \notin unsent /\ ~InQueue(e) /\ event # e /\ fate[e] = "open"

Lost == {e \in Events : Vanished(e)}

\* Every event that is lost is accounted for: by a get that failed after Redis
\* had removed it, one each at most, or by a crash, one each at most too.
\* Nothing that fails after the get, is retried or dead-lettered loses one.  No
\* event is in two places, so none is handled again once it has been settled;
\* and the dead-letter queue of a worker that still runs has each dead event
\* once.
LossesAccounted ==
  /\ dropped \subseteq Lost /\ Cardinality(dropped) <= faults
  /\ Cardinality(Lost \ dropped) <= crashes
  /\ IsInjective(queue)
  /\ \A e \in Events :
       /\ InQueue(e) => event # e /\ fate[e] = "open"
       /\ event = e => fate[e] = "open"
  /\ crashes = 0 /\ phase # "exited" =>
       /\ IsInjective(deadLetters)
       /\ Range(deadLetters) = {e \in Events : fate[e] = "dead"}

\* The suppression guard makes rule results safe to retry: as long as its
\* entries outlive the attempts, no event adds two occurrences to the alert
\* of a rule (unless a plugin, which the guard does not see, reports under the
\* id of that rule), however often its processing fails after detection.
RuleCountedOnce ==
  \A e \in Events \ slow : \A k \in Range(RulesOf[e]) \ Range(PluginsOf[e]) :
    counted[k][e] <= 1

Outcome == [e \in Events |-> IF Vanished(e) THEN "lost" ELSE fate[e]]

Delivery == INSTANCE EventDelivery WITH outcome <- Outcome

\* The worker implements the queue of EventDelivery: whatever fails, stops or
\* crashes, events are taken in the order in which they were sent and each at
\* most once, only the last attempt gives an event up, and what a crash or a
\* failing get costs is the one event Redis has removed for the worker.
DeliversAtMostOnce == Delivery!Spec

\* Queued work is not abandoned: some worker takes it, and it is processed or
\* dead-lettered, unless a crash or a failing get has taken it or the worker was
\* told to stop.  What is settled stays so, so it is enough that again and again
\* everything that has been sent is.
QueuedEventsSettle ==
  []<>(\A e \in Events \ unsent : fate[e] # "open" \/ Vanished(e) \/ phase = "exited")

\* A worker that is told to stop stops, after the event in hand and without
\* waiting for the list to be empty, unless the request finds it in a pop for
\* which there is no event.
StopEndsWorkerUnlessIdle ==
  stopping /\ (queue # <<>> \/ phase # "popping") ~> phase \in {"exited", "down"}

-----------------------------------------------------------------------------
(* What the repository's documents say, and the code does not *)

\* "Operations that may be retried must have an appropriate idempotency
\* strategy": an event that a retry has brought to the end has raised the
\* alerts of the rules it matches.
ProcessedMatchesAlerted ==
  \A e \in Events : fate[e] = "processed" =>
    \A k \in Range(RulesOf[e]) : counted[k][e] >= 1
=============================================================================
