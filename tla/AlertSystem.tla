----------------------------- MODULE AlertSystem -----------------------------
(***************************************************************************)
(* Alerts across processes: the manager of the ingestion worker, the       *)
(* request-local managers of the API, their fire-and-forget saves and the  *)
(* alert documents in OpenSearch.                                          *)
(*                                                                         *)
(* The worker handles all results of one event without an await, so that   *)
(* is one action, but every alert it changes on the way leaves a save task *)
(* of its own, with the whole alert as it was then.  The tasks share one   *)
(* HTTP client: they reach OpenSearch in any order and overwrite without a *)
(* version check.  A request reads the document, works on a manager of its *)
(* own and answers once its save is scheduled; its client is closed as the *)
(* request ends.  A worker that restarts begins with an empty manager.     *)
(*                                                                         *)
(* Left out: the audit documents and the realtime messages.                *)
(***************************************************************************)
EXTENDS AlertLifecycle, FiniteSets, Functions

CONSTANTS
  Events,           \* what one event yields: [detections, correlations],
                    \* each a sequence of keys in evaluation order
  Requests,         \* API requests, each used once
  Worker,           \* owner of the worker's saves
  NoId, NoAlert,
  MaxAlerts,        \* bound: alerts ever created
  MaxOccurrences,   \* bound: occurrences merged into one alert
  MaxSaves,         \* bound: worker saves in flight when an event is handled
  MaxRuns,          \* bound: incarnations of the worker
  StoreFaults       \* whether OpenSearch may refuse a save

AlertIds == 1..MaxAlerts

ASSUME EventAssumption ==
  Events \subseteq [detections: Seq(Keys), correlations: Seq(Keys)]
ASSUME OwnerAssumption == Worker \notin Requests
ASSUME NoneAssumption == NoId \notin AlertIds /\ NoAlert \notin Alert
ASSUME SystemBoundAssumption ==
  /\ {MaxAlerts, MaxOccurrences, MaxSaves} \subseteq Nat /\ MaxRuns \in Nat \ {0}
  /\ StoreFaults \in BOOLEAN

VARIABLES
  memory,     \* the worker's AlertManager: [alerts, dedup]
  store,      \* alert documents in OpenSearch
  saves,      \* scheduled saves that have not completed
  requests,   \* progress of each request and the document it works on
  run,        \* history: incarnation of the worker
  born,       \* history: incarnation that created each alert, 0 if none
  skipped     \* history: alerts of a batch that ended before escalation

vars == <<memory, store, saves, requests, run, born, skipped>>

Document == Alert \cup {NoAlert}

Save == [owner: Requests \cup {Worker}, id: AlertIds, doc: Alert]

Idle == [phase |-> "idle", kind |-> "none", id |-> NoId, doc |-> NoAlert]

\* Memory, documents, saves and requests have their types.
TypeOK ==
  /\ memory \in [alerts: [AlertIds -> Document], dedup: [Keys -> AlertIds \cup {NoId}]]
  /\ store \in [AlertIds -> Document]
  /\ saves \subseteq Save
  /\ requests \in
       [Requests -> [phase: {"idle", "loaded", "answered", "rejected", "closed"},
                     kind: {"none", "transition", "assign"},
                     id: AlertIds \cup {NoId}, doc: Document]]
  /\ run \in 1..MaxRuns
  /\ born \in [AlertIds -> 0..MaxRuns]
  /\ skipped \subseteq AlertIds

EmptyManager ==
  [alerts |-> [i \in AlertIds |-> NoAlert], dedup |-> [k \in Keys |-> NoId]]

Init ==
  /\ memory = EmptyManager
  /\ store = [i \in AlertIds |-> NoAlert]
  /\ saves = {}
  /\ requests = [r \in Requests |-> Idle]
  /\ run = 1
  /\ born = [i \in AlertIds |-> 0]
  /\ skipped = {}

Known == {i \in AlertIds : memory.alerts[i] # NoAlert}
Unborn == {i \in AlertIds : born[i] = 0}

-----------------------------------------------------------------------------
(* The worker handles the results of one event.  The work on a batch is a  *)
(* record: the manager, the saves and ids so far, the alerts the current   *)
(* batch touched, and whether AlertLifecycleError has ended it.            *)

Work == [alerts |-> memory.alerts, dedup |-> memory.dedup, saves |-> saves,
         free |-> Unborn, touched |-> {}, raised |-> FALSE]

\* Mutant: the updated alert is saved but not kept.
PutOnce(w, i, a) == IF w.alerts[i] = NoAlert THEN [w.alerts EXCEPT ![i] = a] ELSE w.alerts

Put(w, i, a) == [w.alerts EXCEPT ![i] = a]

\* Every change of an alert schedules a save of the alert as it is then.
SaveOf(i, a) == [owner |-> Worker, id |-> i, doc |-> a]

Fresh(w) == CHOOSE i \in w.free : \A j \in w.free : i <= j

\* create and _merge_duplicate: save the occurrence, then apply suppression.
Occur(w, k, i, a) ==
  [alerts  |-> Put(w, i, AfterSuppression(a)),
   dedup   |-> [w.dedup EXCEPT ![k] = i],
   saves   |-> w.saves \cup {SaveOf(i, a), SaveOf(i, AfterSuppression(a))},
   free    |-> w.free \ {i},
   touched |-> w.touched \cup {i},
   raised  |-> SuppressionRaises(a)]

\* Mutant: every occurrence makes an alert as long as there are identifiers.
CreateEach(w, k) ==
  IF w.raised \/ w.free = {} THEN w ELSE Occur(w, k, Fresh(w), NewAlert(k))

Create(w, k) ==
  IF w.raised THEN w
  ELSE IF w.dedup[k] = NoId THEN Occur(w, k, Fresh(w), NewAlert(k))
  ELSE Occur(w, k, w.dedup[k], Recurred(w.alerts[w.dedup[k]]))

\* create_from_detections, create_from_correlations
Created(w, keys) ==
  LET made[n \in 0..Len(keys)] == IF n = 0 THEN w ELSE Create(made[n - 1], keys[n])
  IN  made[Len(keys)]

\* evaluate_escalation of some alerts, one save per transition
Escalated(w, ids) ==
  [alerts  |-> [i \in AlertIds |-> IF i \in ids THEN AfterEscalation(w.alerts[i])
                                  ELSE w.alerts[i]],
   saves   |-> w.saves \cup
                 UNION {{SaveOf(i, Moved(w.alerts[i], target)) :
                           target \in Range(EscalationPath(w.alerts[i]))} : i \in ids},
   dedup   |-> w.dedup, free |-> w.free, touched |-> w.touched, raised |-> FALSE]

\* Mutant: only one alert of a batch is escalated.
HandleFirst(w, keys) ==
  IF w.raised THEN w
  ELSE LET created == Created([w EXCEPT !.touched = {}], keys)
       IN  IF created.raised THEN created
           ELSE Escalated(created, {i \in created.touched :
                                      \A j \in created.touched : i <= j})

\* Then escalation of each alert that was returned.
HandleBatch(w, keys) ==
  IF w.raised THEN w
  ELSE LET created == Created([w EXCEPT !.touched = {}], keys)
       IN  IF created.raised THEN created ELSE Escalated(created, created.touched)

WorkerHandles(e) ==
  /\ Cardinality({s \in saves : s.owner = Worker}) <= MaxSaves
  /\ Cardinality({k \in Range(e.detections) \cup Range(e.correlations) :
                    memory.dedup[k] = NoId}) <= Cardinality(Unborn)
  /\ LET done == HandleBatch(HandleBatch(Work, e.detections), e.correlations)
         fresh == Unborn \ done.free
         changed == {i \in AlertIds : done.alerts[i] # memory.alerts[i]}
     IN  /\ \A i \in changed : done.alerts[i].count <= MaxOccurrences
         /\ memory' = [alerts |-> done.alerts, dedup |-> done.dedup]
         /\ saves' = done.saves
         /\ born' = [i \in AlertIds |-> IF i \in fresh THEN run ELSE born[i]]
         /\ skipped' = (skipped \ changed)
              \cup IF done.raised THEN done.touched ELSE {}
         /\ UNCHANGED <<store, requests, run>>

\* The process ends: its manager and unfinished save tasks are gone, and
\* nothing loads stored alerts into the manager of the next one.
WorkerRestarts ==
  /\ run < MaxRuns
  /\ run' = run + 1
  /\ memory' = EmptyManager
  /\ saves' = {s \in saves : s.owner # Worker}
  /\ UNCHANGED <<store, requests, born, skipped>>

-----------------------------------------------------------------------------
(* Saves complete, each on its own *)

SaveLands(s) ==
  /\ s \in saves
  /\ saves' = saves \ {s}
  /\ store' = [store EXCEPT ![s.id] = s.doc]
  /\ UNCHANGED <<memory, requests, run, born, skipped>>

\* The task logs the error and nobody retries it.
SaveFails(s) ==
  /\ StoreFaults
  /\ s \in saves
  /\ saves' = saves \ {s}
  /\ UNCHANGED <<memory, store, requests, run, born, skipped>>

-----------------------------------------------------------------------------
(* API requests *)

\* The document is read; the handler resumes when the answer arrives, for
\* an assignment also after the assignee has been validated.
RequestLoads(r, kind, i) ==
  /\ requests[r].phase = "idle"
  /\ store[i] # NoAlert
  /\ requests' = [requests EXCEPT ![r] =
       [phase |-> "loaded", kind |-> kind, id |-> i, doc |-> store[i]]]
  /\ UNCHANGED <<memory, store, saves, run, born, skipped>>

\* Mutant: an analyst may suppress.
EveryTarget == AlertStatus

SupportedTargets == {"ACKNOWLEDGED", "INVESTIGATING", "ESCALATED", "RESOLVED"}

\* Nothing but its progress is kept of a request that has been answered.
Over(r, phase) == requests' = [requests EXCEPT ![r] = [Idle EXCEPT !.phase = phase]]

\* The request-local manager applies the change to the document it was
\* hydrated with and schedules the save.
RequestSaves(r, a) ==
  /\ Over(r, "answered")
  /\ saves' = saves \cup {[owner |-> r, id |-> requests[r].id, doc |-> a]}
  /\ UNCHANGED <<memory, store, run, born, skipped>>

TransitionAccepted(doc, target) ==
  target \in SupportedTargets /\ CanTransition(doc.status, target)

RequestTransitions(r, target) ==
  /\ requests[r].phase = "loaded"
  /\ requests[r].kind = "transition"
  /\ TransitionAccepted(requests[r].doc, target)
  /\ RequestSaves(r, Moved(requests[r].doc, target))

\* 409 or 422
RequestRejected(r, target) ==
  /\ requests[r].phase = "loaded"
  /\ requests[r].kind = "transition"
  /\ ~TransitionAccepted(requests[r].doc, target)
  /\ Over(r, "rejected")
  /\ UNCHANGED <<memory, store, saves, run, born, skipped>>

RequestAssigns(r, user) ==
  /\ requests[r].phase = "loaded"
  /\ requests[r].kind = "assign"
  /\ RequestSaves(r, [requests[r].doc EXCEPT !.assignee = user])

\* get_alert_repository closes the client of the request; a save task that
\* has not completed fails with it, unless OpenSearch already has the call.
RequestCloses(r) ==
  /\ requests[r].phase \in {"answered", "rejected"}
  /\ Over(r, "closed")
  /\ \/ saves' = saves
     \/ saves' = {s \in saves : s.owner # r}
  /\ UNCHANGED <<memory, store, run, born, skipped>>

Next ==
  \/ \E e \in Events : WorkerHandles(e)
  \/ WorkerRestarts
  \/ \E s \in saves : SaveLands(s) \/ SaveFails(s)
  \/ \E r \in Requests :
       \/ \E i \in AlertIds, kind \in {"transition", "assign"} :
            RequestLoads(r, kind, i)
       \/ \E target \in AlertStatus :
            RequestTransitions(r, target) \/ RequestRejected(r, target)
       \/ \E user \in Assignees \cup {Nobody} : RequestAssigns(r, user)
       \/ RequestCloses(r)

Spec == Init /\ [][Next]_vars

-----------------------------------------------------------------------------
(* Safety *)

\* Every copy of an alert outside the worker's memory: stored, in flight,
\* or loaded by a request.
Copies(i) ==
  ({store[i]} \cup {s.doc : s \in {t \in saves : t.id = i}}
     \cup {requests[r].doc : r \in {q \in Requests : requests[q].id = i}})
  \ {NoAlert}

\* However saves are reordered, dropped or overtaken by requests, no copy of
\* an alert is ahead of the worker that counts its occurrences, and none
\* changes the key the alert is deduplicated by.
CopiesNeverAhead ==
  \A i \in Known : \A d \in Copies(i) :
    d.key = memory.alerts[i].key /\ d.count <= memory.alerts[i].count

\* A SUPPRESSED alert has earned it, wherever its copy is: the policy asks for
\* suppression on the very count saved with the status, so no request
\* suppresses an alert that has not earned it, and none closes one.  A NEW copy
\* has not outgrown the policy: at most it is the one saved with the
\* occurrence that reached the threshold, just before it was suppressed.
\* (That a suppressed document stays so is no part of this: a request that has
\* loaded the alert before may save ACKNOWLEDGED over it.)
SuppressionEarned ==
  \A i \in AlertIds : \A d \in Copies(i) :
    /\ d.status = "SUPPRESSED" => ShouldSuppress(d)
    /\ d.status = "NEW" /\ d.count > MinOccurrences => ~ShouldSuppress(d)
    /\ d.status # "CLOSED"

\* As long as the worker lives, a key has one alert in the store: two stored
\* alerts of a key were created by different incarnations of the worker.
OneStoredAlertPerKeyAndRun ==
  \A i, j \in AlertIds :
    store[i] # NoAlert /\ store[j] # NoAlert /\ store[i].key = store[j].key
      /\ i # j => born[i] # born[j]

\* The worker leaves an alert that must escalate in NEW only when its batch
\* ended early, because suppression of another alert of the batch raised.
EscalatedUnlessSkipped ==
  \A i \in Known :
    memory.alerts[i].status = "NEW" /\ ShouldEscalate(memory.alerts[i])
      => i \in skipped
=============================================================================
