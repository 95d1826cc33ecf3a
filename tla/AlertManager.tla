---------------------------- MODULE AlertManager ----------------------------
(***************************************************************************)
(* One AlertManager object: the alerts of a process, its deduplication     *)
(* index and its in-memory audit history.  This is the manager of the      *)
(* ingestion worker, the only one through which alerts are created; the    *)
(* request-local managers of the API, the persistence tasks and OpenSearch *)
(* are in AlertSystem.                                                     *)
(*                                                                         *)
(* Every public method is synchronous and runs on one event loop without   *)
(* an await, so each is one action.                                        *)
(***************************************************************************)
EXTENDS AlertLifecycle, FiniteSets

CONSTANTS
  AlertIds,         \* pool of alert identifiers (uuid4)
  NoId,             \* the index has no entry
  NoAlert,          \* the manager holds no alert under this identifier
  MaxOccurrences,   \* bound: occurrences merged into one alert
  MaxAudit          \* bound: audit entries of one alert

ASSUME IdAssumption == NoId \notin AlertIds
ASSUME NoAlertAssumption == NoAlert \notin Alert
ASSUME BoundAssumption == MaxOccurrences \in Nat /\ MaxAudit \in Nat

VARIABLES
  alerts,   \* _alerts
  dedup,    \* _dedup_index
  audit     \* _audit

vars == <<alerts, dedup, audit>>

\* Alerts, index and audit histories have their types; identifiers that the
\* pool has not given out have no alert.
TypeOK ==
  /\ alerts \in [AlertIds -> Alert \cup {NoAlert}]
  /\ dedup \in [Keys -> AlertIds \cup {NoId}]
  /\ audit \in [AlertIds -> Seq(AuditEntry)]

Init ==
  /\ alerts = [i \in AlertIds |-> NoAlert]
  /\ dedup = [k \in Keys |-> NoId]
  /\ audit = [i \in AlertIds |-> <<>>]

Known == {i \in AlertIds : alerts[i] # NoAlert}

HasRoom(i, n) == Len(audit[i]) + n <= MaxAudit

\* _record after the alert itself has been replaced.
Apply(i, a, entries) ==
  /\ alerts' = [alerts EXCEPT ![i] = a]
  /\ audit' = [audit EXCEPT ![i] = @ \o entries]

SuppressionAudit(before, after) ==
  IF before.status = after.status THEN <<>>
  ELSE <<Audit("status_transition", before.status, after.status)>>

-----------------------------------------------------------------------------
(* create: the key is not in the index, or its alert is gone *)

\* The alert that create finds under a key.
Existing(k) == IF dedup[k] = NoId THEN NoAlert ELSE alerts[dedup[k]]

\* Mutant: the index is never written.
CreateUnindexed(k, i) ==
  /\ Existing(k) = NoAlert
  /\ i \notin Known
  /\ alerts' = [alerts EXCEPT ![i] = AfterSuppression(NewAlert(k))]
  /\ audit' = [audit EXCEPT ![i] = <<Audit("created", "NONE", "NEW")>>]
  /\ UNCHANGED dedup

\* Mutant: the index is written but not looked up.
CreateAgain(k, i) ==
  /\ i \notin Known
  /\ alerts' = [alerts EXCEPT ![i] = AfterSuppression(NewAlert(k))]
  /\ dedup' = [dedup EXCEPT ![k] = i]
  /\ audit' = [audit EXCEPT ![i] = <<Audit("created", "NONE", "NEW")>>]

CreateNew(k, i) ==
  /\ Existing(k) = NoAlert
  /\ i \notin Known
  /\ LET new == NewAlert(k)
         final == AfterSuppression(new)
     IN  /\ alerts' = [alerts EXCEPT ![i] = final]
         /\ dedup' = [dedup EXCEPT ![k] = i]
         /\ audit' = [audit EXCEPT ![i] =
              <<Audit("created", "NONE", "NEW")>> \o SuppressionAudit(new, final)]

(* create: another occurrence of a known alert (_merge_duplicate) *)

\* Mutant: suppression looks at the alert before the occurrence is counted.
MergeEarly(k) ==
  /\ Existing(k) # NoAlert
  /\ Existing(k).count < MaxOccurrences
  /\ HasRoom(dedup[k], 2)
  /\ LET old == Existing(k)
         final == Recurred(AfterSuppression(old))
     IN  Apply(dedup[k], final, SuppressionAudit(old, final)
                 \o <<Audit("deduplicated", final.status, final.status)>>)
  /\ UNCHANGED dedup

MergeDuplicate(k) ==
  /\ Existing(k) # NoAlert
  /\ LET updated == Recurred(Existing(k))
         final == AfterSuppression(updated)
     IN  /\ updated.count <= MaxOccurrences
         /\ HasRoom(dedup[k], 2)
         /\ Apply(dedup[k], final,
                  <<Audit("deduplicated", Existing(k).status, updated.status)>>
                    \o SuppressionAudit(updated, final))
         /\ UNCHANGED dedup

(* evaluate_escalation *)

EvaluateEscalation(i) ==
  /\ i \in Known
  /\ LET path == EscalationPath(alerts[i])
         from == <<alerts[i].status>> \o path
     IN  /\ path # <<>>
         /\ HasRoom(i, Len(path))
         /\ Apply(i, AfterEscalation(alerts[i]),
                  [n \in 1..Len(path) |->
                     Audit("status_transition", from[n], path[n])])
         /\ UNCHANGED dedup

(* transition, through which acknowledge, investigate, escalate, resolve,  *)
(* close and suppress of AlertService all go                               *)

Transition(i, target) ==
  /\ i \in Known
  /\ CanTransition(alerts[i].status, target)
  /\ HasRoom(i, 1)
  /\ Apply(i, Moved(alerts[i], target),
           <<Audit("status_transition", alerts[i].status, target)>>)
  /\ UNCHANGED dedup

(* assign *)

Assign(i, user) ==
  /\ i \in Known
  /\ HasRoom(i, 1)
  /\ Apply(i, [alerts[i] EXCEPT !.assignee = user],
           <<Audit("assignment_changed", alerts[i].status, alerts[i].status)>>)
  /\ UNCHANGED dedup

Next ==
  \/ \E k \in Keys, i \in AlertIds : CreateNew(k, i)
  \/ \E k \in Keys : MergeDuplicate(k)
  \/ \E i \in AlertIds : EvaluateEscalation(i)
  \/ \E i \in AlertIds, target \in AlertStatus : Transition(i, target)
  \/ \E i \in AlertIds, user \in Assignees \cup {Nobody} : Assign(i, user)

Spec == Init /\ [][Next]_vars

-----------------------------------------------------------------------------
(* Safety *)

\* The deduplication index and the alerts agree both ways: every indexed
\* identifier is an alert of that key, and every alert is the indexed one of
\* its key, so a key never has two alerts (create, _merge_duplicate).
OneAlertPerKey ==
  /\ \A k \in Keys : dedup[k] # NoId =>
       dedup[k] \in Known /\ alerts[dedup[k]].key = k
  /\ \A i \in Known : dedup[alerts[i].key] = i

\* An alert that is still NEW is below the suppression threshold: however
\* occurrences, assignments and transitions interleave, the policy has been
\* applied to the count the alert has now (the ordering _merge_duplicate
\* describes as the fix of an earlier bug).
NoNoisyNewAlert ==
  \A i \in Known : alerts[i].status = "NEW" => ~ShouldSuppress(alerts[i])

\* Entry f of an audit history may come right after entry e.
Follows(e, f) ==
  /\ f.from = e.to
  /\ IF f.action = "status_transition"
     THEN CanTransition(f.from, f.to)
     ELSE f.to = f.from

Replays(history, status) ==
  /\ history # <<>>
  /\ history[1] = Audit("created", "NONE", "NEW")
  /\ \A n \in 2..Len(history) : Follows(history[n - 1], history[n])
  /\ history[Len(history)].to = status

\* The audit history of an alert is one unbroken chain that starts with its
\* creation, whose every status change the lifecycle allows, and that ends
\* in the status the alert has: replaying it yields the alert.
AuditReplaysStatus == \A i \in Known : Replays(audit[i], alerts[i].status)

\* SUPPRESSED and CLOSED are final for the status of an alert, which may
\* still be assigned and still counts occurrences; and nothing a manager does
\* shortens or rewrites an audit history ("Immutable audit history").
KeepsFinalAndHistory(i) ==
  /\ i \in Known'
  /\ alerts[i].status \in {"SUPPRESSED", "CLOSED"} =>
       alerts'[i].status = alerts[i].status
  /\ Len(audit'[i]) >= Len(audit[i])
  /\ \A n \in 1..Len(audit[i]) : audit'[i][n] = audit[i][n]

KeepsFinalsAndHistories == \A i \in Known : KeepsFinalAndHistory(i)

FinalAndImmutable == [][KeepsFinalsAndHistories]_vars

-----------------------------------------------------------------------------
(* Refinement *)

\* The case of a key is the alert the index points to, without its key.
CaseOf(a) == [status |-> a.status, count |-> a.count, assignee |-> a.assignee]

RegisterOf ==
  [k \in Keys |-> IF dedup[k] = NoId THEN NoAlert ELSE CaseOf(alerts[dedup[k]])]

Register == INSTANCE AlertRegister WITH register <- RegisterOf, NoCase <- NoAlert

ASSUME NoCaseAssumption == NoAlert \notin Register!Case

\* The manager implements the register of AlertRegister: to its callers it
\* is one case per deduplication key, whatever identifiers, index entries
\* and audit records it keeps.
ImplementsRegister == Register!Spec

=============================================================================
