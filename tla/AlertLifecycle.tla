--------------------------- MODULE AlertLifecycle ---------------------------
(***************************************************************************)
(* The alert domain model: the lifecycle table, the suppression and        *)
(* escalation policies, and what each of them does to one alert value.     *)
(* Everything here is a constant operator on an alert; AlertManager and    *)
(* AlertSystem apply them to the alerts of one process or of several.      *)
(*                                                                         *)
(* An alert keeps the fields that control flow reads: deduplication key,   *)
(* status, occurrence count and assignee.  Both adapters derive severity,  *)
(* risk score and priority from the rule behind the key, and every rule    *)
(* has one severity, so all three are functions of the key.  Timestamps,   *)
(* titles and evidence identifiers are left out.                           *)
(***************************************************************************)
EXTENDS Integers, Sequences

CONSTANTS
  Keys,            \* deduplication keys, one per rule (and group)
  SeverityOf,      \* severity of the rule behind each key
  Assignees,       \* analysts an alert can be assigned to
  Nobody,          \* assigned_to is None
  MinOccurrences   \* SuppressionPolicy.minimum_occurrences (10 in the code)

AlertSeverity == {"info", "low", "medium", "high", "critical"}

AlertStatus ==
  {"NEW", "ACKNOWLEDGED", "INVESTIGATING", "ESCALATED", "RESOLVED", "CLOSED",
   "SUPPRESSED"}

ASSUME SeverityAssumption == SeverityOf \in [Keys -> AlertSeverity]
ASSUME OccurrenceAssumption == MinOccurrences \in Nat \ {0}
ASSUME NobodyAssumption == Nobody \notin Assignees

Alert ==
  [key: Keys, status: AlertStatus, count: Nat \ {0},
   assignee: Assignees \cup {Nobody}]

AuditAction ==
  {"created", "deduplicated", "status_transition", "assignment_changed"}

\* from_status is None ("NONE") only in the entry that records the creation.
AuditEntry ==
  [action: AuditAction, from: AlertStatus \cup {"NONE"}, to: AlertStatus]

-----------------------------------------------------------------------------
(* Lifecycle table *)

\* Mutant: a closed alert may be investigated again.
ReopeningTransitions ==
  {<<"NEW", "ACKNOWLEDGED">>, <<"NEW", "SUPPRESSED">>,
   <<"ACKNOWLEDGED", "INVESTIGATING">>, <<"ACKNOWLEDGED", "ESCALATED">>,
   <<"ACKNOWLEDGED", "RESOLVED">>,
   <<"INVESTIGATING", "ESCALATED">>, <<"INVESTIGATING", "RESOLVED">>,
   <<"ESCALATED", "INVESTIGATING">>, <<"ESCALATED", "RESOLVED">>,
   <<"RESOLVED", "CLOSED">>, <<"RESOLVED", "INVESTIGATING">>,
   <<"CLOSED", "INVESTIGATING">>}

AllowedTransitions ==
  {<<"NEW", "ACKNOWLEDGED">>, <<"NEW", "SUPPRESSED">>,
   <<"ACKNOWLEDGED", "INVESTIGATING">>, <<"ACKNOWLEDGED", "ESCALATED">>,
   <<"ACKNOWLEDGED", "RESOLVED">>,
   <<"INVESTIGATING", "ESCALATED">>, <<"INVESTIGATING", "RESOLVED">>,
   <<"ESCALATED", "INVESTIGATING">>, <<"ESCALATED", "RESOLVED">>,
   <<"RESOLVED", "CLOSED">>, <<"RESOLVED", "INVESTIGATING">>}

CanTransition(current, target) == <<current, target>> \in AllowedTransitions

-----------------------------------------------------------------------------
(* Policies *)

RiskScore(k) ==
  CASE SeverityOf[k] = "info"     -> 10
    [] SeverityOf[k] = "low"      -> 25
    [] SeverityOf[k] = "medium"   -> 50
    [] SeverityOf[k] = "high"     -> 80
    [] SeverityOf[k] = "critical" -> 100

PriorityFloor == {"critical"}

\* The priority of an alert is the name of its severity.
ShouldSuppress(a) ==
  /\ SeverityOf[a.key] \notin PriorityFloor
  /\ a.count >= MinOccurrences

ShouldEscalate(a) ==
  /\ a.status \notin {"RESOLVED", "CLOSED", "SUPPRESSED"}
  /\ \/ SeverityOf[a.key] \in {"high", "critical"}
     \/ RiskScore(a.key) >= 80

-----------------------------------------------------------------------------
(* What the operations do to one alert, and the audit entries they record *)

\* Mutant: the first occurrence is not counted.
UncountedAlert(k) ==
  [key |-> k, status |-> "NEW", count |-> 0, assignee |-> Nobody]

NewAlert(k) ==
  [key |-> k, status |-> "NEW", count |-> 1, assignee |-> Nobody]

Moved(a, target) == [a EXCEPT !.status = target]

Recurred(a) == [a EXCEPT !.count = @ + 1]

\* After an occurrence the policy asks for SUPPRESSED in every state but
\* SUPPRESSED and CLOSED; the lifecycle grants it only from NEW and raises
\* AlertLifecycleError otherwise, after the occurrence has been recorded.
WantsSuppression(a) ==
  a.status \notin {"SUPPRESSED", "CLOSED"} /\ ShouldSuppress(a)

SuppressionRaises(a) ==
  WantsSuppression(a) /\ ~CanTransition(a.status, "SUPPRESSED")

AfterSuppression(a) ==
  IF WantsSuppression(a) /\ CanTransition(a.status, "SUPPRESSED")
  THEN Moved(a, "SUPPRESSED")
  ELSE a

\* Mutant: a NEW alert is escalated without being acknowledged.
DirectPath(a) ==
  IF ShouldEscalate(a) /\ a.status # "ESCALATED" THEN <<"ESCALATED">> ELSE <<>>

\* evaluate_escalation acknowledges a NEW alert on its way to ESCALATED.
EscalationPath(a) ==
  IF ~ShouldEscalate(a) THEN <<>>
  ELSE IF a.status = "NEW" THEN <<"ACKNOWLEDGED", "ESCALATED">>
  ELSE IF a.status \in {"ACKNOWLEDGED", "INVESTIGATING"} THEN <<"ESCALATED">>
  ELSE <<>>

AfterEscalation(a) ==
  IF EscalationPath(a) = <<>> THEN a ELSE Moved(a, "ESCALATED")

Audit(action, from, to) == [action |-> action, from |-> from, to |-> to]

=============================================================================
