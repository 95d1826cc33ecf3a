----------------------------- MODULE Incidents ------------------------------
(***************************************************************************)
(* Incidents: the requests of the API that create and change them, the     *)
(* documents OpenSearch holds about them, and the promotion of alerts.     *)
(*                                                                         *)
(* A request that changes an incident reads its document, computes the new *)
(* incident on a manager of its own without an await, and then awaits one  *)
(* write after the other: the whole incident, a note or an evidence        *)
(* record, the audit entries, the timeline entries.  Nothing compares      *)
(* versions, every write may fail and none is taken back.  Promotion works *)
(* on the manager of the application instead, which has no persisters.     *)
(*                                                                         *)
(* Left out: title, description, severity and tags, which are data here (a *)
(* request that changes only them still writes the document it has read),  *)
(* the reads of the API, and the realtime messages.                        *)
(***************************************************************************)
EXTENDS Naturals, Sequences, FiniteSets

CONSTANTS
  IncidentIds,      \* pool of incident identifiers (uuid4)
  Clients,          \* requests that can run at the same time
  Alerts,           \* alerts that may be promoted or named in a new incident
  EvidenceIds,      \* evidence identifiers, chosen by the caller
  Users, Nobody,    \* assignees, and no assignee
  NoId,             \* no incident, alert or evidence identifier
  NoIncident,       \* there is no such document
  Changes,          \* bodies of the PATCH requests callers send
  MaxRequests       \* bound: requests ever started

IncidentStatus == {"OPEN", "INVESTIGATING", "CONTAINED", "RESOLVED", "CLOSED"}

Incident == [status: IncidentStatus, assignee: Users \cup {Nobody},
             alerts: SUBSET Alerts, evidence: SUBSET EvidenceIds]

AuditAction == {"incident_created", "incident_updated", "incident_assigned",
                "incident_reassigned", "incident_status_changed"}

IncidentAuditEntry == [action: AuditAction, from: IncidentStatus \cup {"NONE"},
                       to: IncidentStatus \cup {"NONE"}]

ASSUME NoneAssumption ==
  /\ Nobody \notin Users
  /\ NoId \notin IncidentIds \cup Alerts \cup EvidenceIds
  /\ NoIncident \notin Incident
ASSUME BoundAssumption == MaxRequests \in Nat

\* The fields of a PATCH: a null assignee or a missing status is no change,
\* "details" are the title, the description and the severity.
Change == [assignee: Users \cup {Nobody}, status: IncidentStatus \cup {"NONE"},
           details: BOOLEAN]

ASSUME ChangeAssumption == Changes \subseteq Change

VARIABLES
  documents,    \* incident documents in OpenSearch, by identifier
  searchable,   \* incidents a search finds: those of the last refresh
  evidence,     \* evidence records in OpenSearch, by incident
  notes,        \* incidents with a stored note
  audit,        \* audit entries in OpenSearch, by incident
  timeline,     \* timeline entries in OpenSearch, by the change they tell of
  memory,       \* _incidents of the application's manager
  requests,     \* what each running request still has to do
  started,      \* requests started so far
  promoted,     \* history: the alert an incident was promoted from
  reached,      \* history: statuses the document of an incident has had
  overlapped,   \* history: incidents that two requests changed at once
  broken        \* history: incidents with a request that ended early

stores == <<documents, searchable, evidence, notes, audit, timeline>>
history == <<promoted, reached, overlapped, broken>>
vars == <<stores, memory, requests, started, history>>

Idle == [phase |-> "idle", id |-> NoId, alert |-> NoId, doc |-> NoIncident,
         note |-> FALSE, evidence |-> NoId, audits |-> <<>>, entries |-> <<>>]

Request ==
  [phase: {"idle", "searched", "incident", "child", "audit", "timeline"},
   id: IncidentIds \cup {NoId}, alert: Alerts \cup {NoId},
   doc: Incident \cup {NoIncident}, note: BOOLEAN,
   evidence: EvidenceIds \cup {NoId},
   audits: Seq(IncidentAuditEntry), entries: Seq(IncidentAuditEntry)]

\* Documents, records and running requests have their types, and a request
\* that writes knows what and where.
TypeOK ==
  /\ documents \in [IncidentIds -> Incident \cup {NoIncident}]
  /\ searchable \subseteq {i \in IncidentIds : documents[i] # NoIncident}
  /\ evidence \in [IncidentIds -> SUBSET EvidenceIds]
  /\ notes \subseteq IncidentIds
  /\ audit \in [IncidentIds -> SUBSET IncidentAuditEntry]
  /\ timeline \in [IncidentIds -> SUBSET IncidentAuditEntry]
  /\ memory \subseteq IncidentIds
  /\ requests \in [Clients -> Request]
  /\ \A c \in Clients : requests[c].phase \notin {"idle", "searched"} =>
       requests[c].id \in IncidentIds /\ requests[c].doc \in Incident
  /\ started \in 0..MaxRequests
  /\ promoted \in [IncidentIds -> Alerts \cup {NoId}]
  /\ reached \in [IncidentIds -> SUBSET IncidentStatus]
  /\ overlapped \subseteq IncidentIds
  /\ broken \subseteq IncidentIds

Init ==
  /\ documents = [i \in IncidentIds |-> NoIncident]
  /\ searchable = {}
  /\ evidence = [i \in IncidentIds |-> {}]
  /\ notes = {}
  /\ audit = [i \in IncidentIds |-> {}]
  /\ timeline = [i \in IncidentIds |-> {}]
  /\ memory = {}
  /\ requests = [c \in Clients |-> Idle]
  /\ started = 0
  /\ promoted = [i \in IncidentIds |-> NoId]
  /\ reached = [i \in IncidentIds |-> {}]
  /\ overlapped = {}
  /\ broken = {}

-----------------------------------------------------------------------------
(* The domain: incidents and their lifecycle *)

AllowedTransitions ==
  {<<"OPEN", "INVESTIGATING">>, <<"INVESTIGATING", "CONTAINED">>,
   <<"CONTAINED", "RESOLVED">>, <<"RESOLVED", "CLOSED">>}

\* Mutant: any later status may be set.
LaterStatus(status, target) ==
  <<status, target>> \in AllowedTransitions \cup {<<"OPEN", "CONTAINED">>}

CanTransition(status, target) == <<status, target>> \in AllowedTransitions

Entry(action, from, to) == [action |-> action, from |-> from, to |-> to]

StatusEntry(from, to) == Entry("incident_status_changed", from, to)

AssignmentEntry(doc) ==
  Entry(IF doc.assignee = Nobody THEN "incident_assigned" ELSE "incident_reassigned",
        "NONE", "NONE")

NewIncident(alerts, user) ==
  [status |-> "OPEN", assignee |-> user, alerts |-> alerts, evidence |-> {}]

\* Mutant: no entry of the status when the assignee changes with it.
UpdateAuditsOnce(doc, change) ==
  IF change.assignee \notin {Nobody, doc.assignee}
  THEN <<AssignmentEntry(doc)>>
  ELSE IF change.status \notin {"NONE", doc.status}
  THEN <<StatusEntry(doc.status, change.status)>>
  ELSE <<>>

\* What _update_domain_state records: its fields one after the other, the
\* status last.
UpdateAudits(doc, change) ==
  (IF change.details THEN <<Entry("incident_updated", "NONE", "NONE")>> ELSE <<>>)
    \o (IF change.assignee \in {Nobody, doc.assignee} THEN <<>>
        ELSE <<AssignmentEntry(doc)>>)
    \o (IF change.status \in {"NONE", doc.status} THEN <<>>
        ELSE <<StatusEntry(doc.status, change.status)>>)

\* Mutant: a missing status is written too.
UpdatedToNull(doc, change) ==
  [doc EXCEPT !.assignee = IF change.assignee = Nobody THEN @ ELSE change.assignee,
              !.status = change.status]

UpdatedIncident(doc, change) ==
  [doc EXCEPT !.assignee = IF change.assignee = Nobody THEN @ ELSE change.assignee,
              !.status = IF change.status = "NONE" THEN @ ELSE change.status]

-----------------------------------------------------------------------------
(* Requests that change a stored incident *)

Running(i) == {c \in Clients : requests[c].id = i}

\* The request reads the document of its incident; without one it is answered
\* 404.
Loaded(i) == documents[i] # NoIncident

\* A request has computed its incident and begins to write.
Submit(c, i, doc, note, ev, audits) ==
  /\ requests[c] = Idle
  /\ started < MaxRequests
  /\ started' = started + 1
  /\ requests' = [requests EXCEPT ![c] =
       [phase |-> "incident", id |-> i, alert |-> NoId, doc |-> doc,
        note |-> note, evidence |-> ev, audits |-> audits, entries |-> audits]]
  /\ overlapped' = IF Running(i) = {} THEN overlapped ELSE overlapped \cup {i}
  /\ UNCHANGED <<stores, memory, promoted, reached, broken>>

\* uuid4 has not given out this identifier.
Fresh(i) == documents[i] = NoIncident /\ promoted[i] = NoId /\ Running(i) = {}
            /\ i \notin broken

CreateIncident(c, i, alerts, user) ==
  /\ Fresh(i)
  /\ Submit(c, i, NewIncident(alerts, user), FALSE, NoId,
            <<Entry("incident_created", "NONE", "OPEN")>>)

UpdateIncident(c, i, change) ==
  /\ Loaded(i)
  /\ \/ change.status \in {"NONE", documents[i].status}
     \/ CanTransition(documents[i].status, change.status)
  /\ Submit(c, i, UpdatedIncident(documents[i], change), FALSE, NoId,
            UpdateAudits(documents[i], change))

\* Assigning the present assignee is answered without a write.
AssignIncident(c, i, user) ==
  /\ Loaded(i)
  /\ documents[i].assignee # user
  /\ Submit(c, i, [documents[i] EXCEPT !.assignee = user], FALSE, NoId,
            <<AssignmentEntry(documents[i])>>)

TransitionIncident(c, i, target) ==
  /\ Loaded(i)
  /\ CanTransition(documents[i].status, target)
  /\ Submit(c, i, [documents[i] EXCEPT !.status = target], FALSE, NoId,
            <<StatusEntry(documents[i].status, target)>>)

AddNote(c, i) ==
  /\ Loaded(i)
  /\ Submit(c, i, documents[i], TRUE, NoId,
            <<Entry("incident_updated", "NONE", "NONE")>>)

\* Mutant: the record is stored, the document does not list it.
AddUnlistedEvidence(c, i, e) ==
  /\ Loaded(i)
  /\ Submit(c, i, documents[i], FALSE, e,
            <<Entry("incident_updated", "NONE", "NONE")>>)

\* The request's own EvidenceService is empty: it never finds a duplicate.
AddEvidence(c, i, e) ==
  /\ Loaded(i)
  /\ Submit(c, i, [documents[i] EXCEPT !.evidence = @ \cup {e}], FALSE, e,
            <<Entry("incident_updated", "NONE", "NONE")>>)

-----------------------------------------------------------------------------
(* The writes of a request, in order *)

\* What the request awaits after its incident or its child record is stored.
Advance(r) ==
  IF r.audits # <<>> THEN [r EXCEPT !.phase = "audit"]
  ELSE IF r.entries # <<>> THEN [r EXCEPT !.phase = "timeline"]
  ELSE Idle

\* Mutant: the audit entries are written before the incident.
PersistAuditFirst(c) ==
  LET r == requests[c]
      entries == {r.audits[n] : n \in DOMAIN r.audits}
  IN  /\ r.phase = "incident"
      /\ audit' = [audit EXCEPT ![r.id] = @ \cup entries]
      /\ IF entries # {}
         THEN /\ requests' = [requests EXCEPT ![c].audits = <<>>]
              /\ UNCHANGED <<documents, reached>>
         ELSE /\ documents' = [documents EXCEPT ![r.id] = r.doc]
              /\ reached' = [reached EXCEPT ![r.id] = @ \cup {r.doc.status}]
              /\ requests' = [requests EXCEPT ![c] = Idle]
      /\ UNCHANGED <<searchable, evidence, notes, timeline, memory,
                     started, promoted, overlapped, broken>>

\* save: the document is replaced, whatever it has become meanwhile.
PersistIncident(c) ==
  LET r == requests[c]
  IN  /\ r.phase = "incident"
      /\ documents' = [documents EXCEPT ![r.id] = r.doc]
      /\ reached' = [reached EXCEPT ![r.id] = @ \cup {r.doc.status}]
      /\ requests' = [requests EXCEPT ![c] =
           IF r.note \/ r.evidence # NoId THEN [r EXCEPT !.phase = "child"]
           ELSE Advance(r)]
      /\ UNCHANGED <<searchable, evidence, notes, audit, timeline, memory,
                     started, promoted, overlapped, broken>>

PersistNote(c) ==
  LET r == requests[c]
  IN  /\ r.phase = "child" /\ r.note
      /\ notes' = notes \cup {r.id}
      /\ requests' = [requests EXCEPT ![c] = Advance(r)]
      /\ UNCHANGED <<documents, searchable, evidence, audit, timeline, memory,
                     started, history>>

\* save_evidence: a record of the same identifier is replaced.
PersistEvidence(c) ==
  LET r == requests[c]
  IN  /\ r.phase = "child" /\ r.evidence # NoId
      /\ evidence' = [evidence EXCEPT ![r.id] = @ \cup {r.evidence}]
      /\ requests' = [requests EXCEPT ![c] = Advance(r)]
      /\ UNCHANGED <<documents, searchable, notes, audit, timeline, memory,
                     started, history>>

PersistAudit(c) ==
  LET r == requests[c]
  IN  /\ r.phase = "audit"
      /\ audit' = [audit EXCEPT ![r.id] = @ \cup {Head(r.audits)}]
      /\ requests' = [requests EXCEPT ![c] =
           Advance([r EXCEPT !.audits = Tail(@)])]
      /\ UNCHANGED <<documents, searchable, evidence, notes, timeline, memory,
                     started, history>>

PersistTimeline(c) ==
  LET r == requests[c]
  IN  /\ r.phase = "timeline"
      /\ timeline' = [timeline EXCEPT ![r.id] = @ \cup {Head(r.entries)}]
      /\ requests' = [requests EXCEPT ![c] =
           Advance([r EXCEPT !.entries = Tail(@)])]
      /\ UNCHANGED <<documents, searchable, evidence, notes, audit, memory,
                     started, history>>

\* A write raises, or the request is cancelled: it is answered with an error
\* and what it has written stays.
RequestFails(c) ==
  /\ requests[c].phase \notin {"idle", "searched"}
  /\ broken' = broken \cup {requests[c].id}
  /\ requests' = [requests EXCEPT ![c] = Idle]
  /\ UNCHANGED <<stores, memory, started, promoted, reached, overlapped>>

-----------------------------------------------------------------------------
(* Promotion *)

\* _ensure_not_promoted: OpenSearch evaluates the search.
SearchForAlert(c, a) ==
  /\ requests[c] = Idle
  /\ started < MaxRequests
  /\ \A i \in searchable : a \notin documents[i].alerts
  /\ started' = started + 1
  /\ requests' = [requests EXCEPT ![c].phase = "searched", ![c].alert = a]
  /\ UNCHANGED <<stores, memory, history>>

\* The answer has arrived: create_from_alert_persisted on the application's
\* manager.  Its persisters are None, so it returns without an await and the
\* request is answered 201.
PromoteAlert(c, i) ==
  /\ requests[c].phase = "searched"
  /\ Fresh(i)
  /\ memory' = memory \cup {i}
  /\ promoted' = [promoted EXCEPT ![i] = requests[c].alert]
  /\ requests' = [requests EXCEPT ![c] = Idle]
  /\ UNCHANGED <<stores, started, reached, overlapped, broken>>

-----------------------------------------------------------------------------
(* OpenSearch and the process *)

\* The periodic refresh of the index.
Refresh ==
  /\ searchable' = {i \in IncidentIds : documents[i] # NoIncident}
  /\ UNCHANGED <<documents, evidence, notes, audit, timeline, memory,
                 requests, started, history>>

\* The API process ends, with its requests and its manager.
Restart ==
  /\ memory' = {}
  /\ broken' = broken \cup ({requests[c].id : c \in Clients} \ {NoId})
  /\ requests' = [c \in Clients |-> Idle]
  /\ UNCHANGED <<stores, started, promoted, reached, overlapped>>

Next ==
  \/ \E c \in Clients, i \in IncidentIds, alerts \in SUBSET Alerts,
        user \in Users \cup {Nobody} : CreateIncident(c, i, alerts, user)
  \/ \E c \in Clients, i \in IncidentIds, change \in Changes :
        UpdateIncident(c, i, change)
  \/ \E c \in Clients, i \in IncidentIds, user \in Users \cup {Nobody} :
        AssignIncident(c, i, user)
  \/ \E c \in Clients, i \in IncidentIds, target \in IncidentStatus :
        TransitionIncident(c, i, target)
  \/ \E c \in Clients, i \in IncidentIds : AddNote(c, i)
  \/ \E c \in Clients, i \in IncidentIds, e \in EvidenceIds : AddEvidence(c, i, e)
  \/ \E c \in Clients : PersistIncident(c)
  \/ \E c \in Clients : PersistNote(c)
  \/ \E c \in Clients : PersistEvidence(c)
  \/ \E c \in Clients : PersistAudit(c)
  \/ \E c \in Clients : PersistTimeline(c)
  \/ \E c \in Clients : RequestFails(c)
  \/ \E c \in Clients, a \in Alerts : SearchForAlert(c, a)
  \/ \E c \in Clients, i \in IncidentIds : PromoteAlert(c, i)
  \/ Refresh
  \/ Restart

Spec == Init /\ [][Next]_vars

-----------------------------------------------------------------------------
(* Safety *)

\* A status has been stored only after the one before it: although requests
\* compute from documents that others are replacing, and a late write may
\* take an incident back, none ever skips a step of the lifecycle.
NoStatusSkipped ==
  \A i \in IncidentIds : \A step \in AllowedTransitions :
    step[2] \in reached[i] => step[1] \in reached[i]

\* The audit trail and the timeline never run ahead: an audit entry of a
\* status change joins two statuses the document really had, and the
\* timeline tells of nothing the audit trail lacks.
AuditFollowsStore ==
  \A i \in IncidentIds :
    /\ \A e \in audit[i] : e.action = "incident_status_changed" =>
         /\ CanTransition(e.from, e.to)
         /\ {e.from, e.to} \subseteq reached[i]
    /\ timeline[i] \subseteq audit[i]

PendingAudits(i) ==
  UNION {{requests[c].audits[n] : n \in DOMAIN requests[c].audits} : c \in Running(i)}

\* A status an incident was stored with is in its audit trail, unless the
\* request that stored it is still writing or one ended early.
StatusesAudited ==
  \A i \in IncidentIds \ broken : \A s \in reached[i] \ {"OPEN"} :
    \E e \in audit[i] \cup PendingAudits(i) :
      e.action = "incident_status_changed" /\ e.to = s

\* Updates are lost only where two requests on one incident overlap: without
\* that the document is in the last status it has had and lists all evidence
\* that was recorded, whatever failed.  That an earlier status means a lost
\* update rests on the table of the lifecycle, which leads to none a second
\* time: what docs/phase-12-incident-management.md:35 says of a way back from
\* CONTAINED and RESOLVED to INVESTIGATING is not in the code.
LostOnlyByOverlap ==
  \A i \in IncidentIds \ overlapped : documents[i] # NoIncident =>
    /\ \A step \in AllowedTransitions :
         step[1] = documents[i].status => step[2] \notin reached[i]
    /\ evidence[i] \subseteq documents[i].evidence

\* "Create an Incident and wait for persistence": an incident that a request
\* has answered as created from an alert is stored.
PromotedIsStored ==
  \A i \in IncidentIds : promoted[i] # NoId => documents[i] # NoIncident
=============================================================================
