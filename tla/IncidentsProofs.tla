--------------------------- MODULE IncidentsProofs ---------------------------
(***************************************************************************)
(* What concurrent requests and failing writes cannot do to an incident,   *)
(* for any number of incidents, requests, alerts and users: skip a status, *)
(* record what was not stored, leave a status out of the trail unless a    *)
(* write failed, or undo anything without having overlapped.               *)
(***************************************************************************)
EXTENDS Incidents, SequenceTheorems, TLAPS

\* A request that has something to write.
Writing(r) == r.phase \notin {"idle", "searched"}

\* What a document says it has become, it has been.
StoredIsReached ==
  \A i \in IncidentIds :
    documents[i] # NoIncident => documents[i].status \in reached[i]

\* A document that waits to be written is at most one step ahead of what its
\* incident has been, even if the stored document has changed since.
WaitingIsNext ==
  \A c \in Clients : requests[c].phase = "incident" =>
    \A step \in AllowedTransitions :
      step[2] = requests[c].doc.status => step[1] \in reached[requests[c].id]

LifecycleInv == StoredIsReached /\ WaitingIsNext /\ NoStatusSkipped

\* Entry e may be stored for incident i: the statuses it joins were stored.
Covered(e, i) ==
  e.action = "incident_status_changed" =>
    CanTransition(e.from, e.to) /\ {e.from, e.to} \subseteq reached[i]

\* Entry e will be covered once the document of the request is stored.
CoveredBy(e, r) ==
  e.action = "incident_status_changed" =>
    CanTransition(e.from, e.to) /\ e.from \in reached[r.id] /\ e.to = r.doc.status

\* The entries a request still has to write: covered as soon as its document
\* is stored, and those of the timeline after those of the audit trail.
RequestIsCovered(r) ==
  /\ r.phase = "incident" =>
       /\ r.entries = r.audits
       /\ \A n \in DOMAIN r.audits : CoveredBy(r.audits[n], r)
  /\ r.phase \in {"child", "audit", "timeline"} =>
       /\ \A n \in DOMAIN r.audits : Covered(r.audits[n], r.id)
       /\ \A n \in DOMAIN r.entries :
            \/ r.entries[n] \in audit[r.id]
            \/ \E k \in DOMAIN r.audits : r.entries[n] = r.audits[k]
  /\ r.phase = "audit" => r.audits # <<>>
  /\ r.phase = "timeline" => r.audits = <<>> /\ r.entries # <<>>

WaitingIsCovered == \A c \in Clients : RequestIsCovered(requests[c])

AuditInv == WaitingIsCovered /\ AuditFollowsStore

\* A request that runs on no incident has nothing left to write.
QuietIsEmpty ==
  \A c \in Clients : requests[c].phase \in {"idle", "searched"} =>
    requests[c].id = NoId /\ requests[c].audits = <<>>

\* Entry e records that an incident was moved to status s.
RecordsStatus(e, s) == e.action = "incident_status_changed" /\ e.to = s

\* A request whose document has a status its incident has not had brings the
\* entry with it.
NewStatusRecorded ==
  \A c \in Clients : requests[c].phase = "incident" =>
    \/ requests[c].doc.status \in reached[requests[c].id] \cup {"OPEN"}
    \/ \E n \in DOMAIN requests[c].audits :
         RecordsStatus(requests[c].audits[n], requests[c].doc.status)

TrailInv == QuietIsEmpty /\ NewStatusRecorded /\ StatusesAudited

\* Two requests run on an incident only where overlapped says so.
OneAtATime ==
  \A c, d \in Clients :
    c # d /\ requests[c].id = requests[d].id => requests[c].id \in overlapped \cup {NoId}

\* Before its first document an incident has been nothing and has nothing.
UnstoredIsNew ==
  \A i \in IncidentIds : documents[i] = NoIncident => reached[i] = {} /\ evidence[i] = {}

\* What a request that runs alone writes keeps all evidence there is, and its
\* status is the last; having written the document, it is the stored one.
RequestFollows(r) ==
  /\ r.phase = "child" => documents[r.id] # NoIncident
  /\ r.id \notin overlapped =>
       /\ r.phase = "incident" =>
            /\ evidence[r.id] \subseteq r.doc.evidence
            /\ \A step \in AllowedTransitions :
                 step[1] = r.doc.status => step[2] \notin reached[r.id]
       /\ r.phase = "child" => documents[r.id] = r.doc
       /\ r.phase \in {"incident", "child"} /\ r.evidence # NoId =>
            r.evidence \in r.doc.evidence

RequestsFollow == \A c \in Clients : RequestFollows(requests[c])

LossInv == OneAtATime /\ UnstoredIsNew /\ RequestsFollow /\ LostOnlyByOverlap

-----------------------------------------------------------------------------
(* What a request submits *)

\* The document and the entries follow from the stored document.
Lawful(i, doc, audits) ==
  /\ \/ doc.status = "OPEN" /\ documents[i] = NoIncident
     \/ /\ documents[i] # NoIncident
        /\ \/ doc.status = documents[i].status
           \/ CanTransition(documents[i].status, doc.status)
  /\ \A n \in DOMAIN audits : audits[n].action = "incident_status_changed" =>
       /\ documents[i] # NoIncident
       /\ CanTransition(documents[i].status, doc.status)
       /\ audits[n].from = documents[i].status
       /\ audits[n].to = doc.status

\* The document drops no evidence of the stored one and lists that of the
\* request, and a status that it adds is recorded.
Complete(i, doc, ev, audits) ==
  /\ documents[i] # NoIncident => documents[i].evidence \subseteq doc.evidence
  /\ ev # NoId => ev \in doc.evidence
  /\ \/ doc.status = "OPEN"
     \/ documents[i] # NoIncident /\ doc.status = documents[i].status
     \/ \E n \in DOMAIN audits : RecordsStatus(audits[n], doc.status)

SubmitsLawfully(c) ==
  \E i \in IncidentIds, doc \in Incident, note \in BOOLEAN,
     ev \in EvidenceIds \cup {NoId}, audits \in Seq(IncidentAuditEntry) :
       /\ Lawful(i, doc, audits) /\ Complete(i, doc, ev, audits)
       /\ Submit(c, i, doc, note, ev, audits)

\* A sequence of one element.
LEMMA OneElement ==
  ASSUME NEW S, NEW e \in S
  PROVE  /\ <<e>> \in Seq(S) /\ <<>> \in Seq(S)
         /\ DOMAIN <<e>> = {1} /\ <<e>>[1] = e /\ DOMAIN << >> = {}
OBVIOUS

\* What a PATCH records about the status is the step it takes.
LEMMA UpdateRecords ==
  ASSUME NEW doc \in Incident, NEW change \in Change
  PROVE  /\ UpdateAudits(doc, change) \in Seq(IncidentAuditEntry)
         /\ \A n \in DOMAIN UpdateAudits(doc, change) :
              UpdateAudits(doc, change)[n].action = "incident_status_changed" =>
                /\ change.status \notin {"NONE", doc.status}
                /\ UpdateAudits(doc, change)[n] = StatusEntry(doc.status, change.status)
         /\ change.status \notin {"NONE", doc.status} =>
              \E n \in DOMAIN UpdateAudits(doc, change) :
                UpdateAudits(doc, change)[n] = StatusEntry(doc.status, change.status)
<1> DEFINE d == IF change.details
                THEN <<Entry("incident_updated", "NONE", "NONE")>> ELSE <<>>
           a == IF change.assignee \in {Nobody, doc.assignee} THEN <<>>
                ELSE <<AssignmentEntry(doc)>>
           s == IF change.status \in {"NONE", doc.status} THEN <<>>
                ELSE <<StatusEntry(doc.status, change.status)>>
           Recorded(e) == e.action = "incident_status_changed" =>
                            /\ change.status \notin {"NONE", doc.status}
                            /\ e = StatusEntry(doc.status, change.status)
<1>1. d \in Seq(IncidentAuditEntry) /\ \A n \in DOMAIN d : Recorded(d[n])
  <2>1. Entry("incident_updated", "NONE", "NONE") \in IncidentAuditEntry
    BY DEF Entry, IncidentAuditEntry, AuditAction
  <2>2. Recorded(Entry("incident_updated", "NONE", "NONE"))
    BY DEF Entry
  <2> QED
    BY <2>1, <2>2, OneElement
<1>2. a \in Seq(IncidentAuditEntry) /\ \A n \in DOMAIN a : Recorded(a[n])
  <2>1. AssignmentEntry(doc) \in IncidentAuditEntry
    BY DEF AssignmentEntry, Entry, IncidentAuditEntry, AuditAction
  <2>2. Recorded(AssignmentEntry(doc))
    BY DEF AssignmentEntry, Entry
  <2> QED
    BY <2>1, <2>2, OneElement
<1>3. s \in Seq(IncidentAuditEntry) /\ \A n \in DOMAIN s : Recorded(s[n])
  <2>1. CASE change.status \in {"NONE", doc.status}
    BY <2>1
  <2>2. CASE change.status \notin {"NONE", doc.status}
    <3>1. StatusEntry(doc.status, change.status) \in IncidentAuditEntry
      BY <2>2 DEF StatusEntry, Entry, IncidentAuditEntry, AuditAction, Incident, Change
    <3>2. Recorded(StatusEntry(doc.status, change.status))
      BY <2>2
    <3> QED
      BY <2>2, <3>1, <3>2, OneElement
  <2> QED
    BY <2>1, <2>2
<1>a. change.status \notin {"NONE", doc.status} =>
        s = <<StatusEntry(doc.status, change.status)>>
  OBVIOUS
<1>4. UpdateAudits(doc, change) = d \o a \o s
  BY DEF UpdateAudits
<1> HIDE DEF d, a, s, Recorded
<1>5. d \o a \in Seq(IncidentAuditEntry) /\ \A n \in DOMAIN (d \o a) : Recorded((d \o a)[n])
  BY <1>1, <1>2
<1>6. (d \o a) \o s \in Seq(IncidentAuditEntry)
      /\ \A n \in DOMAIN ((d \o a) \o s) : Recorded(((d \o a) \o s)[n])
  <2> DEFINE p == d \o a
  <2> HIDE DEF p
  <2>1. p \in Seq(IncidentAuditEntry) /\ \A n \in DOMAIN p : Recorded(p[n])
    BY <1>5 DEF p
  <2>2. p \o s \in Seq(IncidentAuditEntry) /\ \A n \in DOMAIN (p \o s) : Recorded((p \o s)[n])
    BY <2>1, <1>3
  <2> QED
    BY <2>2 DEF p
<1>7. ASSUME change.status \notin {"NONE", doc.status}
      PROVE  \E n \in DOMAIN ((d \o a) \o s) :
               ((d \o a) \o s)[n] = StatusEntry(doc.status, change.status)
  <2> DEFINE p == d \o a
             e == StatusEntry(doc.status, change.status)
  <2>1. p \in Seq(IncidentAuditEntry)
    BY <1>5
  <2>2. s = <<e>> /\ s \in Seq(IncidentAuditEntry)
    BY <1>3, <1>a, <1>7
  <2> HIDE DEF p, e
  <2>3. Len(p) + 1 \in DOMAIN (p \o s) /\ (p \o s)[Len(p) + 1] = e
    BY <2>1, <2>2
  <2> QED
    BY <2>3 DEF p, e
<1> QED
  BY <1>4, <1>6, <1>7 DEF Recorded

\* Whatever a request asks for, it submits a document and entries that follow
\* from the document it has read.
LEMMA RequestsAreLawful ==
  ASSUME TypeOK, NEW c \in Clients,
         \/ \E i \in IncidentIds, alerts \in SUBSET Alerts, user \in Users \cup {Nobody} :
              CreateIncident(c, i, alerts, user)
         \/ \E i \in IncidentIds, change \in Changes : UpdateIncident(c, i, change)
         \/ \E i \in IncidentIds, user \in Users \cup {Nobody} : AssignIncident(c, i, user)
         \/ \E i \in IncidentIds, target \in IncidentStatus : TransitionIncident(c, i, target)
         \/ \E i \in IncidentIds : AddNote(c, i)
         \/ \E i \in IncidentIds, e \in EvidenceIds : AddEvidence(c, i, e)
  PROVE  SubmitsLawfully(c)
<1>1. ASSUME NEW i \in IncidentIds, documents[i] # NoIncident
      PROVE  documents[i] \in Incident
  BY <1>1 DEF TypeOK
<1>2. ASSUME NEW i \in IncidentIds, NEW alerts \in SUBSET Alerts,
             NEW user \in Users \cup {Nobody}, CreateIncident(c, i, alerts, user)
      PROVE  SubmitsLawfully(c)
  <2> DEFINE e == Entry("incident_created", "NONE", "OPEN")
  <2>1. e \in IncidentAuditEntry /\ e.action # "incident_status_changed"
    BY DEF Entry, IncidentAuditEntry, AuditAction, IncidentStatus
  <2>2. NewIncident(alerts, user) \in Incident /\ NewIncident(alerts, user).status = "OPEN"
    BY DEF NewIncident, Incident, IncidentStatus
  <2> HIDE DEF e
  <2>3. Lawful(i, NewIncident(alerts, user), <<e>>)
    BY <1>2, <2>1, <2>2, OneElement DEF CreateIncident, Fresh, Lawful
  <2>4. Submit(c, i, NewIncident(alerts, user), FALSE, NoId, <<e>>)
    BY <1>2 DEF CreateIncident, e
  <2>5. Complete(i, NewIncident(alerts, user), NoId, <<e>>)
    BY <1>2, <2>2 DEF CreateIncident, Fresh, Complete
  <2> QED
    BY <2>1, <2>2, <2>3, <2>4, <2>5, OneElement DEF SubmitsLawfully
<1>3. ASSUME NEW i \in IncidentIds, NEW change \in Changes, UpdateIncident(c, i, change)
      PROVE  SubmitsLawfully(c)
  <2> DEFINE doc == UpdatedIncident(documents[i], change)
             audits == UpdateAudits(documents[i], change)
  <2>1. documents[i] # NoIncident /\ documents[i] \in Incident /\ change \in Change
    BY <1>1, <1>3, ChangeAssumption DEF UpdateIncident, Loaded
  <2>2. doc \in Incident /\ doc.evidence = documents[i].evidence
    BY <2>1 DEF UpdatedIncident, Incident, Change
  <2>3. /\ change.status \notin {"NONE", documents[i].status} =>
             doc.status = change.status /\ CanTransition(documents[i].status, doc.status)
        /\ change.status \in {"NONE", documents[i].status} =>
             doc.status = documents[i].status
    BY <1>3, <2>1 DEF UpdateIncident, Loaded, UpdatedIncident, Incident, Change
  <2>4. /\ audits \in Seq(IncidentAuditEntry)
        /\ \A n \in DOMAIN audits : audits[n].action = "incident_status_changed" =>
             /\ change.status \notin {"NONE", documents[i].status}
             /\ audits[n] = StatusEntry(documents[i].status, change.status)
        /\ change.status \notin {"NONE", documents[i].status} =>
             \E n \in DOMAIN audits :
               audits[n] = StatusEntry(documents[i].status, change.status)
    BY <2>1, UpdateRecords
  <2>5. Submit(c, i, doc, FALSE, NoId, audits)
    BY <1>3 DEF UpdateIncident, Loaded
  <2> HIDE DEF doc, audits
  <2>6. Lawful(i, doc, audits)
    BY <2>1, <2>3, <2>4 DEF Lawful, StatusEntry, Entry
  <2>7. Complete(i, doc, NoId, audits)
    BY <2>1, <2>2, <2>3, <2>4 DEF Complete, RecordsStatus, StatusEntry, Entry
  <2> QED
    BY <2>2, <2>4, <2>5, <2>6, <2>7 DEF SubmitsLawfully
<1>4. ASSUME NEW i \in IncidentIds, NEW user \in Users \cup {Nobody}, AssignIncident(c, i, user)
      PROVE  SubmitsLawfully(c)
  <2> DEFINE doc == [documents[i] EXCEPT !.assignee = user]
             e == AssignmentEntry(documents[i])
  <2>1. documents[i] # NoIncident /\ documents[i] \in Incident
    BY <1>1, <1>4 DEF AssignIncident, Loaded
  <2>2. /\ doc \in Incident /\ doc.status = documents[i].status
        /\ doc.evidence = documents[i].evidence
    BY <2>1 DEF Incident
  <2>3. e \in IncidentAuditEntry /\ e.action # "incident_status_changed"
    BY DEF AssignmentEntry, Entry, IncidentAuditEntry, AuditAction
  <2>4. Submit(c, i, doc, FALSE, NoId, <<e>>)
    BY <1>4 DEF AssignIncident, Loaded
  <2> HIDE DEF doc, e
  <2>5. Lawful(i, doc, <<e>>) /\ Complete(i, doc, NoId, <<e>>)
    BY <2>1, <2>2, <2>3, OneElement DEF Lawful, Complete
  <2> QED
    BY <2>2, <2>3, <2>4, <2>5, OneElement DEF SubmitsLawfully
<1>5. ASSUME NEW i \in IncidentIds, NEW target \in IncidentStatus, TransitionIncident(c, i, target)
      PROVE  SubmitsLawfully(c)
  <2> DEFINE doc == [documents[i] EXCEPT !.status = target]
             e == StatusEntry(documents[i].status, target)
  <2>1. documents[i] # NoIncident /\ documents[i] \in Incident
        /\ CanTransition(documents[i].status, target)
    BY <1>1, <1>5 DEF TransitionIncident, Loaded
  <2>2. /\ doc \in Incident /\ doc.status = target
        /\ doc.evidence = documents[i].evidence
    BY <2>1 DEF Incident
  <2>3. /\ e \in IncidentAuditEntry /\ e.from = documents[i].status /\ e.to = target
        /\ RecordsStatus(e, target)
    BY <2>1 DEF StatusEntry, Entry, IncidentAuditEntry, AuditAction, Incident, RecordsStatus
  <2>4. Submit(c, i, doc, FALSE, NoId, <<e>>)
    BY <1>5 DEF TransitionIncident, Loaded
  <2> HIDE DEF doc, e
  <2>5. Lawful(i, doc, <<e>>) /\ Complete(i, doc, NoId, <<e>>)
    BY <2>1, <2>2, <2>3, OneElement DEF Lawful, Complete
  <2> QED
    BY <2>2, <2>3, <2>4, <2>5, OneElement DEF SubmitsLawfully
<1>6. ASSUME NEW i \in IncidentIds, NEW note \in BOOLEAN, NEW ev \in EvidenceIds \cup {NoId},
             NEW doc \in Incident, documents[i] # NoIncident, doc.status = documents[i].status,
             documents[i].evidence \subseteq doc.evidence, ev # NoId => ev \in doc.evidence,
             Submit(c, i, doc, note, ev, <<Entry("incident_updated", "NONE", "NONE")>>)
      PROVE  SubmitsLawfully(c)
  <2> DEFINE e == Entry("incident_updated", "NONE", "NONE")
  <2>1. e \in IncidentAuditEntry /\ e.action # "incident_status_changed"
    BY DEF Entry, IncidentAuditEntry, AuditAction
  <2> HIDE DEF e
  <2>2. Lawful(i, doc, <<e>>) /\ Complete(i, doc, ev, <<e>>)
    BY <1>6, <2>1, OneElement DEF Lawful, Complete
  <2>3. Submit(c, i, doc, note, ev, <<e>>)
    BY <1>6 DEF e
  <2> QED
    BY <2>1, <2>2, <2>3, OneElement DEF SubmitsLawfully
<1>7. ASSUME NEW i \in IncidentIds, AddNote(c, i)
      PROVE  SubmitsLawfully(c)
  BY <1>1, <1>6, <1>7 DEF AddNote, Loaded
<1>8. ASSUME NEW i \in IncidentIds, NEW e \in EvidenceIds, AddEvidence(c, i, e)
      PROVE  SubmitsLawfully(c)
  <2> DEFINE doc == [documents[i] EXCEPT !.evidence = @ \cup {e}]
  <2>1. documents[i] # NoIncident /\ documents[i] \in Incident
    BY <1>1, <1>8 DEF AddEvidence, Loaded
  <2>2. /\ doc \in Incident /\ doc.status = documents[i].status
        /\ documents[i].evidence \subseteq doc.evidence /\ e \in doc.evidence
    BY <2>1 DEF Incident
  <2>3. Submit(c, i, doc, FALSE, e, <<Entry("incident_updated", "NONE", "NONE")>>)
    BY <1>8 DEF AddEvidence, Loaded
  <2> HIDE DEF doc
  <2> QED
    BY <1>6, <2>1, <2>2, <2>3
<1> QED
  BY <1>2, <1>3, <1>4, <1>5, <1>7, <1>8

\* Every step either submits lawfully or is one of the others.
LEMMA StepKinds ==
  ASSUME TypeOK, [Next]_vars
  PROVE  \/ \E c \in Clients : SubmitsLawfully(c)
         \/ \E c \in Clients : \/ PersistIncident(c) \/ PersistNote(c)
                               \/ PersistEvidence(c) \/ PersistAudit(c)
                               \/ PersistTimeline(c) \/ RequestFails(c)
         \/ \E c \in Clients, a \in Alerts : SearchForAlert(c, a)
         \/ \E c \in Clients, i \in IncidentIds : PromoteAlert(c, i)
         \/ Refresh
         \/ Restart
         \/ UNCHANGED vars
BY RequestsAreLawful DEF Next

-----------------------------------------------------------------------------
(* Types *)

\* Moving to the next write keeps a request one.
LEMMA AdvanceType ==
  ASSUME NEW r \in Request, r.id \in IncidentIds, r.doc \in Incident
  PROVE  /\ Advance(r) \in Request
         /\ Writing(Advance(r)) => /\ Advance(r).id = r.id /\ Advance(r).doc = r.doc
                                  /\ Advance(r).audits = r.audits
                                  /\ Advance(r).entries = r.entries
         /\ Advance(r).phase \in {"idle", "audit", "timeline"}
         /\ Advance(r).phase = "audit" => r.audits # <<>>
         /\ Advance(r).phase = "timeline" => r.audits = <<>> /\ r.entries # <<>>
BY DEF Advance, Idle, Request, Writing

\* The tail of what is left to write.
LEMMA TailType ==
  ASSUME NEW S, NEW q \in Seq(S), q # <<>>
  PROVE  /\ Head(q) \in S /\ Tail(q) \in Seq(S)
         /\ 1 \in DOMAIN q /\ Head(q) = q[1]
         /\ \A n \in DOMAIN Tail(q) : n + 1 \in DOMAIN q /\ Tail(q)[n] = q[n + 1]
         /\ \A n \in DOMAIN q : q[n] = Head(q) \/ \E k \in DOMAIN Tail(q) : q[n] = Tail(q)[k]
<1>1. /\ Head(q) \in S /\ Tail(q) \in Seq(S)
      /\ 1 \in DOMAIN q /\ Head(q) = q[1]
      /\ \A n \in DOMAIN Tail(q) : n + 1 \in DOMAIN q /\ Tail(q)[n] = q[n + 1]
  OBVIOUS
<1>2. ASSUME NEW n \in DOMAIN q, n # 1
      PROVE  n - 1 \in DOMAIN Tail(q) /\ q[n] = Tail(q)[n - 1]
  BY <1>2
<1> QED
  BY <1>1, <1>2

\* Every step keeps the types.
LEMMA TypeInductive == TypeOK /\ WaitingIsCovered /\ [Next]_vars => TypeOK'
<1> SUFFICES ASSUME TypeOK, WaitingIsCovered, [Next]_vars PROVE TypeOK'
  OBVIOUS
<1>1. ASSUME NEW c \in Clients, SubmitsLawfully(c)
      PROVE  TypeOK'
  <2>1. PICK i \in IncidentIds, doc \in Incident, note \in BOOLEAN,
             ev \in EvidenceIds \cup {NoId}, audits \in Seq(IncidentAuditEntry) :
               Submit(c, i, doc, note, ev, audits)
    BY <1>1 DEF SubmitsLawfully
  <2> DEFINE r == [phase |-> "incident", id |-> i, alert |-> NoId, doc |-> doc,
                   note |-> note, evidence |-> ev, audits |-> audits, entries |-> audits]
  <2>2. r \in Request /\ r.id \in IncidentIds /\ r.doc \in Incident
    BY DEF Request
  <2>3. requests' = [requests EXCEPT ![c] = r] /\ started' \in 0..MaxRequests
        /\ overlapped' \subseteq IncidentIds
        /\ UNCHANGED <<stores, memory, promoted, reached, broken>>
    BY <2>1, BoundAssumption DEF Submit, TypeOK
  <2> HIDE DEF r
  <2> QED
    BY <2>2, <2>3 DEF TypeOK, stores
<1>2. ASSUME NEW c \in Clients, PersistIncident(c)
      PROVE  TypeOK'
  <2> DEFINE r == requests[c]
             s == [r EXCEPT !.phase = "child"]
  <2>1. r \in Request /\ r.id \in IncidentIds /\ r.doc \in Incident
    BY <1>2 DEF PersistIncident, TypeOK
  <2>2. s \in Request /\ s.id \in IncidentIds /\ s.doc \in Incident
    BY <2>1 DEF Request
  <2>3. Advance(r) \in Request /\ (Writing(Advance(r)) =>
          Advance(r).id \in IncidentIds /\ Advance(r).doc \in Incident)
    BY <2>1, AdvanceType
  <2>4. documents' \in [IncidentIds -> Incident \cup {NoIncident}]
        /\ reached' \in [IncidentIds -> SUBSET IncidentStatus]
    BY <1>2, <2>1 DEF PersistIncident, TypeOK, Incident
  <2>5. searchable' \subseteq {i \in IncidentIds : documents'[i] # NoIncident}
    BY <1>2, <2>1, NoneAssumption DEF PersistIncident, TypeOK
  <2>6. \E t \in {s, Advance(r)} : requests' = [requests EXCEPT ![c] = t]
    BY <1>2 DEF PersistIncident
  <2>7. UNCHANGED <<evidence, notes, audit, timeline, memory, started, promoted,
                    overlapped, broken>>
    BY <1>2 DEF PersistIncident
  <2> HIDE DEF r, s
  <2> QED
    BY <2>2, <2>3, <2>4, <2>5, <2>6, <2>7 DEF TypeOK, Writing
<1>3. ASSUME NEW c \in Clients, NEW r \in Request, r.id \in IncidentIds, r.doc \in Incident,
             requests' = [requests EXCEPT ![c] = Advance(r)],
             UNCHANGED <<documents, searchable, memory, started, history>>,
             notes' \subseteq IncidentIds,
             evidence' \in [IncidentIds -> SUBSET EvidenceIds],
             audit' \in [IncidentIds -> SUBSET IncidentAuditEntry],
             timeline' \in [IncidentIds -> SUBSET IncidentAuditEntry]
      PROVE  TypeOK'
  <2>1. Advance(r) \in Request /\ (Writing(Advance(r)) =>
          Advance(r).id \in IncidentIds /\ Advance(r).doc \in Incident)
    BY <1>3, AdvanceType
  <2> QED
    BY <1>3, <2>1 DEF TypeOK, history, Writing
<1>4. ASSUME NEW c \in Clients, PersistNote(c)
      PROVE  TypeOK'
  <2>1. requests[c] \in Request /\ requests[c].id \in IncidentIds
        /\ requests[c].doc \in Incident
    BY <1>4 DEF PersistNote, TypeOK
  <2> QED
    BY <1>3, <1>4, <2>1 DEF PersistNote, TypeOK
<1>5. ASSUME NEW c \in Clients, PersistEvidence(c)
      PROVE  TypeOK'
  <2>1. requests[c] \in Request /\ requests[c].id \in IncidentIds
        /\ requests[c].doc \in Incident
    BY <1>5 DEF PersistEvidence, TypeOK
  <2>2. requests[c].evidence \in EvidenceIds
    BY <1>5, <2>1 DEF PersistEvidence, Request
  <2> QED
    BY <1>3, <1>5, <2>1, <2>2 DEF PersistEvidence, TypeOK
<1>6. ASSUME NEW c \in Clients, PersistAudit(c)
      PROVE  TypeOK'
  <2> DEFINE r == requests[c]
             s == [r EXCEPT !.audits = Tail(@)]
  <2>1. r \in Request /\ r.id \in IncidentIds /\ r.doc \in Incident
        /\ r.audits # <<>> /\ r.audits \in Seq(IncidentAuditEntry)
    BY <1>6 DEF PersistAudit, TypeOK, WaitingIsCovered, RequestIsCovered, Request
  <2>2. Head(r.audits) \in IncidentAuditEntry /\ Tail(r.audits) \in Seq(IncidentAuditEntry)
    BY <2>1, TailType
  <2>3. s \in Request /\ s.id \in IncidentIds /\ s.doc \in Incident
    BY <2>1, <2>2 DEF Request
  <2>4. requests' = [requests EXCEPT ![c] = Advance(s)]
    BY <1>6 DEF PersistAudit
  <2>5. audit' \in [IncidentIds -> SUBSET IncidentAuditEntry]
    BY <1>6, <2>1, <2>2 DEF PersistAudit, TypeOK
  <2> HIDE DEF s
  <2> QED
    BY <1>3, <1>6, <2>3, <2>4, <2>5 DEF PersistAudit, TypeOK
<1>7. ASSUME NEW c \in Clients, PersistTimeline(c)
      PROVE  TypeOK'
  <2> DEFINE r == requests[c]
             s == [r EXCEPT !.entries = Tail(@)]
  <2>1. r \in Request /\ r.id \in IncidentIds /\ r.doc \in Incident
        /\ r.entries # <<>> /\ r.entries \in Seq(IncidentAuditEntry)
    BY <1>7 DEF PersistTimeline, TypeOK, WaitingIsCovered, RequestIsCovered, Request
  <2>2. Head(r.entries) \in IncidentAuditEntry /\ Tail(r.entries) \in Seq(IncidentAuditEntry)
    BY <2>1, TailType
  <2>3. s \in Request /\ s.id \in IncidentIds /\ s.doc \in Incident
    BY <2>1, <2>2 DEF Request
  <2>4. requests' = [requests EXCEPT ![c] = Advance(s)]
    BY <1>7 DEF PersistTimeline
  <2>5. timeline' \in [IncidentIds -> SUBSET IncidentAuditEntry]
    BY <1>7, <2>1, <2>2 DEF PersistTimeline, TypeOK
  <2> HIDE DEF s
  <2> QED
    BY <1>3, <1>7, <2>3, <2>4, <2>5 DEF PersistTimeline, TypeOK
<1>8. Idle \in Request
  BY DEF Idle, Request
<1>9. ASSUME NEW c \in Clients, RequestFails(c)
      PROVE  TypeOK'
  BY <1>8, <1>9 DEF RequestFails, TypeOK, Idle, stores
<1>10. ASSUME NEW c \in Clients, NEW a \in Alerts, SearchForAlert(c, a)
       PROVE  TypeOK'
  <2>1. requests' = [requests EXCEPT ![c] = [Idle EXCEPT !.phase = "searched", !.alert = a]]
        /\ [Idle EXCEPT !.phase = "searched", !.alert = a] \in Request
        /\ [Idle EXCEPT !.phase = "searched", !.alert = a].phase = "searched"
    BY <1>10, <1>8 DEF SearchForAlert, TypeOK, Idle, Request
  <2>2. started' \in 0..MaxRequests
    BY <1>10, BoundAssumption DEF SearchForAlert, TypeOK
  <2> QED
    BY <1>10, <2>1, <2>2 DEF SearchForAlert, TypeOK, stores, history
<1>11. ASSUME NEW c \in Clients, NEW i \in IncidentIds, PromoteAlert(c, i)
       PROVE  TypeOK'
  <2>1. promoted' \in [IncidentIds -> Alerts \cup {NoId}]
    BY <1>11 DEF PromoteAlert, TypeOK, Request
  <2> QED
    BY <1>8, <1>11, <2>1 DEF PromoteAlert, TypeOK, Idle, stores
<1>12. CASE Refresh
  BY <1>12 DEF Refresh, TypeOK, history
<1>13. CASE Restart
  <2>1. broken' \subseteq IncidentIds
    BY <1>13 DEF Restart, TypeOK, Request
  <2> QED
    BY <1>8, <1>13, <2>1 DEF Restart, TypeOK, Idle, stores
<1>14. CASE UNCHANGED vars
  BY <1>14 DEF vars, stores, history, TypeOK
<1> QED
  BY <1>1, <1>2, <1>4, <1>5, <1>6, <1>7, <1>9, <1>10, <1>11, <1>12, <1>13, <1>14, StepKinds

-----------------------------------------------------------------------------
(* The lifecycle *)

\* Steps that store no document and begin no write of one keep the invariant.
LEMMA LifecycleFrame ==
  ASSUME LifecycleInv, UNCHANGED <<documents, reached>>,
         \A c \in Clients : requests'[c].phase = "incident" => requests'[c] = requests[c]
  PROVE  LifecycleInv'
<1>1. StoredIsReached' /\ NoStatusSkipped'
  BY DEF LifecycleInv, StoredIsReached, NoStatusSkipped
<1>2. WaitingIsNext'
  BY DEF LifecycleInv, WaitingIsNext
<1> QED
  BY <1>1, <1>2 DEF LifecycleInv

\* No status has two predecessors, and the first has none.
LEMMA OnePredecessor ==
  /\ \A s, t \in AllowedTransitions : s[2] = t[2] => s[1] = t[1]
  /\ \A s \in AllowedTransitions : s[2] # "OPEN" /\ s = <<s[1], s[2]>>
BY DEF AllowedTransitions

\* Every step keeps the lifecycle's invariant.
LEMMA LifecycleInductive ==
  TypeOK /\ WaitingIsCovered /\ LifecycleInv /\ [Next]_vars => LifecycleInv'
<1> SUFFICES ASSUME TypeOK, WaitingIsCovered, LifecycleInv, [Next]_vars
             PROVE  LifecycleInv'
  OBVIOUS
<1>1. ASSUME NEW c \in Clients, SubmitsLawfully(c)
      PROVE  LifecycleInv'
  <2>1. PICK i \in IncidentIds, doc \in Incident, note \in BOOLEAN,
             ev \in EvidenceIds \cup {NoId}, audits \in Seq(IncidentAuditEntry) :
               Lawful(i, doc, audits) /\ Submit(c, i, doc, note, ev, audits)
    BY <1>1 DEF SubmitsLawfully
  <2>2. /\ UNCHANGED <<documents, reached>>
        /\ requests' \in [Clients -> Request]
        /\ requests'[c].id = i /\ requests'[c].doc = doc
        /\ \A d \in Clients \ {c} : requests'[d] = requests[d]
    BY <2>1, TypeInductive DEF Submit, stores, TypeOK
  <2>3. ASSUME NEW step \in AllowedTransitions, step[2] = doc.status
        PROVE  step[1] \in reached[i]
    <3>1. documents[i] # NoIncident /\ documents[i].status \in reached[i]
      BY <2>1, <2>3, OnePredecessor DEF Lawful, LifecycleInv, StoredIsReached
    <3>2. CASE doc.status = documents[i].status
      BY <2>3, <3>1, <3>2 DEF LifecycleInv, NoStatusSkipped
    <3>3. CASE CanTransition(documents[i].status, doc.status)
      <4>1. step[1] = documents[i].status
        BY <2>3, <3>3, OnePredecessor DEF CanTransition
      <4> QED
        BY <3>1, <4>1
    <3> QED
      BY <2>1, <2>3, <3>1, <3>2, <3>3, OnePredecessor DEF Lawful
  <2>4. StoredIsReached' /\ NoStatusSkipped'
    BY <2>2 DEF LifecycleInv, StoredIsReached, NoStatusSkipped
  <2>5. WaitingIsNext'
    BY <2>2, <2>3 DEF LifecycleInv, WaitingIsNext
  <2> QED
    BY <2>4, <2>5 DEF LifecycleInv
<1>2. ASSUME NEW c \in Clients, PersistIncident(c)
      PROVE  LifecycleInv'
  <2> DEFINE r == requests[c]
  <2>1. r \in Request /\ r.id \in IncidentIds /\ r.doc \in Incident /\ r.phase = "incident"
    BY <1>2 DEF PersistIncident, TypeOK
  <2>2. /\ documents' = [documents EXCEPT ![r.id] = r.doc]
        /\ reached' = [reached EXCEPT ![r.id] = @ \cup {r.doc.status}]
    BY <1>2 DEF PersistIncident
  <2>3. requests'[c].phase # "incident"
        /\ \A d \in Clients \ {c} : requests'[d] = requests[d]
    <3>1. Advance(r).phase # "incident"
      BY <2>1, AdvanceType
    <3>2. [r EXCEPT !.phase = "child"].phase # "incident"
      BY <2>1 DEF Request
    <3> QED
      BY <1>2, <3>1, <3>2 DEF PersistIncident, TypeOK
  <2>4. \A i \in IncidentIds : reached[i] \subseteq reached'[i]
    BY <2>1, <2>2 DEF TypeOK
  <2>5. \A step \in AllowedTransitions : step[2] = r.doc.status => step[1] \in reached[r.id]
    BY <2>1 DEF LifecycleInv, WaitingIsNext
  <2>6. StoredIsReached'
    BY <2>1, <2>2, <2>4 DEF LifecycleInv, StoredIsReached, TypeOK
  <2>7. WaitingIsNext'
    <3> SUFFICES ASSUME NEW d \in Clients, requests'[d].phase = "incident",
                        NEW step \in AllowedTransitions,
                        step[2] = requests'[d].doc.status
                 PROVE  step[1] \in reached'[requests'[d].id]
      BY DEF WaitingIsNext
    <3>1. requests'[d] = requests[d] /\ requests[d].id \in IncidentIds
      BY <2>3 DEF TypeOK
    <3>2. step[1] \in reached[requests[d].id]
      BY <3>1 DEF LifecycleInv, WaitingIsNext
    <3> QED
      BY <2>4, <3>1, <3>2
  <2>8. NoStatusSkipped'
    BY <2>1, <2>2, <2>4, <2>5 DEF LifecycleInv, NoStatusSkipped, TypeOK
  <2> QED
    BY <2>6, <2>7, <2>8 DEF LifecycleInv
<1>3. ASSUME NEW c \in Clients,
             PersistNote(c) \/ PersistEvidence(c) \/ PersistAudit(c) \/ PersistTimeline(c)
      PROVE  LifecycleInv'
  <2>1. UNCHANGED <<documents, reached>>
    BY <1>3 DEF PersistNote, PersistEvidence, PersistAudit, PersistTimeline, history
  <2>2. requests[c] \in Request /\ requests[c].id \in IncidentIds
        /\ requests[c].doc \in Incident
    BY <1>3 DEF PersistNote, PersistEvidence, PersistAudit, PersistTimeline, TypeOK
  <2>3. \E r \in Request : /\ r.id \in IncidentIds /\ r.doc \in Incident
                          /\ requests' = [requests EXCEPT ![c] = Advance(r)]
    <3>1. CASE PersistNote(c) \/ PersistEvidence(c)
      BY <2>2, <3>1 DEF PersistNote, PersistEvidence
    <3>2. CASE PersistAudit(c)
      <4> DEFINE r == [requests[c] EXCEPT !.audits = Tail(@)]
      <4>1. requests[c].audits # <<>>
        BY <3>2 DEF PersistAudit, WaitingIsCovered, RequestIsCovered
      <4>2. r \in Request /\ r.id \in IncidentIds /\ r.doc \in Incident
        BY <2>2, <4>1, TailType DEF Request
      <4>3. requests' = [requests EXCEPT ![c] = Advance(r)]
        BY <3>2 DEF PersistAudit
      <4> QED
        BY <4>2, <4>3
    <3>3. CASE PersistTimeline(c)
      <4> DEFINE r == [requests[c] EXCEPT !.entries = Tail(@)]
      <4>1. requests[c].entries # <<>>
        BY <3>3 DEF PersistTimeline, WaitingIsCovered, RequestIsCovered
      <4>2. r \in Request /\ r.id \in IncidentIds /\ r.doc \in Incident
        BY <2>2, <4>1, TailType DEF Request
      <4>3. requests' = [requests EXCEPT ![c] = Advance(r)]
        BY <3>3 DEF PersistTimeline
      <4> QED
        BY <4>2, <4>3
    <3> QED
      BY <1>3, <3>1, <3>2, <3>3
  <2>4. \A d \in Clients : requests'[d].phase = "incident" => requests'[d] = requests[d]
    BY <2>3, AdvanceType DEF TypeOK
  <2> QED
    BY <2>1, <2>4, LifecycleFrame
<1>4. ASSUME NEW c \in Clients, RequestFails(c)
      PROVE  LifecycleInv'
  <2>1. UNCHANGED <<documents, reached>>
    BY <1>4 DEF RequestFails, stores
  <2>2. \A d \in Clients : requests'[d].phase = "incident" => requests'[d] = requests[d]
    BY <1>4 DEF RequestFails, Idle, TypeOK
  <2> QED
    BY <2>1, <2>2, LifecycleFrame
<1>5. ASSUME NEW c \in Clients, NEW a \in Alerts, SearchForAlert(c, a)
      PROVE  LifecycleInv'
  <2>1. UNCHANGED <<documents, reached>>
    BY <1>5 DEF SearchForAlert, stores, history
  <2>2. \A d \in Clients : requests'[d].phase = "incident" => requests'[d] = requests[d]
    BY <1>5 DEF SearchForAlert, Idle, TypeOK
  <2> QED
    BY <2>1, <2>2, LifecycleFrame
<1>6. ASSUME NEW c \in Clients, NEW i \in IncidentIds, PromoteAlert(c, i)
      PROVE  LifecycleInv'
  <2>1. UNCHANGED <<documents, reached>>
    BY <1>6 DEF PromoteAlert, stores
  <2>2. \A d \in Clients : requests'[d].phase = "incident" => requests'[d] = requests[d]
    BY <1>6 DEF PromoteAlert, Idle, TypeOK
  <2> QED
    BY <2>1, <2>2, LifecycleFrame
<1>7. CASE Refresh
  BY <1>7, LifecycleFrame DEF Refresh, history
<1>8. CASE Restart
  BY <1>8, LifecycleFrame DEF Restart, Idle, stores
<1>9. CASE UNCHANGED vars
  BY <1>9, LifecycleFrame DEF vars, stores, history
<1> QED
  BY <1>1, <1>2, <1>3, <1>4, <1>5, <1>6, <1>7, <1>8, <1>9, StepKinds

-----------------------------------------------------------------------------
(* The audit trail and the timeline *)

\* More statuses reached and more entries stored take nothing from what is
\* covered already.
LEMMA CoverGrows ==
  ASSUME TypeOK, \A i \in IncidentIds : reached[i] \subseteq reached'[i],
         \A i \in IncidentIds : audit[i] \subseteq audit'[i],
         NEW r \in Request, r.phase \notin {"idle", "searched"} => r.id \in IncidentIds,
         RequestIsCovered(r)
  PROVE  RequestIsCovered(r)'
<1>1. r.phase = "incident" =>
        /\ r.entries = r.audits
        /\ \A n \in DOMAIN r.audits : CoveredBy(r.audits[n], r)'
  BY DEF RequestIsCovered, CoveredBy
<1>2. r.phase \in {"child", "audit", "timeline"} =>
        /\ \A n \in DOMAIN r.audits : Covered(r.audits[n], r.id)'
        /\ \A n \in DOMAIN r.entries :
             \/ r.entries[n] \in audit'[r.id]
             \/ \E k \in DOMAIN r.audits : r.entries[n] = r.audits[k]
  BY DEF RequestIsCovered, Covered
<1>3. /\ r.phase = "audit" => r.audits # <<>>
      /\ r.phase = "timeline" => r.audits = <<>> /\ r.entries # <<>>
  BY DEF RequestIsCovered
<1> QED
  BY <1>1, <1>2, <1>3 DEF RequestIsCovered

\* The idle request and one that searches have nothing to cover.
LEMMA NothingToCover ==
  ASSUME NEW r, r.phase \in {"idle", "searched"}
  PROVE  RequestIsCovered(r)
BY DEF RequestIsCovered

\* The trail and the timeline stay covered when statuses are added.
LEMMA TrailFrame ==
  ASSUME TypeOK, AuditFollowsStore, UNCHANGED <<audit, timeline>>,
         \A i \in IncidentIds : reached[i] \subseteq reached'[i]
  PROVE  AuditFollowsStore'
BY DEF AuditFollowsStore

\* A step that changes one request, stores no audit entry and no timeline
\* entry, and leaves that request covered, keeps the invariant.
LEMMA CoverFrame ==
  ASSUME TypeOK, AuditInv, UNCHANGED <<audit, timeline>>,
         \A i \in IncidentIds : reached[i] \subseteq reached'[i],
         \A d \in Clients : requests'[d] = requests[d] \/ RequestIsCovered(requests[d])'
  PROVE  AuditInv'
<1>1. AuditFollowsStore'
  BY TrailFrame DEF AuditInv
<1>2. ASSUME NEW d \in Clients
      PROVE  RequestIsCovered(requests[d])'
  <2>1. CASE requests'[d] = requests[d]
    <3> DEFINE r == requests[d]
    <3>1. r \in Request /\ (r.phase \notin {"idle", "searched"} => r.id \in IncidentIds)
          /\ RequestIsCovered(r)
      BY DEF TypeOK, AuditInv, WaitingIsCovered
    <3>2. \A q \in Request : (q.phase \notin {"idle", "searched"} => q.id \in IncidentIds)
            /\ RequestIsCovered(q) => RequestIsCovered(q)'
      BY CoverGrows
    <3> QED
      BY <2>1, <3>1, <3>2 DEF RequestIsCovered, Covered, CoveredBy
  <2> QED
    BY <1>2, <2>1
<1> QED
  BY <1>1, <1>2 DEF AuditInv, WaitingIsCovered

\* Once nothing but the later writes is left, covered entries stay covered by
\* the phase Advance chooses.
LEMMA AdvanceCovered ==
  ASSUME NEW r \in Request, r.id \in IncidentIds, r.doc \in Incident,
         \A n \in DOMAIN r.audits : Covered(r.audits[n], r.id)',
         \A n \in DOMAIN r.entries :
           \/ r.entries[n] \in audit'[r.id]
           \/ \E k \in DOMAIN r.audits : r.entries[n] = r.audits[k]
  PROVE  RequestIsCovered(Advance(r))'
<1> DEFINE q == Advance(r)
<1>1. /\ Writing(q) => /\ q.id = r.id /\ q.doc = r.doc
                      /\ q.audits = r.audits /\ q.entries = r.entries
      /\ q.phase \in {"idle", "audit", "timeline"}
      /\ q.phase = "audit" => r.audits # <<>>
      /\ q.phase = "timeline" => r.audits = <<>> /\ r.entries # <<>>
  BY AdvanceType
<1> HIDE DEF q
<1>2. RequestIsCovered(q)'
  BY <1>1 DEF RequestIsCovered, Covered, Writing
<1> QED
  BY <1>2 DEF q

\* Every step keeps the invariant of the trail.
LEMMA AuditInductive ==
  TypeOK /\ LifecycleInv /\ AuditInv /\ [Next]_vars => AuditInv'
<1> SUFFICES ASSUME TypeOK, LifecycleInv, AuditInv, [Next]_vars PROVE AuditInv'
  OBVIOUS
<1> USE DEF AuditInv
<1>1. ASSUME NEW c \in Clients, SubmitsLawfully(c)
      PROVE  AuditInv'
  <2>1. PICK i \in IncidentIds, doc \in Incident, note \in BOOLEAN,
             ev \in EvidenceIds \cup {NoId}, audits \in Seq(IncidentAuditEntry) :
               Lawful(i, doc, audits) /\ Submit(c, i, doc, note, ev, audits)
    BY <1>1 DEF SubmitsLawfully
  <2> DEFINE r == [phase |-> "incident", id |-> i, alert |-> NoId, doc |-> doc,
                   note |-> note, evidence |-> ev, audits |-> audits, entries |-> audits]
  <2>2. /\ UNCHANGED <<audit, timeline, reached>>
        /\ requests'[c] = r
        /\ \A d \in Clients \ {c} : requests'[d] = requests[d]
    BY <2>1 DEF Submit, stores, TypeOK
  <2>3. \A n \in DOMAIN audits : CoveredBy(audits[n], r)'
    <3> SUFFICES ASSUME NEW n \in DOMAIN audits,
                        audits[n].action = "incident_status_changed"
                 PROVE  /\ CanTransition(audits[n].from, audits[n].to)
                        /\ audits[n].from \in reached[i] /\ audits[n].to = doc.status
      BY <2>2 DEF CoveredBy
    <3> QED
      BY <2>1 DEF Lawful, LifecycleInv, StoredIsReached
  <2>4. RequestIsCovered(requests[c])'
    BY <2>2, <2>3 DEF RequestIsCovered
  <2> QED
    BY <2>2, <2>4, CoverFrame
<1>2. ASSUME NEW c \in Clients, PersistIncident(c)
      PROVE  AuditInv'
  <2>1. PICK r \in Request : r = requests[c]
    BY DEF TypeOK
  <2> DEFINE s == [r EXCEPT !.phase = "child"]
  <2>2. r.phase = "incident" /\ r.id \in IncidentIds /\ r.doc \in Incident
        /\ r.doc.status \in IncidentStatus
    BY <1>2, <2>1 DEF PersistIncident, TypeOK, Incident
  <2>3. /\ UNCHANGED <<audit, timeline>>
        /\ reached' = [reached EXCEPT ![r.id] = @ \cup {r.doc.status}]
        /\ requests'[c] \in {s, Advance(r)}
        /\ \A d \in Clients \ {c} : requests'[d] = requests[d]
    BY <1>2, <2>1 DEF PersistIncident, TypeOK, history
  <2>4. /\ r.entries = r.audits
        /\ \A n \in DOMAIN r.audits : CoveredBy(r.audits[n], r)
    BY <2>1, <2>2 DEF WaitingIsCovered, RequestIsCovered
  <2>5. r.doc.status \in reached'[r.id] /\ reached[r.id] \subseteq reached'[r.id]
    BY <2>2, <2>3 DEF TypeOK
  <2>6. \A n \in DOMAIN r.audits : Covered(r.audits[n], r.id)'
    BY <2>4, <2>5 DEF Covered, CoveredBy
  <2>7. RequestIsCovered(Advance(r))'
    BY <2>2, <2>4, <2>6, AdvanceCovered
  <2>8. RequestIsCovered(s)'
    <3>1. s.phase = "child" /\ s.id = r.id /\ s.audits = r.audits /\ s.entries = r.entries
      BY DEF Request
    <3> HIDE DEF s
    <3> QED
      BY <2>4, <2>6, <3>1 DEF RequestIsCovered, Covered
  <2>9. RequestIsCovered(requests[c])'
    <3>1. CASE requests'[c] = Advance(r)
      BY <2>7, <3>1 DEF RequestIsCovered, Covered, CoveredBy
    <3>2. CASE requests'[c] = s
      <4> HIDE DEF s
      <4> QED
        BY <2>8, <3>2 DEF RequestIsCovered, Covered, CoveredBy
    <3> QED
      BY <2>3, <3>1, <3>2
  <2>10. \A i \in IncidentIds : reached[i] \subseteq reached'[i]
    BY <2>2, <2>3 DEF TypeOK
  <2> QED
    BY <2>3, <2>9, <2>10, CoverFrame
<1>3. ASSUME NEW c \in Clients, PersistNote(c) \/ PersistEvidence(c)
      PROVE  AuditInv'
  <2>1. PICK r \in Request : r = requests[c]
    BY DEF TypeOK
  <2>2. r.phase = "child" /\ r.id \in IncidentIds /\ r.doc \in Incident
    BY <1>3, <2>1 DEF PersistNote, PersistEvidence, TypeOK
  <2>3. /\ UNCHANGED <<audit, timeline, reached>>
        /\ requests'[c] = Advance(r)
        /\ \A d \in Clients \ {c} : requests'[d] = requests[d]
    BY <1>3, <2>1 DEF PersistNote, PersistEvidence, TypeOK, history
  <2>4. /\ \A n \in DOMAIN r.audits : Covered(r.audits[n], r.id)'
        /\ \A n \in DOMAIN r.entries :
             \/ r.entries[n] \in audit'[r.id]
             \/ \E k \in DOMAIN r.audits : r.entries[n] = r.audits[k]
    BY <2>1, <2>2, <2>3 DEF WaitingIsCovered, RequestIsCovered, Covered
  <2>5. RequestIsCovered(requests[c])'
    <3>1. RequestIsCovered(Advance(r))'
      BY <2>2, <2>4, AdvanceCovered
    <3> QED
      BY <2>3, <3>1 DEF RequestIsCovered, Covered, CoveredBy
  <2> QED
    BY <2>3, <2>5, CoverFrame
<1>4. ASSUME NEW c \in Clients, PersistAudit(c)
      PROVE  AuditInv'
  <2>1. PICK r \in Request : r = requests[c]
    BY DEF TypeOK
  <2>2. /\ r.phase = "audit" /\ r.id \in IncidentIds /\ r.doc \in Incident
        /\ r.audits # <<>> /\ r.audits \in Seq(IncidentAuditEntry)
    BY <1>4, <2>1 DEF PersistAudit, TypeOK, WaitingIsCovered, RequestIsCovered, Request
  <2> DEFINE h == Head(r.audits)
             s == [r EXCEPT !.audits = Tail(@)]
  <2>3. /\ UNCHANGED <<timeline, reached>>
        /\ audit' = [audit EXCEPT ![r.id] = @ \cup {h}]
        /\ requests'[c] = Advance(s)
        /\ \A d \in Clients \ {c} : requests'[d] = requests[d]
    BY <1>4, <2>1 DEF PersistAudit, TypeOK, history
  <2>4. /\ h = r.audits[1] /\ 1 \in DOMAIN r.audits /\ Tail(r.audits) \in Seq(IncidentAuditEntry)
        /\ \A n \in DOMAIN Tail(r.audits) :
             n + 1 \in DOMAIN r.audits /\ Tail(r.audits)[n] = r.audits[n + 1]
        /\ \A n \in DOMAIN r.audits :
             r.audits[n] = h \/ \E k \in DOMAIN Tail(r.audits) : r.audits[n] = Tail(r.audits)[k]
    BY <2>2, TailType
  <2>5. /\ s \in Request /\ s.id = r.id /\ s.doc = r.doc
        /\ s.audits = Tail(r.audits) /\ s.entries = r.entries
    BY <2>4 DEF Request
  <2>6. RequestIsCovered(r)
    BY <2>1 DEF WaitingIsCovered
  <2>7. h \in audit'[r.id] /\ \A i \in IncidentIds : audit[i] \subseteq audit'[i]
    BY <2>2, <2>3 DEF TypeOK
  <2> HIDE DEF h, s
  <2>8. \A n \in DOMAIN s.audits : Covered(s.audits[n], s.id)'
    BY <2>2, <2>3, <2>4, <2>5, <2>6 DEF RequestIsCovered, Covered
  <2>9. \A n \in DOMAIN s.entries :
          \/ s.entries[n] \in audit'[s.id]
          \/ \E k \in DOMAIN s.audits : s.entries[n] = s.audits[k]
    <3> SUFFICES ASSUME NEW n \in DOMAIN r.entries
                 PROVE  \/ r.entries[n] \in audit'[r.id]
                        \/ \E k \in DOMAIN Tail(r.audits) : r.entries[n] = Tail(r.audits)[k]
      BY <2>5
    <3>1. \/ r.entries[n] \in audit[r.id]
          \/ \E k \in DOMAIN r.audits : r.entries[n] = r.audits[k]
      BY <2>2, <2>6 DEF RequestIsCovered
    <3> QED
      BY <2>2, <2>4, <2>7, <3>1
  <2>10. RequestIsCovered(Advance(s))'
    BY <2>2, <2>5, <2>8, <2>9, AdvanceCovered
  <2>11. WaitingIsCovered'
    <3> SUFFICES ASSUME NEW d \in Clients PROVE RequestIsCovered(requests[d])'
      BY DEF WaitingIsCovered
    <3>1. CASE d = c
      BY <2>3, <2>10, <3>1 DEF RequestIsCovered, Covered, CoveredBy
    <3>2. CASE d # c
      <4>1. PICK q \in Request : q = requests[d] /\ q = requests'[d]
        BY <2>3, <3>2 DEF TypeOK
      <4>2. RequestIsCovered(q) /\ (q.phase \notin {"idle", "searched"} => q.id \in IncidentIds)
        BY <4>1 DEF WaitingIsCovered, TypeOK
      <4>3. RequestIsCovered(q)'
        BY <2>3, <2>7, <4>2, CoverGrows
      <4> QED
        BY <4>1, <4>3 DEF RequestIsCovered, Covered, CoveredBy
    <3> QED
      BY <3>1, <3>2
  <2>12. AuditFollowsStore'
    <3>1. Covered(h, r.id)
      BY <2>2, <2>4, <2>6 DEF RequestIsCovered
    <3>2. ASSUME NEW i \in IncidentIds, NEW e \in audit'[i],
                 e.action = "incident_status_changed"
          PROVE  CanTransition(e.from, e.to) /\ {e.from, e.to} \subseteq reached[i]
      <4>1. e \in audit[i] \/ (i = r.id /\ e = h)
        BY <2>2, <2>3 DEF TypeOK
      <4> QED
        BY <3>1, <3>2, <4>1 DEF AuditFollowsStore, Covered
    <3> QED
      BY <2>3, <2>7, <3>2 DEF AuditFollowsStore
  <2> QED
    BY <2>11, <2>12
<1>5. ASSUME NEW c \in Clients, PersistTimeline(c)
      PROVE  AuditInv'
  <2>1. PICK r \in Request : r = requests[c]
    BY DEF TypeOK
  <2>2. /\ r.phase = "timeline" /\ r.id \in IncidentIds /\ r.doc \in Incident
        /\ r.audits = <<>> /\ r.entries # <<>> /\ r.entries \in Seq(IncidentAuditEntry)
    BY <1>5, <2>1 DEF PersistTimeline, TypeOK, WaitingIsCovered, RequestIsCovered, Request
  <2> DEFINE h == Head(r.entries)
             s == [r EXCEPT !.entries = Tail(@)]
  <2>3. /\ UNCHANGED <<audit, reached>>
        /\ timeline' = [timeline EXCEPT ![r.id] = @ \cup {h}]
        /\ requests'[c] = Advance(s)
        /\ \A d \in Clients \ {c} : requests'[d] = requests[d]
    BY <1>5, <2>1 DEF PersistTimeline, TypeOK, history
  <2>4. /\ h = r.entries[1] /\ 1 \in DOMAIN r.entries /\ Tail(r.entries) \in Seq(IncidentAuditEntry)
        /\ \A n \in DOMAIN Tail(r.entries) :
             n + 1 \in DOMAIN r.entries /\ Tail(r.entries)[n] = r.entries[n + 1]
    BY <2>2, TailType
  <2>5. /\ s \in Request /\ s.id = r.id /\ s.doc = r.doc
        /\ s.audits = r.audits /\ s.entries = Tail(r.entries)
    BY <2>4 DEF Request
  <2>6. \A n \in DOMAIN r.entries : r.entries[n] \in audit[r.id]
    <3>1. RequestIsCovered(r)
      BY <2>1 DEF WaitingIsCovered
    <3> QED
      BY <2>2, <3>1 DEF RequestIsCovered
  <2> HIDE DEF h, s
  <2>7. RequestIsCovered(Advance(s))'
    <3>1. \A n \in DOMAIN s.audits : Covered(s.audits[n], s.id)'
      BY <2>2, <2>5
    <3>2. \A n \in DOMAIN s.entries : s.entries[n] \in audit'[s.id]
      BY <2>3, <2>4, <2>5, <2>6
    <3> QED
      BY <2>2, <2>5, <3>1, <3>2, AdvanceCovered
  <2>8. WaitingIsCovered'
    <3> SUFFICES ASSUME NEW d \in Clients PROVE RequestIsCovered(requests[d])'
      BY DEF WaitingIsCovered
    <3>1. CASE d = c
      BY <2>3, <2>7, <3>1 DEF RequestIsCovered, Covered, CoveredBy
    <3>2. CASE d # c
      BY <2>3, <3>2 DEF WaitingIsCovered, RequestIsCovered, Covered, CoveredBy
    <3> QED
      BY <3>1, <3>2
  <2>9. AuditFollowsStore'
    <3>1. h \in audit[r.id]
      BY <2>4, <2>6
    <3>2. \A i \in IncidentIds : timeline'[i] \subseteq audit'[i]
      BY <2>2, <2>3, <3>1 DEF AuditFollowsStore, TypeOK
    <3> QED
      BY <2>3, <3>2 DEF AuditFollowsStore
  <2> QED
    BY <2>8, <2>9
<1>6. ASSUME NEW c \in Clients, RequestFails(c)
      PROVE  AuditInv'
  <2>1. \A d \in Clients : requests'[d] = requests[d] \/ requests'[d] = Idle
    BY <1>6 DEF RequestFails, TypeOK
  <2>2. \A d \in Clients : requests'[d] = requests[d] \/ RequestIsCovered(requests[d])'
    BY <2>1 DEF RequestIsCovered, Idle
  <2> QED
    BY <1>6, <2>2, CoverFrame DEF RequestFails, stores
<1>7. ASSUME NEW c \in Clients, NEW a \in Alerts, SearchForAlert(c, a)
      PROVE  AuditInv'
  <2>1. \A d \in Clients : requests'[d] = requests[d] \/ requests'[d].phase = "searched"
    BY <1>7 DEF SearchForAlert, TypeOK, Idle
  <2>2. \A d \in Clients : requests'[d] = requests[d] \/ RequestIsCovered(requests[d])'
    BY <2>1 DEF RequestIsCovered
  <2> QED
    BY <1>7, <2>2, CoverFrame DEF SearchForAlert, stores, history
<1>8. ASSUME NEW c \in Clients, NEW i \in IncidentIds, PromoteAlert(c, i)
      PROVE  AuditInv'
  <2>1. \A d \in Clients : requests'[d] = requests[d] \/ requests'[d] = Idle
    BY <1>8 DEF PromoteAlert, TypeOK
  <2>2. \A d \in Clients : requests'[d] = requests[d] \/ RequestIsCovered(requests[d])'
    BY <2>1 DEF RequestIsCovered, Idle
  <2> QED
    BY <1>8, <2>2, CoverFrame DEF PromoteAlert, stores
<1>9. CASE Refresh
  BY <1>9, CoverFrame DEF Refresh, history
<1>10. CASE Restart
  <2>1. \A d \in Clients : RequestIsCovered(requests[d])'
    BY <1>10 DEF Restart, RequestIsCovered, Idle
  <2> QED
    BY <1>10, <2>1, CoverFrame DEF Restart, stores
<1>11. CASE UNCHANGED vars
  BY <1>11, CoverFrame DEF vars, stores, history
<1> QED
  BY <1>1, <1>2, <1>3, <1>4, <1>5, <1>6, <1>7, <1>8, <1>9, <1>10, <1>11, StepKinds

-----------------------------------------------------------------------------
(* Every status a document has had is recorded, or about to be *)

\* The entries of running requests.
LEMMA PendingMembers ==
  \A i, e :
    /\ e \in PendingAudits(i) <=>
         \E c \in Clients : requests[c].id = i
           /\ \E n \in DOMAIN requests[c].audits : e = requests[c].audits[n]
    /\ e \in PendingAudits(i)' <=>
         \E c \in Clients : requests'[c].id = i
           /\ \E n \in DOMAIN requests'[c].audits : e = requests'[c].audits[n]
BY DEF PendingAudits, Running

\* What request c has not written yet stays with it or is stored now, unless
\* its incident is broken.
EntriesKept(c) ==
  requests[c].id \in IncidentIds \ broken' =>
    \A n \in DOMAIN requests[c].audits :
      \/ requests[c].audits[n] \in audit'[requests[c].id]
      \/ /\ requests'[c].id = requests[c].id
         /\ \E k \in DOMAIN requests'[c].audits :
              requests'[c].audits[k] = requests[c].audits[n]

\* Where entries are kept, what is recorded or about to be stays so.
LEMMA RecordsKept ==
  ASSUME NEW i \in IncidentIds \ broken', audit[i] \subseteq audit'[i],
         \A c \in Clients : EntriesKept(c)
  PROVE  audit[i] \cup PendingAudits(i) \subseteq audit'[i] \cup PendingAudits(i)'
<1> SUFFICES ASSUME NEW e \in PendingAudits(i)
             PROVE  e \in audit'[i] \cup PendingAudits(i)'
  OBVIOUS
<1>1. PICK c \in Clients : requests[c].id = i
        /\ \E n \in DOMAIN requests[c].audits : e = requests[c].audits[n]
  BY PendingMembers
<1>2. PICK n \in DOMAIN requests[c].audits : e = requests[c].audits[n]
  BY <1>1
<1>3. CASE requests[c].audits[n] \in audit'[i]
  BY <1>2, <1>3
<1>4. CASE \E k \in DOMAIN requests'[c].audits :
             requests'[c].id = i /\ requests'[c].audits[k] = e
  BY <1>4, PendingMembers
<1> QED
  BY <1>1, <1>2, <1>3, <1>4 DEF EntriesKept

\* A step that stores no document and loses no entry keeps the invariant.
LEMMA TrailStep ==
  ASSUME TrailInv, QuietIsEmpty', NewStatusRecorded', reached' = reached,
         broken \subseteq broken',
         \A i \in IncidentIds : audit[i] \subseteq audit'[i],
         \A c \in Clients : EntriesKept(c)
  PROVE  TrailInv'
<1> SUFFICES ASSUME NEW i \in IncidentIds \ broken', NEW s \in reached[i] \ {"OPEN"}
             PROVE  \E e \in audit'[i] \cup PendingAudits(i)' :
                      e.action = "incident_status_changed" /\ e.to = s
  BY DEF TrailInv, StatusesAudited
<1>1. PICK e \in audit[i] \cup PendingAudits(i) :
        e.action = "incident_status_changed" /\ e.to = s
  BY DEF TrailInv, StatusesAudited
<1>2. e \in audit'[i] \cup PendingAudits(i)'
  BY RecordsKept
<1> QED
  BY <1>1, <1>2

\* A request that has stored something goes on with the entries it had.
LEMMA AdvanceKeeps ==
  ASSUME NEW r \in Request, r.id \in IncidentIds, r.doc \in Incident
  PROVE  /\ Advance(r).phase \in {"idle", "searched"} =>
              Advance(r).id = NoId /\ Advance(r).audits = <<>>
         /\ Advance(r).phase \notin {"incident", "child"}
         /\ r.audits # <<>> => Advance(r).id = r.id /\ Advance(r).audits = r.audits
         /\ Advance(r) # Idle => Advance(r).id = r.id
         /\ Advance(r) = Idle \/ Writing(Advance(r))
BY DEF Advance, Idle, Request, Writing

\* Every step keeps the invariant.
LEMMA TrailInductive ==
  TypeOK /\ WaitingIsCovered /\ LifecycleInv /\ TrailInv /\ [Next]_vars => TrailInv'
<1> SUFFICES ASSUME TypeOK, WaitingIsCovered, LifecycleInv, TrailInv, [Next]_vars
             PROVE  TrailInv'
  OBVIOUS
<1>1. ASSUME NEW c \in Clients, SubmitsLawfully(c)
      PROVE  TrailInv'
  <2>1. PICK i \in IncidentIds, doc \in Incident, note \in BOOLEAN,
             ev \in EvidenceIds \cup {NoId}, audits \in Seq(IncidentAuditEntry) :
               /\ Lawful(i, doc, audits) /\ Complete(i, doc, ev, audits)
               /\ Submit(c, i, doc, note, ev, audits)
    BY <1>1 DEF SubmitsLawfully
  <2>2. /\ UNCHANGED <<audit, reached, broken>>
        /\ requests'[c].phase = "incident" /\ requests'[c].id = i
        /\ requests'[c].doc = doc /\ requests'[c].audits = audits
        /\ \A d \in Clients \ {c} : requests'[d] = requests[d]
        /\ requests[c].audits = <<>>
    BY <2>1 DEF Submit, stores, TypeOK, Idle
  <2>3. QuietIsEmpty'
    BY <2>2 DEF TrailInv, QuietIsEmpty
  <2>4. NewStatusRecorded'
    <3>1. documents[i] # NoIncident => documents[i].status \in reached[i]
      BY DEF LifecycleInv, StoredIsReached
    <3>2. \/ doc.status \in reached[i] \cup {"OPEN"}
          \/ \E n \in DOMAIN audits : RecordsStatus(audits[n], doc.status)
      BY <2>1, <3>1 DEF Complete
    <3> QED
      BY <2>2, <3>2 DEF TrailInv, NewStatusRecorded, RecordsStatus
  <2>5. \A d \in Clients : EntriesKept(d)
    BY <2>2 DEF EntriesKept
  <2> QED
    BY <2>2, <2>3, <2>4, <2>5, TrailStep
<1>2. ASSUME NEW c \in Clients, PersistIncident(c)
      PROVE  TrailInv'
  <2>1. PICK r \in Request : r = requests[c]
    BY DEF TypeOK
  <2>2. r.phase = "incident" /\ r.id \in IncidentIds /\ r.doc \in Incident
    BY <1>2, <2>1 DEF PersistIncident, TypeOK
  <2>3. /\ UNCHANGED <<audit, broken>>
        /\ reached' = [reached EXCEPT ![r.id] = reached[r.id] \cup {r.doc.status}]
        /\ requests'[c] \in {[r EXCEPT !.phase = "child"], Advance(r)}
        /\ \A d \in Clients \ {c} : requests'[d] = requests[d]
    BY <1>2, <2>1 DEF PersistIncident, TypeOK
  <2>4. /\ r.audits # <<>> => requests'[c].id = r.id /\ requests'[c].audits = r.audits
        /\ requests'[c].phase \in {"idle", "searched"} =>
             requests'[c].id = NoId /\ requests'[c].audits = <<>>
        /\ requests'[c].phase # "incident"
    <3>1. LET s == [r EXCEPT !.phase = "child"]
          IN  s.phase = "child" /\ s.id = r.id /\ s.audits = r.audits
      BY DEF Request
    <3> QED
      BY <2>2, <2>3, <3>1, AdvanceKeeps
  <2>5. QuietIsEmpty'
    BY <2>3, <2>4 DEF TrailInv, QuietIsEmpty
  <2>6. \A i \in IncidentIds : reached[i] \subseteq reached'[i]
    BY <2>2, <2>3 DEF TypeOK
  <2>7. NewStatusRecorded'
    <3> SUFFICES ASSUME NEW d \in Clients, requests'[d].phase = "incident"
                 PROVE  \/ requests'[d].doc.status \in reached'[requests'[d].id] \cup {"OPEN"}
                        \/ \E n \in DOMAIN requests'[d].audits :
                             RecordsStatus(requests'[d].audits[n], requests'[d].doc.status)
      BY DEF NewStatusRecorded, RecordsStatus
    <3>1. requests'[d] = requests[d] /\ requests[d].id \in IncidentIds
      BY <2>3, <2>4 DEF TypeOK
    <3> QED
      BY <3>1, <2>6 DEF TrailInv, NewStatusRecorded
  <2>8. \A d \in Clients : EntriesKept(d)
    <3>1. EntriesKept(c)
      BY <2>1, <2>4 DEF EntriesKept
    <3> QED
      BY <2>3, <3>1 DEF EntriesKept
  <2>9. ASSUME NEW i \in IncidentIds \ broken', NEW s \in reached'[i] \ {"OPEN"}
        PROVE  \E e \in audit'[i] \cup PendingAudits(i)' :
                 e.action = "incident_status_changed" /\ e.to = s
    <3>1. audit[i] \cup PendingAudits(i) \subseteq audit'[i] \cup PendingAudits(i)'
      BY <2>3, <2>8, RecordsKept
    <3>2. CASE s \in reached[i]
      BY <2>3, <3>1, <3>2 DEF TrailInv, StatusesAudited
    <3>3. CASE s \notin reached[i]
      <4>1. i = r.id /\ s = r.doc.status
        BY <2>2, <2>3, <2>9, <3>3 DEF TypeOK
      <4>2. PICK n \in DOMAIN r.audits : RecordsStatus(r.audits[n], s)
        BY <2>1, <2>2, <2>9, <3>3, <4>1 DEF TrailInv, NewStatusRecorded
      <4>3. r.audits[n] \in PendingAudits(i)
        BY <2>1, <4>1, PendingMembers
      <4> QED
        BY <3>1, <4>2, <4>3 DEF RecordsStatus
    <3> QED
      BY <3>2, <3>3
  <2> QED
    BY <2>5, <2>7, <2>9 DEF TrailInv, StatusesAudited
<1>3. ASSUME NEW c \in Clients,
             PersistNote(c) \/ PersistEvidence(c) \/ PersistTimeline(c)
      PROVE  TrailInv'
  <2>1. PICK r \in Request : r = requests[c]
    BY DEF TypeOK
  <2>2. r.phase \notin {"idle", "searched"} /\ r.id \in IncidentIds /\ r.doc \in Incident
    BY <1>3, <2>1 DEF PersistNote, PersistEvidence, PersistTimeline, TypeOK
  <2>3. /\ UNCHANGED <<audit, reached, broken>>
        /\ \E s \in Request : /\ s.id = r.id /\ s.doc = r.doc /\ s.audits = r.audits
                              /\ requests'[c] = Advance(s)
        /\ \A d \in Clients \ {c} : requests'[d] = requests[d]
    <3>1. CASE PersistNote(c) \/ PersistEvidence(c)
      BY <2>1, <3>1 DEF PersistNote, PersistEvidence, history, TypeOK
    <3>2. CASE PersistTimeline(c)
      <4> DEFINE s == [r EXCEPT !.entries = Tail(@)]
      <4>1. r.entries # <<>>
        BY <2>1, <3>2 DEF PersistTimeline, WaitingIsCovered, RequestIsCovered
      <4>2. s \in Request /\ s.id = r.id /\ s.doc = r.doc /\ s.audits = r.audits
        BY <4>1, TailType DEF Request
      <4>3. requests' = [requests EXCEPT ![c] = Advance(s)] /\ UNCHANGED <<audit, history>>
        BY <2>1, <3>2 DEF PersistTimeline
      <4> HIDE DEF s
      <4> QED
        BY <4>2, <4>3 DEF history, TypeOK
    <3> QED
      BY <1>3, <3>1, <3>2
  <2>4. PICK s \in Request : /\ s.id = r.id /\ s.doc = r.doc /\ s.audits = r.audits
                            /\ requests'[c] = Advance(s)
    BY <2>3
  <2>5. /\ r.audits # <<>> => requests'[c].id = r.id /\ requests'[c].audits = r.audits
        /\ requests'[c].phase \in {"idle", "searched"} =>
             requests'[c].id = NoId /\ requests'[c].audits = <<>>
        /\ requests'[c].phase # "incident"
    BY <2>2, <2>4, AdvanceKeeps
  <2>6. QuietIsEmpty' /\ NewStatusRecorded'
    BY <2>3, <2>5 DEF TrailInv, QuietIsEmpty, NewStatusRecorded, RecordsStatus
  <2>7. \A d \in Clients : EntriesKept(d)
    <3>1. EntriesKept(c)
      BY <2>1, <2>5 DEF EntriesKept
    <3> QED
      BY <2>3, <3>1 DEF EntriesKept
  <2> QED
    BY <2>3, <2>6, <2>7, TrailStep
<1>4. ASSUME NEW c \in Clients, PersistAudit(c)
      PROVE  TrailInv'
  <2>1. PICK r \in Request : r = requests[c]
    BY DEF TypeOK
  <2>2. /\ r.phase = "audit" /\ r.id \in IncidentIds /\ r.doc \in Incident
        /\ r.audits # <<>> /\ r.audits \in Seq(IncidentAuditEntry)
    BY <1>4, <2>1 DEF PersistAudit, TypeOK, WaitingIsCovered, RequestIsCovered, Request
  <2> DEFINE h == Head(r.audits)
             s == [r EXCEPT !.audits = Tail(@)]
  <2>3. /\ UNCHANGED <<reached, broken>>
        /\ audit' = [audit EXCEPT ![r.id] = audit[r.id] \cup {h}]
        /\ requests'[c] = Advance(s)
        /\ \A d \in Clients \ {c} : requests'[d] = requests[d]
    BY <1>4, <2>1 DEF PersistAudit, TypeOK, history
  <2>4. /\ Tail(r.audits) \in Seq(IncidentAuditEntry)
        /\ \A n \in DOMAIN r.audits :
             r.audits[n] = h \/ \E k \in DOMAIN Tail(r.audits) : r.audits[n] = Tail(r.audits)[k]
    BY <2>2, TailType
  <2>5. /\ s \in Request /\ s.id = r.id /\ s.doc = r.doc /\ s.audits = Tail(r.audits)
    BY <2>4 DEF Request
  <2> HIDE DEF h, s
  <2>6. /\ s.audits # <<>> => requests'[c].id = r.id /\ requests'[c].audits = s.audits
        /\ requests'[c].phase \in {"idle", "searched"} =>
             requests'[c].id = NoId /\ requests'[c].audits = <<>>
        /\ requests'[c].phase # "incident"
    BY <2>2, <2>3, <2>5, AdvanceKeeps
  <2>7. QuietIsEmpty' /\ NewStatusRecorded'
    BY <2>3, <2>6 DEF TrailInv, QuietIsEmpty, NewStatusRecorded, RecordsStatus
  <2>8. h \in audit'[r.id] /\ \A i \in IncidentIds : audit[i] \subseteq audit'[i]
    BY <2>2, <2>3 DEF TypeOK
  <2>9. EntriesKept(c)
    <3> SUFFICES ASSUME NEW n \in DOMAIN r.audits, r.audits[n] # h
                 PROVE  /\ requests'[c].id = r.id
                        /\ \E k \in DOMAIN requests'[c].audits :
                             requests'[c].audits[k] = r.audits[n]
      BY <2>1, <2>8 DEF EntriesKept
    <3>1. PICK k \in DOMAIN Tail(r.audits) : r.audits[n] = Tail(r.audits)[k]
      BY <2>4
    <3>2. s.audits # <<>>
      BY <2>5, <3>1
    <3> QED
      BY <2>5, <2>6, <3>1, <3>2
  <2>10. \A d \in Clients : EntriesKept(d)
    BY <2>3, <2>9 DEF EntriesKept
  <2> QED
    BY <2>3, <2>7, <2>8, <2>10, TrailStep
<1>5. ASSUME NEW c \in Clients, RequestFails(c)
      PROVE  TrailInv'
  <2>1. /\ UNCHANGED <<audit, reached>> /\ requests'[c] = Idle
        /\ \A d \in Clients \ {c} : requests'[d] = requests[d]
        /\ broken' = broken \cup {requests[c].id}
    BY <1>5 DEF RequestFails, stores, TypeOK
  <2>2. QuietIsEmpty' /\ NewStatusRecorded'
    BY <2>1 DEF TrailInv, QuietIsEmpty, NewStatusRecorded, RecordsStatus, Idle
  <2>3. \A d \in Clients : EntriesKept(d)
    BY <2>1 DEF EntriesKept
  <2> QED
    BY <2>1, <2>2, <2>3, TrailStep
<1>6. ASSUME NEW c \in Clients, NEW a \in Alerts, SearchForAlert(c, a)
      PROVE  TrailInv'
  <2>1. /\ UNCHANGED <<audit, reached, broken>> /\ requests[c] = Idle
        /\ requests'[c].phase = "searched" /\ requests'[c].id = NoId
        /\ requests'[c].audits = <<>>
        /\ \A d \in Clients \ {c} : requests'[d] = requests[d]
    BY <1>6 DEF SearchForAlert, stores, history, TypeOK, Idle
  <2>2. QuietIsEmpty' /\ NewStatusRecorded'
    BY <2>1 DEF TrailInv, QuietIsEmpty, NewStatusRecorded, RecordsStatus
  <2>3. \A d \in Clients : EntriesKept(d)
    BY <2>1 DEF EntriesKept, Idle
  <2> QED
    BY <2>1, <2>2, <2>3, TrailStep
<1>7. ASSUME NEW c \in Clients, NEW i \in IncidentIds, PromoteAlert(c, i)
      PROVE  TrailInv'
  <2>1. /\ UNCHANGED <<audit, reached, broken>> /\ requests'[c] = Idle
        /\ requests[c].audits = <<>>
        /\ \A d \in Clients \ {c} : requests'[d] = requests[d]
    BY <1>7 DEF PromoteAlert, stores, TypeOK, TrailInv, QuietIsEmpty
  <2>2. QuietIsEmpty' /\ NewStatusRecorded'
    BY <2>1 DEF TrailInv, QuietIsEmpty, NewStatusRecorded, RecordsStatus, Idle
  <2>3. \A d \in Clients : EntriesKept(d)
    BY <2>1 DEF EntriesKept
  <2> QED
    BY <2>1, <2>2, <2>3, TrailStep
<1>8. CASE Refresh \/ UNCHANGED vars
  <2>1. UNCHANGED <<audit, reached, broken, requests>>
    BY <1>8 DEF Refresh, vars, stores, history
  <2>2. QuietIsEmpty' /\ NewStatusRecorded'
    BY <2>1 DEF TrailInv, QuietIsEmpty, NewStatusRecorded, RecordsStatus
  <2>3. \A d \in Clients : EntriesKept(d)
    BY <2>1 DEF EntriesKept
  <2> QED
    BY <2>1, <2>2, <2>3, TrailStep
<1>9. CASE Restart
  <2>1. /\ UNCHANGED <<audit, reached>> /\ \A d \in Clients : requests'[d] = Idle
        /\ broken' = broken \cup ({requests[c].id : c \in Clients} \ {NoId})
    BY <1>9 DEF Restart, stores
  <2>2. QuietIsEmpty' /\ NewStatusRecorded'
    BY <2>1 DEF QuietIsEmpty, NewStatusRecorded, RecordsStatus, Idle
  <2>3. \A d \in Clients : EntriesKept(d)
    BY <2>1, NoneAssumption DEF EntriesKept
  <2> QED
    BY <2>1, <2>2, <2>3, TrailStep
<1> QED
  BY <1>1, <1>2, <1>3, <1>4, <1>5, <1>6, <1>7, <1>8, <1>9, StepKinds

-----------------------------------------------------------------------------
(* Updates that are lost *)

\* A step that stores nothing of an incident, and at most brings requests past
\* their document and their record, keeps the invariant.
LEMMA LossFrame ==
  ASSUME LossInv, UNCHANGED <<documents, evidence, reached, overlapped>>,
         \A d \in Clients :
           \/ requests'[d] = requests[d]
           \/ /\ requests'[d].phase \notin {"incident", "child"}
              /\ requests'[d].id \in {requests[d].id, NoId}
  PROVE  LossInv'
<1>1. UnstoredIsNew' /\ LostOnlyByOverlap'
  BY DEF LossInv, UnstoredIsNew, LostOnlyByOverlap
<1>2. OneAtATime'
  BY DEF LossInv, OneAtATime
<1>3. RequestsFollow'
  <2> SUFFICES ASSUME NEW d \in Clients
               PROVE  RequestFollows(requests[d])'
    BY DEF RequestsFollow
  <2>1. CASE requests'[d] = requests[d]
    BY <2>1 DEF LossInv, RequestsFollow, RequestFollows
  <2>2. CASE requests'[d].phase \notin {"incident", "child"}
    BY <2>2 DEF RequestFollows
  <2> QED
    BY <2>1, <2>2
<1> QED
  BY <1>1, <1>2, <1>3 DEF LossInv

\* A request that has read a document computes one that takes nothing back.
LEMMA SubmissionFollows ==
  ASSUME LossInv, NoStatusSkipped, NEW i \in IncidentIds \ overlapped, NEW doc \in Incident,
         NEW ev \in EvidenceIds \cup {NoId}, NEW audits,
         Lawful(i, doc, audits), Complete(i, doc, ev, audits)
  PROVE  /\ evidence[i] \subseteq doc.evidence
         /\ ev # NoId => ev \in doc.evidence
         /\ \A step \in AllowedTransitions :
              step[1] = doc.status => step[2] \notin reached[i]
<1>1. evidence[i] \subseteq doc.evidence
  BY DEF LossInv, LostOnlyByOverlap, UnstoredIsNew, Complete
<1>2. ASSUME NEW step \in AllowedTransitions, step[1] = doc.status, step[2] \in reached[i]
      PROVE  FALSE
  <2>1. documents[i] # NoIncident
    BY <1>2 DEF LossInv, UnstoredIsNew
  <2>2. doc.status # documents[i].status
    BY <1>2, <2>1 DEF LossInv, LostOnlyByOverlap
  <2>3. <<documents[i].status, doc.status>> \in AllowedTransitions
    BY <2>1, <2>2 DEF Lawful, CanTransition
  <2>4. doc.status \in reached[i]
    BY <1>2 DEF NoStatusSkipped
  <2> DEFINE taken == <<documents[i].status, doc.status>>
  <2>5. taken \in AllowedTransitions /\ taken[1] = documents[i].status /\ taken[2] = doc.status
    BY <2>3
  <2> HIDE DEF taken
  <2> QED
    BY <2>1, <2>4, <2>5 DEF LossInv, LostOnlyByOverlap
<1> QED
  BY <1>1, <1>2 DEF Complete

\* Every step keeps the invariant.
LEMMA LossInductive ==
  /\ TypeOK /\ WaitingIsCovered /\ LifecycleInv /\ TrailInv /\ LossInv
  /\ [Next]_vars
  => LossInv'
<1> SUFFICES ASSUME TypeOK, WaitingIsCovered, LifecycleInv, TrailInv, LossInv, [Next]_vars
             PROVE  LossInv'
  OBVIOUS
<1>1. ASSUME NEW c \in Clients, SubmitsLawfully(c)
      PROVE  LossInv'
  <2>1. PICK i \in IncidentIds, doc \in Incident, note \in BOOLEAN,
             ev \in EvidenceIds \cup {NoId}, audits \in Seq(IncidentAuditEntry) :
               /\ Lawful(i, doc, audits) /\ Complete(i, doc, ev, audits)
               /\ Submit(c, i, doc, note, ev, audits)
    BY <1>1 DEF SubmitsLawfully
  <2>2. /\ UNCHANGED <<documents, evidence, reached>>
        /\ requests'[c].phase = "incident" /\ requests'[c].id = i
        /\ requests'[c].doc = doc /\ requests'[c].evidence = ev
        /\ \A d \in Clients \ {c} : requests'[d] = requests[d]
        /\ overlapped \subseteq overlapped'
        /\ i \notin overlapped' => \A d \in Clients : requests[d].id # i
    BY <2>1 DEF Submit, stores, TypeOK, Running
  <2>3. UnstoredIsNew' /\ LostOnlyByOverlap'
    BY <2>2 DEF LossInv, UnstoredIsNew, LostOnlyByOverlap
  <2>4. OneAtATime'
    BY <2>2 DEF LossInv, OneAtATime
  <2>5. RequestFollows(requests[c])'
    <3>1. i \notin overlapped' =>
            /\ evidence[i] \subseteq doc.evidence
            /\ ev # NoId => ev \in doc.evidence
            /\ \A step \in AllowedTransitions :
                 step[1] = doc.status => step[2] \notin reached[i]
      BY <2>1, <2>2, SubmissionFollows DEF LifecycleInv
    <3> QED
      BY <2>2, <3>1 DEF RequestFollows
  <2>6. RequestsFollow'
    <3> SUFFICES ASSUME NEW d \in Clients, d # c
                 PROVE  RequestFollows(requests[d])'
      BY <2>5 DEF RequestsFollow
    <3> QED
      BY <2>2 DEF LossInv, RequestsFollow, RequestFollows
  <2> QED
    BY <2>3, <2>4, <2>6 DEF LossInv
<1>2. ASSUME NEW c \in Clients, PersistIncident(c)
      PROVE  LossInv'
  <2>1. PICK r \in Request : r = requests[c]
    BY DEF TypeOK
  <2>2. r.phase = "incident" /\ r.id \in IncidentIds /\ r.doc \in Incident
        /\ r.doc # NoIncident /\ r.id # NoId
    BY <1>2, <2>1, NoneAssumption DEF PersistIncident, TypeOK
  <2>3. /\ UNCHANGED <<evidence, overlapped>>
        /\ documents' = [documents EXCEPT ![r.id] = r.doc]
        /\ reached' = [reached EXCEPT ![r.id] = reached[r.id] \cup {r.doc.status}]
        /\ requests'[c] \in {[r EXCEPT !.phase = "child"], Advance(r)}
        /\ \A d \in Clients \ {c} : requests'[d] = requests[d]
    BY <1>2, <2>1 DEF PersistIncident, TypeOK
  <2>4. /\ requests'[c].id \in {r.id, NoId}
        /\ requests'[c].phase # "incident"
        /\ requests'[c].phase = "child" =>
             requests'[c].id = r.id /\ requests'[c].doc = r.doc
               /\ requests'[c].evidence = r.evidence
    <3>1. LET s == [r EXCEPT !.phase = "child"]
          IN  s.phase = "child" /\ s.id = r.id /\ s.doc = r.doc /\ s.evidence = r.evidence
      BY DEF Request
    <3>2. Advance(r).id \in {r.id, NoId} /\ Advance(r).phase \notin {"incident", "child"}
      BY <2>2, AdvanceKeeps DEF Idle
    <3> QED
      BY <2>2, <2>3, <3>1, <3>2
  <2>5. /\ documents'[r.id] = r.doc /\ reached'[r.id] = reached[r.id] \cup {r.doc.status}
        /\ \A i \in IncidentIds \ {r.id} : documents'[i] = documents[i] /\ reached'[i] = reached[i]
    BY <2>2, <2>3 DEF TypeOK
  <2>6. r.id \notin overlapped =>
          /\ evidence[r.id] \subseteq r.doc.evidence
          /\ r.evidence # NoId => r.evidence \in r.doc.evidence
          /\ \A step \in AllowedTransitions :
               step[1] = r.doc.status => step[2] \notin reached[r.id]
    BY <2>1, <2>2 DEF LossInv, RequestsFollow, RequestFollows
  <2>7. \A step \in AllowedTransitions : step[1] # step[2]
    BY DEF AllowedTransitions
  <2>8. UnstoredIsNew' /\ LostOnlyByOverlap'
    <3>1. UnstoredIsNew'
      BY <2>2, <2>3, <2>5 DEF LossInv, UnstoredIsNew
    <3>2. LostOnlyByOverlap'
      <4> SUFFICES ASSUME NEW i \in IncidentIds \ overlapped, documents'[i] # NoIncident
                   PROVE  /\ \A step \in AllowedTransitions :
                               step[1] = documents'[i].status => step[2] \notin reached'[i]
                          /\ evidence[i] \subseteq documents'[i].evidence
        BY <2>3 DEF LostOnlyByOverlap
      <4>1. CASE i = r.id
        BY <2>5, <2>6, <2>7, <4>1
      <4>2. CASE i # r.id
        BY <2>5, <4>2 DEF LossInv, LostOnlyByOverlap
      <4> QED
        BY <4>1, <4>2
    <3> QED
      BY <3>1, <3>2
  <2>9. OneAtATime'
    BY <2>1, <2>3, <2>4 DEF LossInv, OneAtATime
  <2>10. RequestsFollow'
    <3> SUFFICES ASSUME NEW d \in Clients
                 PROVE  RequestFollows(requests[d])'
      BY DEF RequestsFollow
    <3>1. CASE d = c
      BY <2>2, <2>3, <2>4, <2>5, <2>6, <3>1 DEF RequestFollows
    <3>2. CASE d # c /\ requests[d].id = r.id
      <4>1. r.id \in overlapped'
        BY <2>1, <2>2, <2>3, <3>2 DEF LossInv, OneAtATime
      <4> QED
        BY <2>2, <2>3, <2>5, <3>2, <4>1 DEF RequestFollows
    <3>3. CASE d # c /\ requests[d].id # r.id
      <4>1. PICK q \in Request : q = requests[d] /\ q = requests'[d]
        BY <2>3, <3>3 DEF TypeOK
      <4>2. RequestFollows(q)
        BY <4>1 DEF LossInv, RequestsFollow
      <4>3. q.phase \in {"incident", "child"} => q.id \in IncidentIds
        BY <4>1 DEF TypeOK
      <4>4. q.phase \in {"incident", "child"} =>
              documents'[q.id] = documents[q.id] /\ reached'[q.id] = reached[q.id]
        BY <2>5, <3>3, <4>1, <4>3
      <4> QED
        BY <2>3, <4>1, <4>2, <4>4 DEF RequestFollows
    <3> QED
      BY <3>1, <3>2, <3>3
  <2> QED
    BY <2>8, <2>9, <2>10 DEF LossInv
<1>3. ASSUME NEW c \in Clients, PersistEvidence(c)
      PROVE  LossInv'
  <2>1. PICK r \in Request : r = requests[c]
    BY DEF TypeOK
  <2>2. r.phase = "child" /\ r.id \in IncidentIds /\ r.doc \in Incident
        /\ r.id # NoId /\ r.evidence # NoId
    BY <1>3, <2>1, NoneAssumption DEF PersistEvidence, TypeOK
  <2>3. /\ UNCHANGED <<documents, reached, overlapped>>
        /\ evidence' = [evidence EXCEPT ![r.id] = evidence[r.id] \cup {r.evidence}]
        /\ requests'[c] = Advance(r)
        /\ \A d \in Clients \ {c} : requests'[d] = requests[d]
    BY <1>3, <2>1 DEF PersistEvidence, TypeOK, history
  <2>4. requests'[c].id \in {r.id, NoId} /\ requests'[c].phase \notin {"incident", "child"}
    BY <2>2, <2>3, AdvanceKeeps DEF Idle
  <2>5. /\ evidence'[r.id] = evidence[r.id] \cup {r.evidence}
        /\ \A i \in IncidentIds \ {r.id} : evidence'[i] = evidence[i]
    BY <2>2, <2>3 DEF TypeOK
  <2>6. /\ documents[r.id] # NoIncident
        /\ r.id \notin overlapped => r.evidence \in documents[r.id].evidence
    BY <2>1, <2>2 DEF LossInv, RequestsFollow, RequestFollows
  <2>7. UnstoredIsNew' /\ LostOnlyByOverlap'
    BY <2>2, <2>3, <2>5, <2>6 DEF LossInv, UnstoredIsNew, LostOnlyByOverlap
  <2>8. OneAtATime'
    BY <2>1, <2>3, <2>4 DEF LossInv, OneAtATime
  <2>9. RequestsFollow'
    <3> SUFFICES ASSUME NEW d \in Clients
                 PROVE  RequestFollows(requests[d])'
      BY DEF RequestsFollow
    <3>1. CASE d = c
      BY <2>4, <3>1 DEF RequestFollows
    <3>2. CASE d # c /\ requests[d].id = r.id
      <4>1. r.id \in overlapped'
        BY <2>1, <2>2, <2>3, <3>2 DEF LossInv, OneAtATime
      <4> QED
        BY <2>2, <2>3, <2>6, <3>2, <4>1 DEF RequestFollows
    <3>3. CASE d # c /\ requests[d].id # r.id
      <4>1. PICK q \in Request : q = requests[d] /\ q = requests'[d]
        BY <2>3, <3>3 DEF TypeOK
      <4>2. RequestFollows(q)
        BY <4>1 DEF LossInv, RequestsFollow
      <4>3. q.phase \in {"incident", "child"} => evidence'[q.id] = evidence[q.id]
        BY <2>5, <3>3, <4>1 DEF TypeOK
      <4> QED
        BY <2>3, <4>1, <4>2, <4>3 DEF RequestFollows
    <3> QED
      BY <3>1, <3>2, <3>3
  <2> QED
    BY <2>7, <2>8, <2>9 DEF LossInv
<1>4. ASSUME NEW c \in Clients,
             PersistNote(c) \/ PersistAudit(c) \/ PersistTimeline(c)
      PROVE  LossInv'
  <2>1. PICK r \in Request : r = requests[c]
    BY DEF TypeOK
  <2>2. r.id \in IncidentIds /\ r.doc \in Incident
    BY <1>4, <2>1 DEF PersistNote, PersistAudit, PersistTimeline, TypeOK
  <2>3. UNCHANGED <<documents, evidence, reached, overlapped>>
    BY <1>4 DEF PersistNote, PersistAudit, PersistTimeline, history
  <2>4. \E s \in Request : /\ s.id = r.id /\ s.doc = r.doc
                          /\ requests' = [requests EXCEPT ![c] = Advance(s)]
    <3>1. CASE PersistNote(c)
      BY <2>1, <3>1 DEF PersistNote
    <3>2. CASE PersistAudit(c)
      <4> DEFINE s == [r EXCEPT !.audits = Tail(@)]
      <4>1. r.audits # <<>>
        BY <2>1, <3>2 DEF PersistAudit, WaitingIsCovered, RequestIsCovered
      <4>2. s \in Request /\ s.id = r.id /\ s.doc = r.doc
        BY <4>1, TailType DEF Request
      <4>3. requests' = [requests EXCEPT ![c] = Advance(s)]
        BY <2>1, <3>2 DEF PersistAudit
      <4> QED
        BY <4>2, <4>3
    <3>3. CASE PersistTimeline(c)
      <4> DEFINE s == [r EXCEPT !.entries = Tail(@)]
      <4>1. r.entries # <<>>
        BY <2>1, <3>3 DEF PersistTimeline, WaitingIsCovered, RequestIsCovered
      <4>2. s \in Request /\ s.id = r.id /\ s.doc = r.doc
        BY <4>1, TailType DEF Request
      <4>3. requests' = [requests EXCEPT ![c] = Advance(s)]
        BY <2>1, <3>3 DEF PersistTimeline
      <4> QED
        BY <4>2, <4>3
    <3> QED
      BY <1>4, <3>1, <3>2, <3>3
  <2>5. \A d \in Clients :
          \/ requests'[d] = requests[d]
          \/ /\ requests'[d].phase \notin {"incident", "child"}
             /\ requests'[d].id \in {requests[d].id, NoId}
    BY <2>1, <2>2, <2>4, AdvanceKeeps DEF TypeOK, Idle
  <2> QED
    BY <2>3, <2>5, LossFrame
<1>5. ASSUME NEW c \in Clients, RequestFails(c)
      PROVE  LossInv'
  BY <1>5, LossFrame DEF RequestFails, stores, TypeOK, Idle
<1>6. ASSUME NEW c \in Clients, NEW a \in Alerts, SearchForAlert(c, a)
      PROVE  LossInv'
  <2>1. /\ UNCHANGED <<documents, evidence, reached, overlapped>>
        /\ requests'[c].phase = "searched" /\ requests'[c].id = NoId
        /\ \A d \in Clients \ {c} : requests'[d] = requests[d]
    BY <1>6 DEF SearchForAlert, stores, history, TypeOK, Idle
  <2> QED
    BY <2>1, LossFrame
<1>7. ASSUME NEW c \in Clients, NEW i \in IncidentIds, PromoteAlert(c, i)
      PROVE  LossInv'
  BY <1>7, LossFrame DEF PromoteAlert, stores, TypeOK, Idle
<1>8. CASE Refresh \/ UNCHANGED vars
  BY <1>8, LossFrame DEF Refresh, vars, stores, history
<1>9. CASE Restart
  BY <1>9, LossFrame DEF Restart, stores, Idle
<1> QED
  BY <1>1, <1>2, <1>3, <1>4, <1>5, <1>6, <1>7, <1>8, <1>9, StepKinds

-----------------------------------------------------------------------------
(* The theorems *)

IncidentsInv == TypeOK /\ LifecycleInv /\ AuditInv /\ TrailInv /\ LossInv

\* An empty store satisfies the invariants.
LEMMA InitIsSound == Init => IncidentsInv
<1> SUFFICES ASSUME Init PROVE IncidentsInv
  OBVIOUS
<1>1. TypeOK
  BY BoundAssumption DEF Init, TypeOK, Idle, Request
<1>2. LifecycleInv
  BY DEF Init, LifecycleInv, StoredIsReached, WaitingIsNext, NoStatusSkipped, Idle,
         AllowedTransitions
<1>3. AuditInv
  BY DEF Init, AuditInv, WaitingIsCovered, RequestIsCovered, AuditFollowsStore, Idle
<1>4. TrailInv
  BY DEF Init, TrailInv, QuietIsEmpty, NewStatusRecorded, StatusesAudited, Idle
<1>5. LossInv
  BY DEF Init, LossInv, OneAtATime, UnstoredIsNew, RequestsFollow, RequestFollows,
         LostOnlyByOverlap, Idle
<1> QED
  BY <1>1, <1>2, <1>3, <1>4, <1>5 DEF IncidentsInv

\* The invariants are inductive together.
THEOREM IncidentsInvariant == Spec => []IncidentsInv
<1>1. IncidentsInv /\ [Next]_vars => IncidentsInv'
  BY TypeInductive, LifecycleInductive, AuditInductive, TrailInductive, LossInductive
     DEF IncidentsInv, AuditInv
<1> QED
  BY <1>1, InitIsSound, PTL DEF Spec

\* Documents, records and running requests keep their types.
THEOREM TypeCorrect == Spec => []TypeOK
<1>1. IncidentsInv => TypeOK
  BY DEF IncidentsInv
<1> QED
  BY <1>1, IncidentsInvariant, PTL

\* No interleaving of requests, failed writes and restarts makes an incident
\* skip a status, although nothing compares versions.
THEOREM LifecycleCorrect == Spec => []NoStatusSkipped
<1>1. IncidentsInv => NoStatusSkipped
  BY DEF IncidentsInv, LifecycleInv
<1> QED
  BY <1>1, IncidentsInvariant, PTL

\* The audit trail and the timeline never tell of what was not stored.
THEOREM AuditCorrect == Spec => []AuditFollowsStore
<1>1. IncidentsInv => AuditFollowsStore
  BY DEF IncidentsInv, AuditInv
<1> QED
  BY <1>1, IncidentsInvariant, PTL

\* What an incident became is on record: whoever stored a status also brings
\* its audit entry, and only a request that ends early leaves it out.
THEOREM TrailComplete == Spec => []StatusesAudited
<1>1. IncidentsInv => StatusesAudited
  BY DEF IncidentsInv, TrailInv
<1> QED
  BY <1>1, IncidentsInvariant, PTL

\* Without two requests on one incident at once no update of it is lost, in
\* whatever order writes fail and the process restarts.
THEOREM NothingLostAlone == Spec => []LostOnlyByOverlap
<1>1. IncidentsInv => LostOnlyByOverlap
  BY DEF IncidentsInv, LossInv
<1> QED
  BY <1>1, IncidentsInvariant, PTL

=============================================================================
