------------------------- MODULE AlertManagerProofs -------------------------
(***************************************************************************)
(* Theorems about AlertManager for every set of keys, identifiers and      *)
(* analysts, every assignment of severities and every threshold.           *)
(***************************************************************************)
EXTENDS AlertManager, TLAPS

-----------------------------------------------------------------------------
(* What the operators on one alert return *)

\* The first occurrence makes an alert.
LEMMA NewAlertType ==
  ASSUME NEW k \in Keys PROVE NewAlert(k) \in Alert
BY DEF NewAlert, Alert, AlertStatus

\* Another occurrence changes the count of an alert and nothing else.
LEMMA RecurredType ==
  ASSUME NEW a \in Alert
  PROVE  /\ Recurred(a) \in Alert
         /\ Recurred(a).key = a.key
         /\ Recurred(a).status = a.status
         /\ Recurred(a).count = a.count + 1
         /\ Recurred(a).assignee = a.assignee
BY DEF Recurred, Alert

\* A transition changes the status of an alert and nothing else.
LEMMA MovedType ==
  ASSUME NEW a \in Alert, NEW s \in AlertStatus
  PROVE  /\ Moved(a, s) \in Alert
         /\ Moved(a, s).key = a.key
         /\ Moved(a, s).status = s
         /\ Moved(a, s).count = a.count
         /\ Moved(a, s).assignee = a.assignee
BY DEF Moved, Alert

\* The suppression step changes nothing but the status, moves it only from
\* NEW to SUPPRESSED, and leaves no NEW alert that the policy suppresses.
LEMMA AfterSuppressionFacts ==
  ASSUME NEW a \in Alert
  PROVE  /\ AfterSuppression(a) \in Alert
         /\ AfterSuppression(a).key = a.key
         /\ AfterSuppression(a).count = a.count
         /\ AfterSuppression(a).assignee = a.assignee
         /\ AfterSuppression(a).status =
              IF a.status = "NEW" /\ ShouldSuppress(a)
              THEN "SUPPRESSED" ELSE a.status
         /\ ~(AfterSuppression(a).status = "NEW"
                /\ ShouldSuppress(AfterSuppression(a)))
<1>1. CanTransition(a.status, "SUPPRESSED") <=> a.status = "NEW"
  BY DEF CanTransition, AllowedTransitions
<1>2. "SUPPRESSED" \in AlertStatus
  BY DEF AlertStatus
<1>3. CASE a.status = "NEW" /\ ShouldSuppress(a)
  <2>1. AfterSuppression(a) = Moved(a, "SUPPRESSED")
    BY <1>1, <1>3 DEF AfterSuppression, WantsSuppression
  <2> QED
    BY <2>1, <1>2, <1>3, MovedType
<1>4. CASE ~(a.status = "NEW" /\ ShouldSuppress(a))
  <2>1. AfterSuppression(a) = a
    BY <1>1, <1>4 DEF AfterSuppression, WantsSuppression
  <2> QED
    BY <2>1, <1>4
<1> QED
  BY <1>3, <1>4

\* Escalation that does something ends in ESCALATED, from NEW by way of
\* ACKNOWLEDGED.
LEMMA AfterEscalationFacts ==
  ASSUME NEW a \in Alert, EscalationPath(a) # <<>>
  PROVE  /\ AfterEscalation(a) = Moved(a, "ESCALATED")
         /\ \/ a.status = "NEW"
                 /\ EscalationPath(a) = <<"ACKNOWLEDGED", "ESCALATED">>
            \/ a.status \in {"ACKNOWLEDGED", "INVESTIGATING"}
                 /\ EscalationPath(a) = <<"ESCALATED">>
BY DEF AfterEscalation, EscalationPath

\* What SuppressionAudit records about two statuses of an alert.
LEMMA SuppressionAuditType ==
  ASSUME NEW a \in Alert, NEW b \in Alert
  PROVE  /\ SuppressionAudit(a, b) \in Seq(AuditEntry)
         /\ Len(SuppressionAudit(a, b)) \in {0, 1}
<1> DEFINE e == Audit("status_transition", a.status, b.status)
<1>1. e \in AuditEntry
  BY DEF Audit, AuditEntry, AuditAction, Alert
<1>2. CASE a.status = b.status
  BY <1>2 DEF SuppressionAudit
<1>3. CASE a.status # b.status
  <2>1. SuppressionAudit(a, b) = <<e>>
    BY <1>3 DEF SuppressionAudit
  <2> HIDE DEF e
  <2> QED
    BY <1>1, <2>1
<1> QED
  BY <1>2, <1>3

-----------------------------------------------------------------------------
(* Type correctness *)

\* Every action leaves the three variables well typed.
LEMMA TypeInductive == TypeOK /\ [Next]_vars => TypeOK'
<1> SUFFICES ASSUME TypeOK, [Next]_vars PROVE TypeOK'
  OBVIOUS
<1> USE DEF TypeOK
<1>1. ASSUME NEW k \in Keys, NEW i \in AlertIds, CreateNew(k, i) PROVE TypeOK'
  <2> DEFINE new == NewAlert(k)
  <2>1. new \in Alert /\ AfterSuppression(new) \in Alert
    BY NewAlertType, AfterSuppressionFacts
  <2>2. Audit("created", "NONE", "NEW") \in AuditEntry
    BY DEF Audit, AuditEntry, AuditAction, AlertStatus
  <2>3. <<Audit("created", "NONE", "NEW")>>
          \o SuppressionAudit(new, AfterSuppression(new)) \in Seq(AuditEntry)
    BY <2>1, <2>2, SuppressionAuditType
  <2> QED
    BY <1>1, <2>1, <2>3 DEF CreateNew
<1>2. ASSUME NEW k \in Keys, MergeDuplicate(k) PROVE TypeOK'
  <2> DEFINE a == Existing(k)
  <2>1. dedup[k] \in AlertIds /\ a \in Alert
    BY <1>2 DEF MergeDuplicate, Existing
  <2>2. Recurred(a) \in Alert /\ AfterSuppression(Recurred(a)) \in Alert
    BY <2>1, RecurredType, AfterSuppressionFacts
  <2>3. Audit("deduplicated", a.status, Recurred(a).status) \in AuditEntry
    BY <2>1, <2>2 DEF Audit, AuditEntry, AuditAction, Alert
  <2>4. <<Audit("deduplicated", a.status, Recurred(a).status)>>
          \o SuppressionAudit(Recurred(a), AfterSuppression(Recurred(a)))
            \in Seq(AuditEntry)
    BY <2>2, <2>3, SuppressionAuditType
  <2> QED
    BY <1>2, <2>1, <2>2, <2>4 DEF MergeDuplicate, Apply
<1>3. ASSUME NEW i \in AlertIds, EvaluateEscalation(i) PROVE TypeOK'
  <2> DEFINE a == alerts[i]
             path == EscalationPath(a)
             from == <<a.status>> \o path
             entries == [n \in 1..Len(path) |->
                           Audit("status_transition", from[n], path[n])]
  <2>1. a \in Alert /\ path # <<>>
    BY <1>3 DEF EvaluateEscalation, Known
  <2>2. AfterEscalation(a) \in Alert
    BY <2>1, AfterEscalationFacts, MovedType DEF AlertStatus
  <2>3. entries \in Seq(AuditEntry)
    <3>1. CASE path = <<"ACKNOWLEDGED", "ESCALATED">>
      BY <2>1, <3>1 DEF Audit, AuditEntry, AuditAction, AlertStatus, Alert
    <3>2. CASE path = <<"ESCALATED">>
      BY <2>1, <3>2 DEF Audit, AuditEntry, AuditAction, AlertStatus, Alert
    <3> QED
      BY <2>1, <3>1, <3>2, AfterEscalationFacts
  <2> QED
    BY <1>3, <2>2, <2>3 DEF EvaluateEscalation, Apply
<1>4. ASSUME NEW i \in AlertIds, NEW t \in AlertStatus, Transition(i, t)
      PROVE  TypeOK'
  <2>1. alerts[i] \in Alert
    BY <1>4 DEF Transition, Known
  <2>2. <<Audit("status_transition", alerts[i].status, t)>> \in Seq(AuditEntry)
    BY <2>1 DEF Audit, AuditEntry, AuditAction, Alert
  <2> QED
    BY <1>4, <2>1, <2>2, MovedType DEF Transition, Apply
<1>5. ASSUME NEW i \in AlertIds, NEW u \in Assignees \cup {Nobody}, Assign(i, u)
      PROVE  TypeOK'
  <2>1. alerts[i] \in Alert
    BY <1>5 DEF Assign, Known
  <2>2. [alerts[i] EXCEPT !.assignee = u] \in Alert
    BY <2>1 DEF Alert
  <2>3. <<Audit("assignment_changed", alerts[i].status, alerts[i].status)>>
          \in Seq(AuditEntry)
    BY <2>1 DEF Audit, AuditEntry, AuditAction, Alert
  <2> QED
    BY <1>5, <2>2, <2>3 DEF Assign, Apply
<1>6. CASE UNCHANGED vars
  BY <1>6 DEF vars
<1> QED
  BY <1>1, <1>2, <1>3, <1>4, <1>5, <1>6 DEF Next

\* The manager's alerts, index and audit history keep their types.
THEOREM TypeCorrect == Spec => []TypeOK
<1>1. Init => TypeOK
  BY DEF Init, TypeOK
<1> QED
  BY <1>1, TypeInductive, PTL DEF Spec

-----------------------------------------------------------------------------
(* One alert per key *)

\* A step that rewrites one known alert and keeps its key keeps the index.
LEMMA RewriteKeepsIndex ==
  ASSUME TypeOK, OneAlertPerKey,
         NEW i \in Known, NEW a \in Alert,
         a.key = alerts[i].key, alerts' = [alerts EXCEPT ![i] = a],
         UNCHANGED dedup
  PROVE  OneAlertPerKey'
<1> USE DEF TypeOK, OneAlertPerKey, Known
<1>1. a # NoAlert
  BY NoAlertAssumption
<1>2. \A j \in AlertIds : /\ alerts'[j] # NoAlert <=> alerts[j] # NoAlert
                         /\ alerts[j] # NoAlert => alerts'[j].key = alerts[j].key
  <2> TAKE j \in AlertIds
  <2>1. CASE j = i
    BY <1>1, <2>1
  <2>2. CASE j # i
    BY <2>2
  <2> QED
    BY <2>1, <2>2
<1>3. ASSUME NEW k \in Keys, dedup'[k] # NoId
      PROVE  dedup'[k] \in AlertIds /\ alerts'[dedup'[k]] # NoAlert
               /\ alerts'[dedup'[k]].key = k
  <2>1. dedup[k] # NoId /\ dedup'[k] = dedup[k]
    BY <1>3
  <2>2. dedup[k] \in AlertIds /\ alerts[dedup[k]] # NoAlert
          /\ alerts[dedup[k]].key = k
    BY <2>1
  <2>3. CASE dedup[k] = i
    BY <1>1, <2>1, <2>2, <2>3
  <2>4. CASE dedup[k] # i
    BY <2>1, <2>2, <2>4
  <2> QED
    BY <2>3, <2>4
<1>4. ASSUME NEW j \in AlertIds, alerts'[j] # NoAlert
      PROVE  dedup'[alerts'[j].key] = j
  BY <1>2, <1>4
<1> QED
  BY <1>3, <1>4

\* The two directions of the index are inductive together: create consults
\* and updates the index in the step that adds the alert, and nothing else
\* writes it or changes a key.
LEMMA IndexInductive ==
  TypeOK /\ OneAlertPerKey /\ [Next]_vars => OneAlertPerKey'
<1> SUFFICES ASSUME TypeOK, OneAlertPerKey, [Next]_vars PROVE OneAlertPerKey'
  OBVIOUS
<1>1. ASSUME NEW k \in Keys, NEW i \in AlertIds, CreateNew(k, i)
      PROVE  OneAlertPerKey'
  <2> DEFINE a == AfterSuppression(NewAlert(k))
  <2>1. a \in Alert /\ a.key = k
    BY NewAlertType, AfterSuppressionFacts DEF NewAlert
  <2>2. a # NoAlert
    BY <2>1, NoAlertAssumption
  <2>3. alerts' = [alerts EXCEPT ![i] = a] /\ dedup' = [dedup EXCEPT ![k] = i]
    BY <1>1 DEF CreateNew
  <2>4. dedup[k] = NoId /\ alerts[i] = NoAlert
    BY <1>1 DEF CreateNew, Existing, OneAlertPerKey, Known
  <2>5. \A j \in AlertIds : alerts[j] # NoAlert => alerts[j].key # k
    BY <2>4, IdAssumption DEF OneAlertPerKey, Known
  <2>6. \A j \in AlertIds : alerts[j] # NoAlert => alerts[j] \in Alert
    BY DEF TypeOK
  <2>7. \A j \in AlertIds : alerts[j] # NoAlert => alerts[j].key \in Keys
    BY <2>6 DEF Alert
  <2> HIDE DEF a
  <2>8. \A q \in Keys : dedup'[q] # NoId =>
          alerts'[dedup'[q]] # NoAlert /\ alerts'[dedup'[q]].key = q
    BY <2>1, <2>2, <2>3, <2>4 DEF TypeOK, OneAlertPerKey, Known
  <2>9. \A j \in AlertIds : alerts'[j] # NoAlert => dedup'[alerts'[j].key] = j
    BY <2>1, <2>2, <2>3, <2>4, <2>5, <2>7 DEF TypeOK, OneAlertPerKey, Known
  <2>10. dedup' \in [Keys -> AlertIds \cup {NoId}]
    BY <2>3 DEF TypeOK
  <2> QED
    BY <2>8, <2>9, <2>10 DEF OneAlertPerKey, Known
<1>2. ASSUME NEW k \in Keys, MergeDuplicate(k) PROVE OneAlertPerKey'
  <2>1. dedup[k] \in AlertIds /\ Existing(k) \in Alert
          /\ Existing(k) = alerts[dedup[k]] /\ dedup[k] \in Known
    BY <1>2 DEF MergeDuplicate, Existing, TypeOK, Known
  <2> DEFINE a == AfterSuppression(Recurred(Existing(k)))
  <2>2. a \in Alert /\ a.key = Existing(k).key
    BY <2>1, RecurredType, AfterSuppressionFacts
  <2>3. alerts' = [alerts EXCEPT ![dedup[k]] = a] /\ UNCHANGED dedup
    BY <1>2 DEF MergeDuplicate, Apply
  <2> HIDE DEF a
  <2> QED
    BY RewriteKeepsIndex, <2>1, <2>2, <2>3
<1>3. ASSUME NEW i \in AlertIds, EvaluateEscalation(i) PROVE OneAlertPerKey'
  <2>1. i \in Known /\ alerts[i] \in Alert /\ EscalationPath(alerts[i]) # <<>>
    BY <1>3 DEF EvaluateEscalation, TypeOK, Known
  <2> DEFINE a == AfterEscalation(alerts[i])
  <2>2. a \in Alert /\ a.key = alerts[i].key
    BY <2>1, AfterEscalationFacts, MovedType DEF AlertStatus
  <2>3. alerts' = [alerts EXCEPT ![i] = a] /\ UNCHANGED dedup
    BY <1>3 DEF EvaluateEscalation, Apply
  <2> HIDE DEF a
  <2> QED
    BY RewriteKeepsIndex, <2>1, <2>2, <2>3
<1>4. ASSUME NEW i \in AlertIds, NEW t \in AlertStatus, Transition(i, t)
      PROVE  OneAlertPerKey'
  <2>1. i \in Known /\ alerts[i] \in Alert
    BY <1>4 DEF Transition, TypeOK, Known
  <2>2. alerts' = [alerts EXCEPT ![i] = Moved(alerts[i], t)] /\ UNCHANGED dedup
    BY <1>4 DEF Transition, Apply
  <2> QED
    BY RewriteKeepsIndex, <2>1, <2>2, MovedType
<1>5. ASSUME NEW i \in AlertIds, NEW u \in Assignees \cup {Nobody}, Assign(i, u)
      PROVE  OneAlertPerKey'
  <2> DEFINE a == [alerts[i] EXCEPT !.assignee = u]
  <2>1. i \in Known /\ alerts[i] \in Alert
    BY <1>5 DEF Assign, TypeOK, Known
  <2>2. a \in Alert /\ a.key = alerts[i].key
    BY <2>1 DEF Alert
  <2>3. alerts' = [alerts EXCEPT ![i] = a] /\ UNCHANGED dedup
    BY <1>5 DEF Assign, Apply
  <2> HIDE DEF a
  <2> QED
    BY RewriteKeepsIndex, <2>1, <2>2, <2>3
<1>6. CASE UNCHANGED vars
  BY <1>6 DEF vars, OneAlertPerKey, Known
<1> QED
  BY <1>1, <1>2, <1>3, <1>4, <1>5, <1>6 DEF Next

\* A deduplication key never has two alerts in a manager, and the index
\* never points to a missing alert or to one of another key.
THEOREM IndexSound == Spec => []OneAlertPerKey
<1>1. Init => OneAlertPerKey
  BY DEF Init, OneAlertPerKey, Known
<1> QED
  BY <1>1, TypeCorrect, IndexInductive, PTL DEF Spec

-----------------------------------------------------------------------------
(* Suppression policy *)

\* Whoever rewrites an alert to one that is not NEW-and-suppressible keeps
\* NoNoisyNewAlert.
LEMMA RewriteKeepsQuiet ==
  ASSUME TypeOK, NoNoisyNewAlert,
         NEW i \in AlertIds, NEW a \in Alert,
         alerts' = [alerts EXCEPT ![i] = a],
         a.status = "NEW" => ~ShouldSuppress(a)
  PROVE  NoNoisyNewAlert'
<1> SUFFICES ASSUME NEW j \in AlertIds, alerts'[j] # NoAlert,
                    alerts'[j].status = "NEW"
             PROVE  ~ShouldSuppress(alerts'[j])
  BY DEF NoNoisyNewAlert, Known
<1>1. CASE j = i
  BY <1>1 DEF TypeOK
<1>2. CASE j # i
  BY <1>2 DEF TypeOK, NoNoisyNewAlert, Known
<1> QED
  BY <1>1, <1>2

\* Every action keeps NEW alerts below the threshold.
LEMMA NoNoisyInductive ==
  TypeOK /\ NoNoisyNewAlert /\ [Next]_vars => NoNoisyNewAlert'
<1> SUFFICES ASSUME TypeOK, NoNoisyNewAlert, [Next]_vars PROVE NoNoisyNewAlert'
  OBVIOUS
<1>1. ASSUME NEW k \in Keys, NEW i \in AlertIds, CreateNew(k, i)
      PROVE  NoNoisyNewAlert'
  <2> DEFINE a == AfterSuppression(NewAlert(k))
  <2>1. a \in Alert /\ ~(a.status = "NEW" /\ ShouldSuppress(a))
    BY NewAlertType, AfterSuppressionFacts
  <2>2. alerts' = [alerts EXCEPT ![i] = a]
    BY <1>1 DEF CreateNew
  <2> HIDE DEF a
  <2> QED
    BY <2>1, <2>2, RewriteKeepsQuiet
<1>2. ASSUME NEW k \in Keys, MergeDuplicate(k) PROVE NoNoisyNewAlert'
  <2> DEFINE a == AfterSuppression(Recurred(Existing(k)))
  <2>1. dedup[k] \in AlertIds /\ Existing(k) \in Alert
    BY <1>2 DEF MergeDuplicate, Existing, TypeOK
  <2>2. a \in Alert /\ ~(a.status = "NEW" /\ ShouldSuppress(a))
    BY <2>1, RecurredType, AfterSuppressionFacts
  <2>3. alerts' = [alerts EXCEPT ![dedup[k]] = a]
    BY <1>2 DEF MergeDuplicate, Apply
  <2> HIDE DEF a
  <2> QED
    BY <2>1, <2>2, <2>3, RewriteKeepsQuiet
<1>3. ASSUME NEW i \in AlertIds, EvaluateEscalation(i) PROVE NoNoisyNewAlert'
  <2> DEFINE a == AfterEscalation(alerts[i])
  <2>1. alerts[i] \in Alert /\ EscalationPath(alerts[i]) # <<>>
    BY <1>3 DEF EvaluateEscalation, TypeOK, Known
  <2>2. a \in Alert /\ a.status = "ESCALATED"
    BY <2>1, AfterEscalationFacts, MovedType DEF AlertStatus
  <2>3. alerts' = [alerts EXCEPT ![i] = a]
    BY <1>3 DEF EvaluateEscalation, Apply
  <2> HIDE DEF a
  <2> QED
    BY <2>2, <2>3, RewriteKeepsQuiet
<1>4. ASSUME NEW i \in AlertIds, NEW t \in AlertStatus, Transition(i, t)
      PROVE  NoNoisyNewAlert'
  <2>1. alerts[i] \in Alert
    BY <1>4 DEF Transition, TypeOK, Known
  <2>2. Moved(alerts[i], t) \in Alert /\ Moved(alerts[i], t).status # "NEW"
    BY <1>4, <2>1, MovedType DEF Transition, CanTransition, AllowedTransitions
  <2>3. alerts' = [alerts EXCEPT ![i] = Moved(alerts[i], t)]
    BY <1>4 DEF Transition, Apply
  <2> QED
    BY <2>2, <2>3, RewriteKeepsQuiet
<1>5. ASSUME NEW i \in AlertIds, NEW u \in Assignees \cup {Nobody}, Assign(i, u)
      PROVE  NoNoisyNewAlert'
  <2> DEFINE a == [alerts[i] EXCEPT !.assignee = u]
  <2>1. i \in Known /\ alerts[i] \in Alert
    BY <1>5 DEF Assign, TypeOK, Known
  <2>2. a \in Alert /\ a.status = alerts[i].status
          /\ (ShouldSuppress(a) <=> ShouldSuppress(alerts[i]))
    BY <2>1 DEF Alert, ShouldSuppress
  <2>3. alerts[i].status = "NEW" => ~ShouldSuppress(alerts[i])
    BY <2>1 DEF NoNoisyNewAlert
  <2>4. alerts' = [alerts EXCEPT ![i] = a]
    BY <1>5 DEF Assign, Apply
  <2> HIDE DEF a
  <2> QED
    BY <2>2, <2>3, <2>4, RewriteKeepsQuiet
<1>6. CASE UNCHANGED vars
  BY <1>6 DEF vars, NoNoisyNewAlert, Known
<1> QED
  BY <1>1, <1>2, <1>3, <1>4, <1>5, <1>6 DEF Next

\* However the operations interleave, an alert that is still NEW is below
\* the suppression threshold.
THEOREM NewAlertsAreQuiet == Spec => []NoNoisyNewAlert
<1>1. Init => NoNoisyNewAlert
  BY DEF Init, NoNoisyNewAlert, Known
<1> QED
  BY <1>1, TypeCorrect, NoNoisyInductive, PTL DEF Spec

-----------------------------------------------------------------------------
(* The audit history replays to the status *)

\* A replayable history is extended by any entry that may follow its last.
LEMMA ReplaysExtended ==
  ASSUME NEW h \in Seq(AuditEntry), NEW s, Replays(h, s),
         NEW e \in AuditEntry, Follows(h[Len(h)], e)
  PROVE  /\ h \o <<e>> \in Seq(AuditEntry)
         /\ Replays(h \o <<e>>, e.to)
         /\ (h \o <<e>>)[Len(h \o <<e>>)] = e
<1> DEFINE g == h \o <<e>>
<1>1. /\ g \in Seq(AuditEntry) /\ Len(g) = Len(h) + 1 /\ Len(h) \in Nat \ {0}
      /\ g[Len(h) + 1] = e /\ \A n \in 1..Len(h) : g[n] = h[n]
  BY DEF Replays
<1> HIDE DEF g
<1>2. g # <<>> /\ g[1] = Audit("created", "NONE", "NEW") /\ g[Len(g)].to = e.to
  BY <1>1 DEF Replays
<1>3. ASSUME NEW n \in 2..Len(g) PROVE Follows(g[n - 1], g[n])
  <2>1. CASE n = Len(h) + 1
    <3>1. n - 1 = Len(h) /\ Len(h) \in 1..Len(h)
      BY <1>1, <2>1
    <3>2. g[n - 1] = h[Len(h)] /\ g[n] = e
      BY <1>1, <2>1, <3>1
    <3> QED
      BY <3>2
  <2>2. CASE n # Len(h) + 1
    <3>1. n \in 2..Len(h) /\ n - 1 \in 1..Len(h) /\ n \in 1..Len(h)
      BY <1>1, <1>3, <2>2
    <3>2. g[n - 1] = h[n - 1] /\ g[n] = h[n]
      BY <1>1, <3>1
    <3> QED
      BY <3>1, <3>2 DEF Replays
  <2> QED
    BY <2>1, <2>2
<1>4. Replays(g, e.to)
  BY <1>2, <1>3 DEF Replays
<1> QED
  BY <1>1, <1>4 DEF g

\* The entry SuppressionAudit adds to a replayable history, if any, takes it
\* to the status the suppression step leaves.
LEMMA SuppressionReplays ==
  ASSUME NEW a \in Alert, NEW h \in Seq(AuditEntry), Replays(h, a.status)
  PROVE  Replays(h \o SuppressionAudit(a, AfterSuppression(a)),
                 AfterSuppression(a).status)
<1> DEFINE b == AfterSuppression(a)
           e == Audit("status_transition", a.status, b.status)
<1>1. b \in Alert /\ b.status = IF a.status = "NEW" /\ ShouldSuppress(a)
                                THEN "SUPPRESSED" ELSE a.status
  BY AfterSuppressionFacts
<1>2. CASE b.status = a.status
  <2>1. SuppressionAudit(a, b) = <<>>
    BY <1>2 DEF SuppressionAudit
  <2> HIDE DEF b
  <2> QED
    BY <1>2, <2>1 DEF b
<1>3. CASE b.status # a.status
  <2>1. a.status = "NEW" /\ b.status = "SUPPRESSED"
    BY <1>1, <1>3
  <2>2. SuppressionAudit(a, b) = <<e>>
    BY <1>3 DEF SuppressionAudit
  <2>3. e \in AuditEntry /\ e.to = b.status
    BY <1>1 DEF Audit, AuditEntry, AuditAction, Alert
  <2>4. h[Len(h)].to = a.status
    BY DEF Replays
  <2>5. Follows(h[Len(h)], e)
    BY <2>1, <2>4 DEF Follows, Audit, CanTransition, AllowedTransitions
  <2> HIDE DEF e, b
  <2>6. Replays(h \o <<e>>, e.to)
    BY <2>3, <2>5, ReplaysExtended
  <2> QED
    BY <2>2, <2>3, <2>6 DEF b
<1> QED
  BY <1>2, <1>3

\* A step that rewrites one alert and extends its history to one that replays
\* to the new status leaves the other histories as they are.
LEMMA RewriteKeepsReplay ==
  ASSUME TypeOK, AuditReplaysStatus,
         NEW i \in AlertIds, NEW a \in Alert, NEW h \in Seq(AuditEntry),
         alerts' = [alerts EXCEPT ![i] = a], audit' = [audit EXCEPT ![i] = h],
         Replays(h, a.status)
  PROVE  AuditReplaysStatus'
<1> SUFFICES ASSUME NEW j \in AlertIds, alerts'[j] # NoAlert
             PROVE  Replays(audit'[j], alerts'[j].status)
  BY DEF AuditReplaysStatus, Known
<1>1. CASE j = i
  BY <1>1 DEF TypeOK
<1>2. CASE j # i
  BY <1>2 DEF TypeOK, AuditReplaysStatus, Known
<1> QED
  BY <1>1, <1>2

\* Every action keeps every history replayable.
LEMMA ReplayInductive ==
  TypeOK /\ AuditReplaysStatus /\ [Next]_vars => AuditReplaysStatus'
<1> SUFFICES ASSUME TypeOK, AuditReplaysStatus, [Next]_vars
             PROVE  AuditReplaysStatus'
  OBVIOUS
<1>0. ASSUME NEW i \in Known
      PROVE  /\ i \in AlertIds /\ alerts[i] \in Alert
             /\ audit[i] \in Seq(AuditEntry)
             /\ Replays(audit[i], alerts[i].status)
             /\ audit[i][Len(audit[i])].to = alerts[i].status
  BY DEF TypeOK, AuditReplaysStatus, Known, Replays
<1>1. ASSUME NEW k \in Keys, NEW i \in AlertIds, CreateNew(k, i)
      PROVE  AuditReplaysStatus'
  <2> DEFINE c == Audit("created", "NONE", "NEW")
             new == NewAlert(k)
             final == AfterSuppression(new)
             h == <<c>> \o SuppressionAudit(new, final)
  <2>1. c \in AuditEntry
    BY DEF Audit, AuditEntry, AuditAction, AlertStatus
  <2>2. <<c>> \in Seq(AuditEntry) /\ <<c>>[Len(<<c>>)] = c
    BY <2>1
  <2>3. new \in Alert /\ new.status = "NEW" /\ final \in Alert
    BY NewAlertType, AfterSuppressionFacts DEF NewAlert
  <2>4. Replays(<<c>>, new.status)
    BY <2>3 DEF Replays, Audit
  <2>5. Replays(h, final.status)
    BY <2>2, <2>3, <2>4, SuppressionReplays
  <2>6. h \in Seq(AuditEntry)
    BY <2>2, <2>3, SuppressionAuditType
  <2>7. alerts' = [alerts EXCEPT ![i] = final] /\ audit' = [audit EXCEPT ![i] = h]
    BY <1>1 DEF CreateNew
  <2> HIDE DEF c, new, final, h
  <2> QED
    BY <2>3, <2>5, <2>6, <2>7, RewriteKeepsReplay
<1>2. ASSUME NEW k \in Keys, MergeDuplicate(k) PROVE AuditReplaysStatus'
  <2> DEFINE i == dedup[k]
             old == audit[i]
             u == Recurred(Existing(k))
             final == AfterSuppression(u)
             d == Audit("deduplicated", Existing(k).status, u.status)
             h == old \o (<<d>> \o SuppressionAudit(u, final))
  <2>1. i \in Known /\ Existing(k) = alerts[i] /\ i \in AlertIds
    BY <1>2 DEF MergeDuplicate, Existing, TypeOK, Known
  <2>2. u \in Alert /\ u.status = alerts[i].status /\ final \in Alert
    BY <1>0, <2>1, RecurredType, AfterSuppressionFacts
  <2>3. d \in AuditEntry /\ d.to = u.status /\ Follows(old[Len(old)], d)
    BY <1>0, <2>1, <2>2 DEF Audit, AuditEntry, AuditAction, Alert, Follows
  <2>4. alerts' = [alerts EXCEPT ![i] = final] /\ audit' = [audit EXCEPT ![i] = h]
    BY <1>2 DEF MergeDuplicate, Apply
  <2>5. old \in Seq(AuditEntry) /\ Replays(old, alerts[i].status)
    BY <1>0, <2>1
  <2>6. SuppressionAudit(u, final) \in Seq(AuditEntry)
    BY <2>2, SuppressionAuditType
  <2> HIDE DEF d, u, i, old
  <2>7. old \o <<d>> \in Seq(AuditEntry) /\ Replays(old \o <<d>>, u.status)
    BY <2>3, <2>5, ReplaysExtended
  <2>8. Replays((old \o <<d>>) \o SuppressionAudit(u, final), final.status)
    BY <2>2, <2>7, SuppressionReplays
  <2> HIDE DEF final
  <2>9. h = (old \o <<d>>) \o SuppressionAudit(u, final) /\ h \in Seq(AuditEntry)
    BY <2>3, <2>5, <2>6
  <2>10. Replays(h, final.status)
    BY <2>8, <2>9
  <2> HIDE DEF h
  <2> QED
    BY <2>1, <2>2, <2>4, <2>9, <2>10, RewriteKeepsReplay
<1>3. ASSUME NEW i \in AlertIds, EvaluateEscalation(i) PROVE AuditReplaysStatus'
  <2> DEFINE a == alerts[i]
             old == audit[i]
             path == EscalationPath(a)
             from == <<a.status>> \o path
             entries == [n \in 1..Len(path) |->
                           Audit("status_transition", from[n], path[n])]
             ack == Audit("status_transition", "NEW", "ACKNOWLEDGED")
             esc(s) == Audit("status_transition", s, "ESCALATED")
             final == AfterEscalation(a)
  <2>1. i \in Known /\ path # <<>>
    BY <1>3 DEF EvaluateEscalation
  <2>2. final \in Alert /\ final.status = "ESCALATED"
    BY <1>0, <2>1, AfterEscalationFacts, MovedType DEF AlertStatus
  <2>3. /\ alerts' = [alerts EXCEPT ![i] = final]
        /\ audit' = [audit EXCEPT ![i] = old \o entries]
    BY <1>3 DEF EvaluateEscalation, Apply
  <2>4. old \in Seq(AuditEntry) /\ Replays(old, a.status)
          /\ old[Len(old)].to = a.status
    BY <1>0, <2>1
  <2>5. ack \in AuditEntry /\ ack.to = "ACKNOWLEDGED"
    BY DEF Audit, AuditEntry, AuditAction, AlertStatus
  <2>6. ASSUME NEW s \in {"ACKNOWLEDGED", "INVESTIGATING"}
        PROVE  esc(s) \in AuditEntry /\ esc(s).to = "ESCALATED"
    BY DEF Audit, AuditEntry, AuditAction, AlertStatus
  <2>7. CASE a.status = "NEW" /\ path = <<"ACKNOWLEDGED", "ESCALATED">>
    <3>1. entries = <<ack, esc("ACKNOWLEDGED")>>
      BY <2>7
    <3>2. Follows(old[Len(old)], ack)
      BY <2>4, <2>7 DEF Follows, Audit, CanTransition, AllowedTransitions
    <3>3. Follows(ack, esc("ACKNOWLEDGED"))
      BY DEF Follows, Audit, CanTransition, AllowedTransitions
    <3>4. esc("ACKNOWLEDGED") \in AuditEntry /\ esc("ACKNOWLEDGED").to = "ESCALATED"
      BY <2>6
    <3> DEFINE e == esc("ACKNOWLEDGED")
    <3> HIDE DEF ack, e, old, path, entries
    <3>5. /\ old \o <<ack>> \in Seq(AuditEntry)
          /\ Replays(old \o <<ack>>, "ACKNOWLEDGED")
          /\ (old \o <<ack>>)[Len(old \o <<ack>>)] = ack
      BY <2>4, <2>5, <3>2, ReplaysExtended
    <3>6. /\ (old \o <<ack>>) \o <<e>> \in Seq(AuditEntry)
          /\ Replays((old \o <<ack>>) \o <<e>>, "ESCALATED")
      BY <3>3, <3>4, <3>5, ReplaysExtended DEF e
    <3>7. old \o entries = (old \o <<ack>>) \o <<e>>
      BY <2>4, <2>5, <3>1, <3>4 DEF e
    <3> QED
      BY <1>3, <2>2, <2>3, <3>6, <3>7, RewriteKeepsReplay
  <2>8. CASE a.status \in {"ACKNOWLEDGED", "INVESTIGATING"}
               /\ path = <<"ESCALATED">>
    <3> DEFINE e == esc(a.status)
    <3>1. entries = <<e>>
      BY <2>8
    <3>2. Follows(old[Len(old)], e)
      BY <2>4, <2>8 DEF Follows, Audit, CanTransition, AllowedTransitions
    <3>3. e \in AuditEntry /\ e.to = "ESCALATED"
      BY <2>6, <2>8
    <3> HIDE DEF e, old, path, entries
    <3>4. /\ old \o <<e>> \in Seq(AuditEntry)
          /\ Replays(old \o <<e>>, "ESCALATED")
      BY <2>4, <3>2, <3>3, ReplaysExtended
    <3> QED
      BY <1>3, <2>2, <2>3, <3>1, <3>4, RewriteKeepsReplay
  <2> QED
    BY <1>0, <2>1, <2>7, <2>8, AfterEscalationFacts
<1>4. ASSUME NEW i \in AlertIds, NEW t \in AlertStatus, Transition(i, t)
      PROVE  AuditReplaysStatus'
  <2> DEFINE old == audit[i]
             e == Audit("status_transition", alerts[i].status, t)
             a == Moved(alerts[i], t)
  <2>1. i \in Known /\ CanTransition(alerts[i].status, t)
    BY <1>4 DEF Transition
  <2>2. a \in Alert /\ a.status = t
    BY <1>0, <2>1, MovedType
  <2>3. e \in AuditEntry /\ e.to = t /\ Follows(old[Len(old)], e)
    BY <1>0, <2>1 DEF Audit, AuditEntry, AuditAction, Alert, Follows
  <2>4. alerts' = [alerts EXCEPT ![i] = a] /\ audit' = [audit EXCEPT ![i] = old \o <<e>>]
    BY <1>4 DEF Transition, Apply
  <2>5. old \in Seq(AuditEntry) /\ Replays(old, alerts[i].status)
    BY <1>0, <2>1
  <2> HIDE DEF e, old, a
  <2>6. old \o <<e>> \in Seq(AuditEntry) /\ Replays(old \o <<e>>, t)
    BY <2>3, <2>5, ReplaysExtended
  <2> QED
    BY <2>2, <2>4, <2>6, RewriteKeepsReplay
<1>5. ASSUME NEW i \in AlertIds, NEW u \in Assignees \cup {Nobody}, Assign(i, u)
      PROVE  AuditReplaysStatus'
  <2> DEFINE old == audit[i]
             s == alerts[i].status
             e == Audit("assignment_changed", s, s)
             a == [alerts[i] EXCEPT !.assignee = u]
  <2>1. i \in Known
    BY <1>5 DEF Assign
  <2>2. a \in Alert /\ a.status = s
    BY <1>0, <2>1 DEF Alert
  <2>3. e \in AuditEntry /\ e.to = s /\ Follows(old[Len(old)], e)
    BY <1>0, <2>1 DEF Audit, AuditEntry, AuditAction, Alert, Follows
  <2>4. alerts' = [alerts EXCEPT ![i] = a] /\ audit' = [audit EXCEPT ![i] = old \o <<e>>]
    BY <1>5 DEF Assign, Apply
  <2>5. old \in Seq(AuditEntry) /\ Replays(old, s)
    BY <1>0, <2>1
  <2> HIDE DEF e, old, a
  <2>6. old \o <<e>> \in Seq(AuditEntry) /\ Replays(old \o <<e>>, s)
    BY <2>3, <2>5, ReplaysExtended
  <2> QED
    BY <2>2, <2>4, <2>6, RewriteKeepsReplay
<1>6. CASE UNCHANGED vars
  BY <1>6 DEF vars, AuditReplaysStatus, Known, Replays
<1> QED
  BY <1>1, <1>2, <1>3, <1>4, <1>5, <1>6 DEF Next

\* The audit history of every alert is an unbroken, lawful chain from its
\* creation to the status it has now.
THEOREM AuditIsFaithful == Spec => []AuditReplaysStatus
<1>1. Init => AuditReplaysStatus
  BY DEF Init, AuditReplaysStatus, Known
<1> QED
  BY <1>1, TypeCorrect, ReplayInductive, PTL DEF Spec

-----------------------------------------------------------------------------
(* The manager implements the register *)

\* The case of an alert is a case of the register.
LEMMA CaseOfType ==
  ASSUME NEW a \in Alert
  PROVE  /\ CaseOf(a) # NoAlert
         /\ CaseOf(a).status = a.status
         /\ CaseOf(a).count = a.count
         /\ CaseOf(a).assignee = a.assignee
<1>1. CaseOf(a) \in Register!Case
  BY DEF CaseOf, Alert, AlertStatus, Register!Case, Register!AlertStatus
<1> QED
  BY <1>1, NoCaseAssumption DEF CaseOf

\* Because the index is one to one, rewriting the alert of a key rewrites
\* the case of that key and of no other.
LEMMA RewriteOneCase ==
  ASSUME TypeOK, OneAlertPerKey,
         NEW i \in Known, NEW a \in Alert, a.key = alerts[i].key,
         alerts' = [alerts EXCEPT ![i] = a], UNCHANGED dedup
  PROVE  /\ a.key \in Keys
         /\ RegisterOf[a.key] = CaseOf(alerts[i])
         /\ RegisterOf[a.key] # NoAlert
         /\ RegisterOf' = [RegisterOf EXCEPT ![a.key] = CaseOf(a)]
<1>1. /\ i \in AlertIds /\ alerts[i] \in Alert /\ a.key \in Keys
      /\ dedup[a.key] = i /\ dedup' = dedup
  BY DEF TypeOK, OneAlertPerKey, Known, Alert
<1>2. RegisterOf[a.key] = CaseOf(alerts[i])
  BY <1>1, IdAssumption DEF RegisterOf
<1>3. alerts'[i] = a /\ \A j \in AlertIds \ {i} : alerts'[j] = alerts[j]
  BY <1>1 DEF TypeOK
<1>4. ASSUME NEW k \in Keys
      PROVE  RegisterOf'[k] = [RegisterOf EXCEPT ![a.key] = CaseOf(a)][k]
  <2>1. CASE k = a.key
    <3>1. RegisterOf'[k] = CaseOf(a)
      BY <1>1, <1>3, <2>1, IdAssumption DEF RegisterOf, CaseOf
    <3> QED
      BY <2>1, <3>1 DEF RegisterOf
  <2>2. CASE k # a.key
    <3>1. dedup[k] # NoId => dedup[k] \in AlertIds \ {i}
      BY <1>1, <2>2 DEF TypeOK, OneAlertPerKey
    <3>2. RegisterOf'[k] = RegisterOf[k]
      BY <1>1, <1>3, <3>1 DEF RegisterOf, CaseOf
    <3> QED
      BY <2>2, <3>2 DEF RegisterOf
  <2> QED
    BY <2>1, <2>2
<1>5. RegisterOf' = [RegisterOf EXCEPT ![a.key] = CaseOf(a)]
  BY <1>4 DEF RegisterOf
<1> QED
  BY <1>1, <1>2, <1>5, CaseOfType

\* Each manager step is a step of the register or leaves it unchanged.
LEMMA RegisterStep ==
  TypeOK /\ OneAlertPerKey /\ [Next]_vars
    => Register!Next \/ UNCHANGED RegisterOf
<1> SUFFICES ASSUME TypeOK, OneAlertPerKey, [Next]_vars
             PROVE  Register!Next \/ UNCHANGED RegisterOf
  OBVIOUS
<1>0. ASSUME NEW i \in Known PROVE i \in AlertIds /\ alerts[i] \in Alert
  BY DEF TypeOK, Known
<1>1. ASSUME NEW k \in Keys, NEW i \in AlertIds, CreateNew(k, i)
      PROVE  Register!FirstOccurrence(k)
  <2> DEFINE a == AfterSuppression(NewAlert(k))
  <2>1. NewAlert(k) \in Alert /\ NewAlert(k) = [key |-> k, status |-> "NEW",
                                   count |-> 1, assignee |-> Nobody]
    BY NewAlertType DEF NewAlert
  <2>2. /\ a.count = 1 /\ a.assignee = Nobody /\ a.key = k
        /\ a.status = Register!Settled(k, "NEW", 1)
    BY <2>1, AfterSuppressionFacts
       DEF Register!Settled, Register!Suppressible, ShouldSuppress,
           PriorityFloor, Register!PriorityFloor
  <2>3. dedup[k] = NoId /\ alerts[i] = NoAlert
    BY <1>1 DEF CreateNew, Existing, OneAlertPerKey, Known
  <2>4. alerts' = [alerts EXCEPT ![i] = a] /\ dedup' = [dedup EXCEPT ![k] = i]
    BY <1>1 DEF CreateNew
  <2> HIDE DEF a
  <2>5. RegisterOf[k] = NoAlert
    BY <2>3 DEF RegisterOf
  <2>6. RegisterOf'[k] = CaseOf(a)
    BY <2>4, IdAssumption DEF TypeOK, RegisterOf, CaseOf
  <2>7. \A q \in Keys \ {k} : RegisterOf'[q] = RegisterOf[q]
    BY <2>3, <2>4 DEF TypeOK, OneAlertPerKey, Known, RegisterOf, CaseOf
  <2>8. RegisterOf' = [RegisterOf EXCEPT ![k] = CaseOf(a)]
    BY <2>6, <2>7 DEF RegisterOf
  <2>9. CaseOf(a) = [status |-> Register!Settled(k, "NEW", 1), count |-> 1,
                     assignee |-> Nobody]
    BY <2>2 DEF CaseOf
  <2> QED
    BY <2>5, <2>8, <2>9 DEF Register!FirstOccurrence, Register!Open
<1>2. ASSUME NEW k \in Keys, MergeDuplicate(k) PROVE Register!Occurrence(k)
  <2> DEFINE i == dedup[k]
             u == Recurred(Existing(k))
             a == AfterSuppression(u)
  <2>1. i \in Known /\ Existing(k) = alerts[i] /\ alerts[i].key = k
    BY <1>2 DEF MergeDuplicate, Existing, TypeOK, Known, OneAlertPerKey
  <2>2. /\ a \in Alert /\ a.key = k /\ a.count = alerts[i].count + 1
        /\ a.assignee = alerts[i].assignee
        /\ a.status = Register!Settled(k, alerts[i].status, alerts[i].count + 1)
    BY <1>0, <2>1, RecurredType, AfterSuppressionFacts
       DEF Register!Settled, Register!Suppressible, ShouldSuppress,
           PriorityFloor, Register!PriorityFloor
  <2>3. alerts' = [alerts EXCEPT ![i] = a] /\ UNCHANGED dedup
    BY <1>2 DEF MergeDuplicate, Apply
  <2> HIDE DEF a, u, i
  <2>4. /\ RegisterOf[k] = CaseOf(alerts[i]) /\ RegisterOf[k] # NoAlert
        /\ RegisterOf' = [RegisterOf EXCEPT ![k] = CaseOf(a)]
    BY <2>1, <2>2, <2>3, RewriteOneCase
  <2>5. CaseOf(a) =
          [status |-> Register!Settled(k, RegisterOf[k].status,
                                       RegisterOf[k].count + 1),
           count |-> RegisterOf[k].count + 1,
           assignee |-> RegisterOf[k].assignee]
    BY <2>2, <2>4 DEF CaseOf
  <2> QED
    BY <2>4, <2>5 DEF Register!Occurrence, Register!Open
<1>3. ASSUME NEW i \in AlertIds, EvaluateEscalation(i) PROVE Register!Next
  <2> DEFINE a == AfterEscalation(alerts[i])
             k == alerts[i].key
  <2>1. i \in Known /\ EscalationPath(alerts[i]) # <<>> /\ alerts[i] \in Alert
    BY <1>0, <1>3 DEF EvaluateEscalation
  <2>2. /\ a \in Alert /\ a.key = k /\ a.count = alerts[i].count
        /\ a.assignee = alerts[i].assignee /\ a.status = "ESCALATED"
    BY <2>1, AfterEscalationFacts, MovedType DEF AlertStatus
  <2>3. alerts' = [alerts EXCEPT ![i] = a] /\ UNCHANGED dedup
    BY <1>3 DEF EvaluateEscalation, Apply
  <2>4. ShouldEscalate(alerts[i])
    BY <2>1 DEF EscalationPath
  <2>5. k \in Keys /\ SeverityOf[k] \in {"high", "critical"}
    BY <2>1, <2>4, SeverityAssumption
       DEF ShouldEscalate, RiskScore, AlertSeverity, Alert
  <2> HIDE DEF a
  <2>6. /\ RegisterOf[k] = CaseOf(alerts[i]) /\ RegisterOf[k] # NoAlert
        /\ RegisterOf' = [RegisterOf EXCEPT ![k] = CaseOf(a)]
    BY <2>1, <2>2, <2>3, RewriteOneCase
  <2>7. CaseOf(a) = [RegisterOf[k] EXCEPT !.status = "ESCALATED"]
    BY <2>2, <2>6 DEF CaseOf
  <2> HIDE DEF k
  <2>8. RegisterOf' = [RegisterOf EXCEPT ![k] = [@ EXCEPT !.status = "ESCALATED"]]
    BY <2>6, <2>7 DEF RegisterOf
  <2>9. k \in Register!Open /\ RegisterOf[k].status = alerts[i].status
    BY <2>5, <2>6 DEF Register!Open, CaseOf
  <2>10. CASE alerts[i].status = "NEW"
    <3>1. Register!Escalate(k)
      BY <2>5, <2>8, <2>9, <2>10 DEF Register!Escalate
    <3> QED
      BY <2>5, <3>1 DEF Register!Next
  <2>11. CASE alerts[i].status \in {"ACKNOWLEDGED", "INVESTIGATING"}
    <3>1. Register!Move(k, "ESCALATED")
      BY <2>8, <2>9, <2>11
         DEF Register!Move, Register!CanTransition, Register!AllowedTransitions
    <3>2. "ESCALATED" \in Register!AlertStatus
      BY DEF Register!AlertStatus
    <3> QED
      BY <2>5, <3>1, <3>2 DEF Register!Next
  <2> QED
    BY <2>1, <2>10, <2>11, AfterEscalationFacts
<1>4. ASSUME NEW i \in AlertIds, NEW t \in AlertStatus, Transition(i, t)
      PROVE  Register!Next
  <2> DEFINE a == Moved(alerts[i], t)
             k == alerts[i].key
  <2>1. i \in Known /\ alerts[i] \in Alert /\ CanTransition(alerts[i].status, t)
    BY <1>0, <1>4 DEF Transition
  <2>2. /\ a \in Alert /\ a.key = k /\ a.count = alerts[i].count
        /\ a.assignee = alerts[i].assignee /\ a.status = t
    BY <2>1, MovedType
  <2>3. alerts' = [alerts EXCEPT ![i] = a] /\ UNCHANGED dedup
    BY <1>4 DEF Transition, Apply
  <2> HIDE DEF a
  <2>4. /\ k \in Keys
        /\ RegisterOf[k] = CaseOf(alerts[i]) /\ RegisterOf[k] # NoAlert
        /\ RegisterOf' = [RegisterOf EXCEPT ![k] = CaseOf(a)]
    BY <2>1, <2>2, <2>3, RewriteOneCase
  <2>5. CaseOf(a) = [RegisterOf[k] EXCEPT !.status = t]
    BY <2>2, <2>4 DEF CaseOf
  <2>6. RegisterOf[k].status = alerts[i].status
    BY <2>4 DEF CaseOf
  <2> HIDE DEF k
  <2>7. RegisterOf' = [RegisterOf EXCEPT ![k] = [@ EXCEPT !.status = t]]
    BY <2>4, <2>5 DEF RegisterOf
  <2>8. Register!Move(k, t)
    BY <2>1, <2>4, <2>6, <2>7
       DEF Register!Move, Register!Open, Register!CanTransition, CanTransition,
           Register!AllowedTransitions, AllowedTransitions
  <2>9. t \in Register!AlertStatus
    BY DEF AlertStatus, Register!AlertStatus
  <2> QED
    BY <2>4, <2>8, <2>9 DEF Register!Next
<1>5. ASSUME NEW i \in AlertIds, NEW u \in Assignees \cup {Nobody}, Assign(i, u)
      PROVE  Register!Next
  <2> DEFINE a == [alerts[i] EXCEPT !.assignee = u]
             k == alerts[i].key
  <2>1. i \in Known /\ alerts[i] \in Alert
    BY <1>0, <1>5 DEF Assign
  <2>2. /\ a \in Alert /\ a.key = k /\ a.count = alerts[i].count
        /\ a.assignee = u /\ a.status = alerts[i].status
    BY <2>1 DEF Alert
  <2>3. alerts' = [alerts EXCEPT ![i] = a] /\ UNCHANGED dedup
    BY <1>5 DEF Assign, Apply
  <2> HIDE DEF a
  <2>4. /\ k \in Keys
        /\ RegisterOf[k] = CaseOf(alerts[i]) /\ RegisterOf[k] # NoAlert
        /\ RegisterOf' = [RegisterOf EXCEPT ![k] = CaseOf(a)]
    BY <2>1, <2>2, <2>3, RewriteOneCase
  <2>5. CaseOf(a) = [RegisterOf[k] EXCEPT !.assignee = u]
    BY <2>2, <2>4 DEF CaseOf
  <2> HIDE DEF k
  <2>6. RegisterOf' = [RegisterOf EXCEPT ![k] = [@ EXCEPT !.assignee = u]]
    BY <2>4, <2>5 DEF RegisterOf
  <2>7. Register!Hand(k, u)
    BY <2>4, <2>6 DEF Register!Hand, Register!Open
  <2> QED
    BY <2>4, <2>7 DEF Register!Next
<1>6. CASE UNCHANGED vars
  BY <1>6 DEF vars, RegisterOf, CaseOf
<1>7. ASSUME NEW k \in Keys, Register!FirstOccurrence(k) \/ Register!Occurrence(k)
      PROVE  Register!Next
  BY <1>7 DEF Register!Next
<1> QED
  BY <1>1, <1>2, <1>3, <1>4, <1>5, <1>6, <1>7 DEF Next

\* To its callers the manager is the register of AlertRegister: one case per
\* key, opened once, counted one by one, moved along the lifecycle.
THEOREM ManagerImplementsRegister == Spec => ImplementsRegister
<1>1. Init => Register!Init
  BY DEF Init, Register!Init, RegisterOf
<1>2. TypeOK /\ OneAlertPerKey /\ [Next]_vars => [Register!Next]_RegisterOf
  BY RegisterStep
<1> QED
  BY <1>1, <1>2, TypeCorrect, IndexSound, PTL
     DEF Spec, ImplementsRegister, Register!Spec

-----------------------------------------------------------------------------
(* Final statuses and immutable history *)

\* A step that rewrites alert i, appends to its history and respects a final
\* status keeps every alert's final status and history.
LEMMA RewriteKeepsHistory ==
  ASSUME TypeOK, NEW i \in Known, NEW a \in Alert, NEW e \in Seq(AuditEntry),
         alerts' = [alerts EXCEPT ![i] = a],
         audit' = [audit EXCEPT ![i] = audit[i] \o e],
         alerts[i].status \in {"SUPPRESSED", "CLOSED"} => a.status = alerts[i].status
  PROVE  \A j \in Known : KeepsFinalAndHistory(j)
<1> TAKE j \in Known
<1> USE DEF TypeOK, Known
<1>1. CASE j = i
  <2>1. alerts'[j] = a /\ a # NoAlert /\ audit'[j] = audit[i] \o e
    BY <1>1, NoAlertAssumption
  <2>2. audit[i] \in Seq(AuditEntry)
    OBVIOUS
  <2>3. Len(audit[i] \o e) >= Len(audit[i])
          /\ \A n \in 1..Len(audit[i]) : (audit[i] \o e)[n] = audit[i][n]
    BY <2>2
  <2> QED
    BY <1>1, <2>1, <2>3 DEF KeepsFinalAndHistory
<1>2. CASE j # i
  <2>1. alerts'[j] = alerts[j] /\ audit'[j] = audit[j]
    BY <1>2
  <2>2. audit[j] \in Seq(AuditEntry)
    OBVIOUS
  <2>3. Len(audit[j]) >= Len(audit[j])
    BY <2>2
  <2> QED
    BY <2>1, <2>3 DEF KeepsFinalAndHistory
<1> QED
  BY <1>1, <1>2

\* No operation reopens a SUPPRESSED or CLOSED alert, forgets an alert or
\* rewrites its audit history.
THEOREM HistoryIsImmutable == Spec => FinalAndImmutable
<1>1. TypeOK /\ [Next]_vars => [KeepsFinalsAndHistories]_vars
  <2> SUFFICES ASSUME TypeOK, Next PROVE \A j \in Known : KeepsFinalAndHistory(j)
    BY DEF KeepsFinalsAndHistories
  <2>0. ASSUME NEW i \in Known
        PROVE i \in AlertIds /\ alerts[i] \in Alert /\ audit[i] \in Seq(AuditEntry)
    BY DEF TypeOK, Known
  <2>1. ASSUME NEW k \in Keys, NEW i \in AlertIds, CreateNew(k, i)
        PROVE  \A j \in Known : KeepsFinalAndHistory(j)
    <3> TAKE j \in Known
    <3>1. j # i /\ alerts'[j] = alerts[j] /\ audit'[j] = audit[j]
      BY <2>1 DEF CreateNew, TypeOK, Known
    <3>2. Len(audit[j]) >= Len(audit[j])
      BY <2>0
    <3> QED
      BY <2>0, <3>1, <3>2 DEF KeepsFinalAndHistory, Known
  <2>2. ASSUME NEW k \in Keys, MergeDuplicate(k)
        PROVE  \A j \in Known : KeepsFinalAndHistory(j)
    <3> DEFINE i == dedup[k]
               u == Recurred(Existing(k))
               a == AfterSuppression(u)
               d == Audit("deduplicated", Existing(k).status, u.status)
               e == <<d>> \o SuppressionAudit(u, a)
    <3>1. i \in Known /\ Existing(k) = alerts[i]
      BY <2>2 DEF MergeDuplicate, Existing, TypeOK, Known
    <3>2. u \in Alert /\ u.status = alerts[i].status /\ a \in Alert
            /\ (u.status # "NEW" => a.status = u.status)
      BY <2>0, <3>1, RecurredType, AfterSuppressionFacts
    <3>3. d \in AuditEntry
      BY <2>0, <3>1, <3>2 DEF Audit, AuditEntry, AuditAction, Alert
    <3>4. e \in Seq(AuditEntry)
      BY <3>2, <3>3, SuppressionAuditType
    <3>5. alerts' = [alerts EXCEPT ![i] = a] /\ audit' = [audit EXCEPT ![i] = audit[i] \o e]
      BY <2>2 DEF MergeDuplicate, Apply
    <3> HIDE DEF a, e, u, i
    <3> QED
      BY <3>1, <3>2, <3>4, <3>5, RewriteKeepsHistory
  <2>3. ASSUME NEW i \in AlertIds, EvaluateEscalation(i)
        PROVE  \A j \in Known : KeepsFinalAndHistory(j)
    <3> DEFINE path == EscalationPath(alerts[i])
               from == <<alerts[i].status>> \o path
               a == AfterEscalation(alerts[i])
               e == [n \in 1..Len(path) |->
                       Audit("status_transition", from[n], path[n])]
    <3>1. i \in Known /\ alerts[i] \in Alert /\ path # <<>>
      BY <2>0, <2>3 DEF EvaluateEscalation
    <3>2. a \in Alert /\ alerts[i].status \notin {"SUPPRESSED", "CLOSED"}
      BY <3>1, AfterEscalationFacts, MovedType DEF AlertStatus
    <3>3. e \in Seq(AuditEntry)
      <4>1. CASE path = <<"ACKNOWLEDGED", "ESCALATED">>
        BY <3>1, <4>1 DEF Audit, AuditEntry, AuditAction, AlertStatus, Alert
      <4>2. CASE path = <<"ESCALATED">>
        BY <3>1, <4>2 DEF Audit, AuditEntry, AuditAction, AlertStatus, Alert
      <4> QED
        BY <3>1, <4>1, <4>2, AfterEscalationFacts
    <3>4. alerts' = [alerts EXCEPT ![i] = a] /\ audit' = [audit EXCEPT ![i] = audit[i] \o e]
      BY <2>3 DEF EvaluateEscalation, Apply
    <3> HIDE DEF a, e, path
    <3> QED
      BY <3>1, <3>2, <3>3, <3>4, RewriteKeepsHistory
  <2>4. ASSUME NEW i \in AlertIds, NEW t \in AlertStatus, Transition(i, t)
        PROVE  \A j \in Known : KeepsFinalAndHistory(j)
    <3> DEFINE a == Moved(alerts[i], t)
               e == <<Audit("status_transition", alerts[i].status, t)>>
    <3>1. i \in Known /\ alerts[i] \in Alert
      BY <2>0, <2>4 DEF Transition
    <3>2. a \in Alert /\ alerts[i].status \notin {"SUPPRESSED", "CLOSED"}
      BY <2>4, <3>1, MovedType DEF Transition, CanTransition, AllowedTransitions
    <3>3. e \in Seq(AuditEntry)
      BY <3>1 DEF Audit, AuditEntry, AuditAction, Alert
    <3>4. alerts' = [alerts EXCEPT ![i] = a] /\ audit' = [audit EXCEPT ![i] = audit[i] \o e]
      BY <2>4 DEF Transition, Apply
    <3> HIDE DEF a, e
    <3> QED
      BY <3>1, <3>2, <3>3, <3>4, RewriteKeepsHistory
  <2>5. ASSUME NEW i \in AlertIds, NEW u \in Assignees \cup {Nobody}, Assign(i, u)
        PROVE  \A j \in Known : KeepsFinalAndHistory(j)
    <3> DEFINE a == [alerts[i] EXCEPT !.assignee = u]
               s == alerts[i].status
               e == <<Audit("assignment_changed", s, s)>>
    <3>1. i \in Known /\ alerts[i] \in Alert
      BY <2>0, <2>5 DEF Assign
    <3>2. a \in Alert /\ a.status = alerts[i].status
      BY <3>1 DEF Alert
    <3>3. e \in Seq(AuditEntry)
      BY <3>1 DEF Audit, AuditEntry, AuditAction, Alert
    <3>4. alerts' = [alerts EXCEPT ![i] = a] /\ audit' = [audit EXCEPT ![i] = audit[i] \o e]
      BY <2>5 DEF Assign, Apply
    <3> HIDE DEF a, e
    <3> QED
      BY <3>1, <3>2, <3>3, <3>4, RewriteKeepsHistory
  <2> QED
    BY <2>1, <2>2, <2>3, <2>4, <2>5 DEF Next
<1> QED
  BY <1>1, TypeCorrect, PTL DEF Spec, FinalAndImmutable
=============================================================================
