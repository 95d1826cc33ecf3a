---------------------------- MODULE AlertRegister ---------------------------
(***************************************************************************)
(* What alert management promises, without identifiers, index or audit: a  *)
(* register with at most one case for each deduplication key.  A case is   *)
(* opened once, counts the occurrences of its key one by one and is never  *)
(* replaced or dropped; its status moves along the lifecycle, where the    *)
(* only shortcut is the automatic escalation of a NEW case.                *)
(***************************************************************************)
EXTENDS AlertLifecycle

CONSTANT NoCase

VARIABLE register

Case == [status: AlertStatus, count: Nat \ {0}, assignee: Assignees \cup {Nobody}]

Open == {k \in Keys : register[k] # NoCase}

Suppressible(k, count) ==
  SeverityOf[k] \notin PriorityFloor /\ count >= MinOccurrences

Settled(k, status, count) ==
  IF status = "NEW" /\ Suppressible(k, count) THEN "SUPPRESSED" ELSE status

Init == register = [k \in Keys |-> NoCase]

FirstOccurrence(k) ==
  /\ k \notin Open
  /\ register' = [register EXCEPT ![k] =
       [status |-> Settled(k, "NEW", 1), count |-> 1, assignee |-> Nobody]]

Occurrence(k) ==
  /\ k \in Open
  /\ LET next == register[k].count + 1
     IN  register' = [register EXCEPT ![k] =
           [status |-> Settled(k, register[k].status, next), count |-> next,
            assignee |-> register[k].assignee]]

Move(k, target) ==
  /\ k \in Open
  /\ CanTransition(register[k].status, target)
  /\ register' = [register EXCEPT ![k] = [@ EXCEPT !.status = target]]

Escalate(k) ==
  /\ k \in Open
  /\ register[k].status = "NEW"
  /\ SeverityOf[k] \in {"high", "critical"}
  /\ register' = [register EXCEPT ![k] = [@ EXCEPT !.status = "ESCALATED"]]

Hand(k, user) ==
  /\ k \in Open
  /\ register' = [register EXCEPT ![k] = [@ EXCEPT !.assignee = user]]

Next ==
  \E k \in Keys :
    \/ FirstOccurrence(k)
    \/ Occurrence(k)
    \/ \E target \in AlertStatus : Move(k, target)
    \/ Escalate(k)
    \/ \E user \in Assignees \cup {Nobody} : Hand(k, user)

Spec == Init /\ [][Next]_register
=============================================================================
