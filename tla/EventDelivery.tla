----------------------------- MODULE EventDelivery -----------------------------
(***************************************************************************)
(* What the ingestion worker promises to those who send events, without    *)
(* parsing, storage, alerts, failures or shutdown: a queue whose events    *)
(* are taken in the order in which they were sent, one at a time, each at  *)
(* most once.  An event that has been taken is attempted a bounded number  *)
(* of times and ends in one of three ways: processed, given up after the   *)
(* last attempt, or lost, even before the first; it never goes back, and   *)
(* no event is lost that has not been taken.                               *)
(***************************************************************************)
EXTENDS Naturals, Sequences

CONSTANTS Events, NoEvent, MaxAttempts

VARIABLES
  unsent, queue,
  event, attempt,   \* the event taken, and the number of attempts at it
  outcome           \* what became of each event

vars == <<unsent, queue, event, attempt, outcome>>

Init ==
  /\ unsent = Events
  /\ queue = <<>>
  /\ event = NoEvent
  /\ attempt = 0
  /\ outcome = [e \in Events |-> "open"]

Send(e) ==
  /\ e \in unsent
  /\ unsent' = unsent \ {e}
  /\ queue' = Append(queue, e)
  /\ UNCHANGED <<event, attempt, outcome>>

Take ==
  /\ event = NoEvent
  /\ queue # <<>>
  /\ event' = Head(queue)
  /\ queue' = Tail(queue)
  /\ UNCHANGED <<unsent, attempt, outcome>>

Try ==
  /\ event # NoEvent
  /\ attempt < MaxAttempts
  /\ attempt' = attempt + 1
  /\ UNCHANGED <<unsent, queue, event, outcome>>

Settle(how) ==
  /\ event # NoEvent
  /\ outcome[event] = "open"
  /\ outcome' = [outcome EXCEPT ![event] = how]
  /\ event' = NoEvent
  /\ attempt' = 0
  /\ UNCHANGED <<unsent, queue>>

Process == attempt > 0 /\ Settle("processed")
GiveUp == attempt = MaxAttempts /\ Settle("dead")
Lose == Settle("lost")

Next ==
  \/ \E e \in Events : Send(e)
  \/ Take \/ Try \/ Process \/ GiveUp \/ Lose

Spec == Init /\ [][Next]_vars
=============================================================================
