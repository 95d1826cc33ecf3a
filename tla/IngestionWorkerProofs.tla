----------------------- MODULE IngestionWorkerProofs -----------------------
(***************************************************************************)
(* The ingestion worker, for any number of events, rules, plugins,         *)
(* attempts, failures and crashes.  First, where its events are: each is   *)
(* unsent, in the list, in hand, settled, or lost to a crash or a failing  *)
(* get, and in no two of these places; what an attempt does to alerts      *)
(* plays no part, it ends in one of three ways whatever it has found.      *)
(* From this follows that the worker implements EventDelivery.  Then what  *)
(* an attempt does: the alerts and the window it leaves have their types,  *)
(* and the suppression guard counts each event once for the alert of a     *)
(* rule.                                                                   *)
(***************************************************************************)
EXTENDS IngestionWorker, FiniteSetTheorems, SequenceTheorems, WellFoundedInduction,
        TLAPS

\* What is appended to different elements, and differs from them, keeps them so.
LEMMA OneMoreApart ==
  ASSUME NEW S, NEW s \in Seq(S), NEW x \in S, IsInjective(s), x \notin Range(s),
         NEW t, t = Append(s, x)
  PROVE  IsInjective(t) /\ Range(t) = Range(s) \cup {x}
<1>1. /\ DOMAIN t = 1..(Len(s) + 1) /\ DOMAIN s = 1..Len(s)
      /\ Len(s) \in Nat
      /\ t[Len(s) + 1] = x
      /\ \A i \in 1..Len(s) : t[i] = s[i] /\ s[i] # x
  BY DEF Range
<1>2. IsInjective(t)
  BY <1>1 DEF IsInjective
<1>3. Range(t) = Range(s) \cup {x}
  BY <1>1 DEF Range
<1> QED BY <1>2, <1>3

\* One more element makes a finite set at most one larger.
LEMMA OneMoreCounted ==
  ASSUME NEW S, IsFiniteSet(S), NEW x
  PROVE  /\ IsFiniteSet(S \cup {x})
         /\ Cardinality(S) \in Nat /\ Cardinality(S \cup {x}) \in Nat
         /\ Cardinality(S \cup {x}) <= Cardinality(S) + 1
<1>1. IsFiniteSet(S \cup {x})
      /\ \/ Cardinality(S \cup {x}) = Cardinality(S)
         \/ Cardinality(S \cup {x}) = Cardinality(S) + 1
  BY FS_AddElement
<1>2. Cardinality(S) \in Nat
  BY FS_CardinalityType
<1> QED BY <1>1, <1>2

\* The phases of an attempt.
Attempting == {"processing", "saving", "publishing", "persisting", "retrying"}

\* Those in which there is an event that Redis has removed for the worker.
Holding == Attempting \cup {"taken"}

\* Types of the variables that say where events are.
PlacesTypeOK ==
  /\ unsent \subseteq Events
  /\ queue \in Seq(Events)
  /\ event \in Events \cup {NoEvent}
  /\ deadLetters \in Seq(Events)
  /\ crashes \in Nat
  /\ fate \in [Events -> {"open", "processed", "dead"}]
  /\ dropped \subseteq Events

\* There is an event in hand from its removal to the end of its attempts; a worker is
\* down only after a crash.
InHandWhileHeld ==
  /\ event # NoEvent <=> phase \in Holding
  /\ phase = "down" => crashes > 0

\* What has not been sent is nowhere else.
UnsentApart ==
  \A e \in unsent : ~InQueue(e) /\ event # e /\ fate[e] = "open"

\* What is queued is open, there once, and not in hand, which is open too.
QueuedApart ==
  /\ IsInjective(queue)
  /\ \A e \in Events :
       /\ InQueue(e) => event # e /\ fate[e] = "open"
       /\ event = e => fate[e] = "open"

\* What a failing get has dropped is lost, and the rest of what is lost went
\* with the crashes.
LossesCounted ==
  /\ dropped \subseteq Lost
  /\ IsFiniteSet(Lost \ dropped) /\ Cardinality(Lost \ dropped) <= crashes

DeadOnce ==
  crashes = 0 /\ phase # "exited" =>
    /\ IsInjective(deadLetters)
    /\ Range(deadLetters) = {e \in Events : fate[e] = "dead"}

PlacesInv ==
  /\ PlacesTypeOK
  /\ InHandWhileHeld
  /\ UnsentApart
  /\ QueuedApart
  /\ LossesCounted
  /\ DeadOnce

-----------------------------------------------------------------------------
(* Steps of an attempt *)

\* The places of all events.
places == <<unsent, queue, event, deadLetters, crashes, fate, dropped>>

\* A step that moves no event keeps the invariant, when the worker goes on with
\* what it has in hand.
LEMMA NothingMoves ==
  ASSUME PlacesInv, UNCHANGED places,
         phase' \in Holding <=> phase \in Holding,
         phase' = "down" => phase = "down", phase' = "exited" <=> phase = "exited"
  PROVE  PlacesInv' /\ Lost' = Lost
<1>1. PlacesTypeOK' /\ InHandWhileHeld'
  BY DEF PlacesInv, places, PlacesTypeOK, InHandWhileHeld
<1>2. UnsentApart' /\ QueuedApart'
  BY DEF PlacesInv, places, UnsentApart, QueuedApart, InQueue
<1>3. Lost' = Lost
  BY DEF places, Lost, Vanished, InQueue
<1>4. LossesCounted'
  BY <1>3 DEF PlacesInv, places, LossesCounted
<1>5. DeadOnce'
  BY DEF PlacesInv, places, DeadOnce
<1> QED
  BY <1>1, <1>2, <1>3, <1>4, <1>5 DEF PlacesInv

\* The event in hand is settled, and has its letter if it is dead.
Settled(outcome) ==
  /\ event # NoEvent
  /\ event' = NoEvent
  /\ phase' = "looping"
  /\ fate' = [fate EXCEPT ![event] = outcome]
  /\ deadLetters' = IF outcome = "dead" THEN Append(deadLetters, event) ELSE deadLetters
  /\ UNCHANGED <<unsent, queue, crashes, dropped>>

\* Settling the event in hand keeps the invariant.
LEMMA Settling ==
  ASSUME PlacesInv, NEW outcome \in {"processed", "dead"}, Settled(outcome)
  PROVE  PlacesInv'
<1>1. event \in Events /\ event # NoEvent /\ NoEvent \notin Events
      /\ phase \in Holding
  BY EventAssumption
  DEF PlacesInv, PlacesTypeOK, InHandWhileHeld, Settled
<1>2. /\ fate'[event] = outcome
      /\ \A e \in Events \ {event} : fate'[e] = fate[e]
      /\ fate[event] = "open"
  BY <1>1 DEF PlacesInv, PlacesTypeOK, QueuedApart, Settled
<1>3. PlacesTypeOK'
  BY <1>1 DEF PlacesInv, PlacesTypeOK, Settled
<1>4. InHandWhileHeld'
  BY DEF InHandWhileHeld, Settled, Attempting, Holding
<1>5. UnsentApart'
  BY <1>1, <1>2 DEF PlacesInv, PlacesTypeOK, UnsentApart, InQueue, Settled
<1>6. QueuedApart'
  BY <1>1, <1>2 DEF PlacesInv, QueuedApart, InQueue, Settled
<1>7. Lost' = Lost
  BY <1>1, <1>2 DEF Lost, Vanished, InQueue, Settled
<1>8. LossesCounted'
  BY <1>7 DEF PlacesInv, LossesCounted, Settled
<1>9. DeadOnce'
  <2> SUFFICES ASSUME crashes = 0
               PROVE  /\ IsInjective(deadLetters')
                      /\ Range(deadLetters') = {e \in Events : fate'[e] = "dead"}
    BY DEF DeadOnce, Settled
  <2>1. /\ IsInjective(deadLetters)
        /\ Range(deadLetters) = {e \in Events : fate[e] = "dead"}
    BY <1>1 DEF PlacesInv, DeadOnce, Attempting, Holding
  <2>2. CASE outcome = "processed"
    BY <1>1, <1>2, <2>1, <2>2 DEF Settled
  <2>3. CASE outcome = "dead"
    <3>1. deadLetters' = Append(deadLetters, event) /\ event \notin Range(deadLetters)
      BY <1>2, <2>1, <2>3 DEF Settled
    <3>2. /\ IsInjective(deadLetters')
          /\ Range(deadLetters') = Range(deadLetters) \cup {event}
      <4>1. deadLetters \in Seq(Events)
        BY DEF PlacesInv, PlacesTypeOK
      <4> QED BY <1>1, <2>1, <3>1, <4>1, OneMoreApart
    <3> QED BY <1>1, <1>2, <2>1, <2>3, <3>2
  <2> QED BY <2>2, <2>3
<1> QED
  BY <1>3, <1>4, <1>5, <1>6, <1>8, <1>9 DEF PlacesInv

\* An attempt that fails is repeated, or its event is dead.
LEMMA FailingAttempt ==
  ASSUME PlacesInv, phase \in Attempting, AttemptFails,
         UNCHANGED <<unsent, queue, crashes, dropped>>
  PROVE  PlacesInv'
<1>1. CASE attempt < MaxAttempts
  <2>1. UNCHANGED places /\ phase' = "retrying"
    BY <1>1 DEF AttemptFails, places
  <2> QED BY <2>1, NothingMoves DEF Attempting, Holding
<1>2. CASE ~(attempt < MaxAttempts)
  <2>1. Settled("dead")
    BY <1>2 DEF AttemptFails, Settled, DropInHand, PlacesInv, InHandWhileHeld, Holding
  <2> QED BY <2>1, Settling
<1> QED BY <1>1, <1>2

\* However alerts and correlation come out, the attempt fails or the event is
\* processed.
LEMMA Concluding ==
  ASSUME PlacesInv, phase \in Attempting, NEW found, Conclude(found),
         UNCHANGED <<unsent, queue, crashes, dropped>>
  PROVE  PlacesInv'
<1>1. \/ AttemptFails
      \/ /\ phase' = "looping" /\ DropInHand /\ UNCHANGED deadLetters
         /\ fate' = [fate EXCEPT ![event] = "processed"]
  BY DEF Conclude
<1>2. CASE AttemptFails
  BY <1>2, FailingAttempt
<1>3. CASE /\ phase' = "looping" /\ DropInHand /\ UNCHANGED deadLetters
           /\ fate' = [fate EXCEPT ![event] = "processed"]
  <2>1. Settled("processed")
    BY <1>3 DEF Settled, DropInHand, PlacesInv, InHandWhileHeld, Holding
  <2> QED BY <2>1, Settling
<1> QED BY <1>1, <1>2, <1>3

-----------------------------------------------------------------------------
(* The other steps *)

\* The collector sends an event.
LEMMA Enqueueing ==
  ASSUME PlacesInv, NEW e \in Events, Enqueue(e)
  PROVE  PlacesInv' /\ Lost' = Lost
<1>1. /\ e \in unsent /\ unsent' = unsent \ {e} /\ queue' = Append(queue, e)
      /\ UNCHANGED <<phase, event, deadLetters, crashes, fate, dropped>>
  BY DEF Enqueue, memory, history
<1>2. /\ queue \in Seq(Events) /\ IsInjective(queue) /\ e \notin Range(queue)
      /\ event # e /\ fate[e] = "open"
  BY <1>1 DEF PlacesInv, PlacesTypeOK, QueuedApart, UnsentApart, InQueue
<1>3. IsInjective(queue') /\ Range(queue') = Range(queue) \cup {e}
  <2>1. ASSUME NEW t, t = Append(queue, e)
        PROVE  IsInjective(t) /\ Range(t) = Range(queue) \cup {e}
    <3>1. queue \in Seq(Events) /\ IsInjective(queue) /\ e \notin Range(queue)
      BY <1>2
    <3> QED BY <2>1, <3>1, OneMoreApart
  <2>2. queue' = Append(queue, e)
    BY <1>1
  <2> QED BY <2>1, <2>2
<1>4. PlacesTypeOK' /\ InHandWhileHeld' /\ DeadOnce'
  BY <1>1, <1>2 DEF PlacesInv, PlacesTypeOK, InHandWhileHeld, DeadOnce
<1>5. UnsentApart' /\ QueuedApart'
  BY <1>1, <1>2, <1>3 DEF PlacesInv, UnsentApart, QueuedApart, InQueue
<1>6. Lost' = Lost
  BY <1>1, <1>3 DEF Lost, Vanished, InQueue
<1>7. LossesCounted'
  BY <1>1, <1>6 DEF PlacesInv, LossesCounted
<1> QED BY <1>4, <1>5, <1>6, <1>7 DEF PlacesInv

\* The worker takes the first event of the list.
LEMMA Taking ==
  ASSUME PlacesInv, Take
  PROVE  PlacesInv' /\ Lost' = Lost
<1>1. /\ phase = "popping" /\ phase' = "taken" /\ queue # <<>>
      /\ event' = Head(queue) /\ queue' = Tail(queue)
      /\ UNCHANGED <<unsent, deadLetters, crashes, fate, dropped>>
  BY DEF Take, memory, history
<1>2. queue \in Seq(Events) /\ IsInjective(queue) /\ event = NoEvent
      /\ NoEvent \notin Events
  BY <1>1, EventAssumption
  DEF PlacesInv, PlacesTypeOK, QueuedApart, InHandWhileHeld, Attempting, Holding
<1>3. /\ Len(queue) \in Nat \ {0} /\ DOMAIN queue = 1..Len(queue)
      /\ queue[1] = event' /\ event' \in Events
      /\ queue' \in Seq(Events) /\ DOMAIN queue' = 1..(Len(queue) - 1)
      /\ \A i \in 1..(Len(queue) - 1) : queue'[i] = queue[i + 1]
  BY <1>1, <1>2
<1>a. \A i \in 1..(Len(queue) - 1) :
        /\ i \in Nat \ {0} /\ i + 1 \in 1..Len(queue) /\ i + 1 # 1
  BY <1>3
<1>b. 1 \in 1..Len(queue)
  BY <1>3
<1>c. \A a, b \in 1..Len(queue) : queue[a] = queue[b] => a = b
  BY <1>2, <1>3 DEF IsInjective
<1>4. IsInjective(queue')
  <2>1. ASSUME NEW a \in 1..(Len(queue) - 1), NEW b \in 1..(Len(queue) - 1),
               queue'[a] = queue'[b]
        PROVE  a = b
    <3>1. a + 1 = b + 1
      BY <2>1, <1>3, <1>a, <1>c
    <3> QED BY <3>1, <1>a
  <2> QED BY <2>1, <1>3 DEF IsInjective
<1>5. event' \notin Range(queue')
  <2>1. \A i \in 1..(Len(queue) - 1) : queue'[i] # event'
    BY <1>3, <1>a, <1>b, <1>c
  <2> QED BY <2>1, <1>3 DEF Range
<1>6. Range(queue) = Range(queue') \cup {event'}
  <2>1. ASSUME NEW i \in 1..Len(queue), i # 1
        PROVE  i - 1 \in 1..(Len(queue) - 1) /\ queue[i] = queue'[i - 1]
    <3>1. \A n \in Nat : i \in 1..n => i - 1 \in 1..(n - 1) /\ (i - 1) + 1 = i
      BY <2>1
    <3>2. i - 1 \in 1..(Len(queue) - 1) /\ (i - 1) + 1 = i
      BY <1>3, <3>1
    <3> QED BY <1>3, <3>2
  <2>2. \A i \in 1..Len(queue) : queue[i] \in Range(queue') \cup {event'}
    <3>1. \A k \in 1..(Len(queue) - 1) : queue'[k] \in Range(queue')
      BY <1>3 DEF Range
    <3>2. queue[1] = event'
      BY <1>3
    <3> QED BY <2>1, <3>1, <3>2
  <2>3. \A i \in 1..(Len(queue) - 1) : i + 1 \in 1..Len(queue)
    BY <1>3
  <2>4. Range(queue') \cup {event'} \subseteq Range(queue)
    BY <1>3, <2>3 DEF Range
  <2> QED BY <1>3, <2>2, <2>4 DEF Range
<1>7. PlacesTypeOK' /\ InHandWhileHeld' /\ DeadOnce'
  BY <1>1, <1>2, <1>3
  DEF PlacesInv, PlacesTypeOK, InHandWhileHeld, DeadOnce, Attempting, Holding
<1>8. \A e : InQueue(e) <=> InQueue(e)' \/ event' = e
  BY <1>6 DEF InQueue
<1>9. UnsentApart'
  BY <1>1, <1>8 DEF PlacesInv, UnsentApart
<1>10. QueuedApart'
  BY <1>1, <1>4, <1>5, <1>8 DEF PlacesInv, QueuedApart, InQueue
<1>11. Lost' = Lost
  BY <1>1, <1>2, <1>8 DEF Lost, Vanished
<1>12. LossesCounted'
  BY <1>1, <1>11 DEF PlacesInv, LossesCounted
<1> QED BY <1>7, <1>9, <1>10, <1>11, <1>12 DEF PlacesInv

\* A stopped worker leaves its loop with nothing in hand.
LEMMA Looping ==
  ASSUME PlacesInv, LoopTurns
  PROVE  PlacesInv' /\ Lost' = Lost
<1>1. phase = "looping" /\ UNCHANGED <<unsent, queue, crashes, fate, dropped>>
  BY DEF LoopTurns, history
<1>2. CASE stopping
  <2>1. phase' = "exited" /\ deadLetters' = <<>> /\ event' = NoEvent
    BY <1>2 DEF LoopTurns, LoseMemory, DropInHand
  <2>2. event = NoEvent
    BY <1>1 DEF PlacesInv, InHandWhileHeld, Attempting, Holding
  <2>3. PlacesTypeOK' /\ InHandWhileHeld' /\ DeadOnce'
    BY <1>1, <2>1 DEF PlacesInv, PlacesTypeOK, InHandWhileHeld, DeadOnce, Attempting, Holding
  <2>4. UnsentApart' /\ QueuedApart'
    BY <1>1, <2>1, <2>2 DEF PlacesInv, UnsentApart, QueuedApart, InQueue
  <2>5. Lost' = Lost
    BY <1>1, <2>1, <2>2 DEF Lost, Vanished, InQueue
  <2> QED BY <1>1, <2>3, <2>4, <2>5 DEF PlacesInv, LossesCounted
<1>3. CASE ~stopping
  <2>1. phase' = "popping" /\ UNCHANGED places
    BY <1>1, <1>3 DEF LoopTurns, places, memory
  <2> QED BY <1>1, <2>1, NothingMoves DEF Attempting, Holding
<1>4. QED BY <1>2, <1>3

\* A crash takes what is in hand, and the letters.
LEMMA Crashing ==
  ASSUME PlacesInv, Crash
  PROVE  PlacesInv'
<1>1. /\ phase' = "down" /\ crashes' = crashes + 1 /\ crashes \in Nat
      /\ deadLetters' = <<>> /\ event' = NoEvent
      /\ UNCHANGED <<unsent, queue, fate, dropped>>
  BY DEF Crash, LoseMemory, DropInHand, history, PlacesInv, PlacesTypeOK
<1>2. PlacesTypeOK' /\ InHandWhileHeld' /\ DeadOnce'
  BY <1>1 DEF PlacesInv, PlacesTypeOK, InHandWhileHeld, DeadOnce, Attempting, Holding
<1>3. UnsentApart' /\ QueuedApart'
  BY <1>1, EventAssumption
  DEF PlacesInv, PlacesTypeOK, UnsentApart, QueuedApart, InQueue
<1>4. Lost \subseteq Lost' /\ Lost' \subseteq Lost \cup {event}
  BY <1>1, EventAssumption
  DEF Lost, Vanished, InQueue, PlacesInv, PlacesTypeOK
<1> DEFINE L == Lost \ dropped
           M == Lost' \ dropped'
<1>5. IsFiniteSet(M) /\ Cardinality(M) <= crashes + 1
  <2>1. IsFiniteSet(L) /\ Cardinality(L) <= crashes /\ Cardinality(L) \in Nat
    BY FS_CardinalityType DEF PlacesInv, LossesCounted
  <2>2. M \subseteq L \cup {event}
    BY <1>1, <1>4
  <2> HIDE DEF L, M
  <2>3. /\ IsFiniteSet(L \cup {event})
        /\ Cardinality(L \cup {event}) <= Cardinality(L) + 1
    BY <2>1, OneMoreCounted
  <2>4. /\ IsFiniteSet(M) /\ Cardinality(M) <= Cardinality(L \cup {event})
        /\ Cardinality(M) \in Nat /\ Cardinality(L \cup {event}) \in Nat
    BY <2>2, <2>3, FS_Subset, FS_CardinalityType
  <2> QED BY <1>1, <2>1, <2>3, <2>4
<1>6. LossesCounted'
  BY <1>1, <1>4, <1>5 DEF PlacesInv, LossesCounted
<1> QED BY <1>2, <1>3, <1>6 DEF PlacesInv

\* A get that fails drops what Redis has removed for it, if anything.
LEMMA GetFailing ==
  ASSUME PlacesInv, GetFails
  PROVE  PlacesInv'
<1>1. /\ phase \in {"popping", "taken"} /\ phase' = "backoff" /\ event' = NoEvent
      /\ dropped' = dropped \cup ({event} \ {NoEvent})
      /\ UNCHANGED <<unsent, queue, deadLetters, crashes, fate>>
  BY DEF GetFails, memory
<1>2. PlacesTypeOK' /\ InHandWhileHeld' /\ DeadOnce'
  BY <1>1
  DEF PlacesInv, PlacesTypeOK, InHandWhileHeld, DeadOnce, Attempting, Holding
<1>3. UnsentApart' /\ QueuedApart'
  BY <1>1, EventAssumption
  DEF PlacesInv, PlacesTypeOK, UnsentApart, QueuedApart, InQueue
<1>4. Lost' = Lost \cup ({event} \ {NoEvent})
  BY <1>1, EventAssumption
  DEF Lost, Vanished, InQueue, PlacesInv, PlacesTypeOK, UnsentApart, QueuedApart
<1>5. event \notin Lost
  BY DEF Lost, Vanished
<1>6. dropped' \subseteq Lost' /\ Lost' \ dropped' = Lost \ dropped
  BY <1>1, <1>4, <1>5 DEF PlacesInv, LossesCounted
<1>7. LossesCounted'
  BY <1>1, <1>6 DEF PlacesInv, LossesCounted
<1> QED BY <1>2, <1>3, <1>7 DEF PlacesInv

\* Every step keeps the invariant.
LEMMA PlacesStep ==
  ASSUME PlacesInv, [Next]_vars
  PROVE  PlacesInv'
<1>1. CASE UNCHANGED vars
  BY <1>1, NothingMoves DEF vars, memory, history, places
<1>2. ASSUME NEW e \in Events, Enqueue(e)
      PROVE  PlacesInv'
  BY <1>2, Enqueueing
<1>3. CASE Take
  BY <1>3, Taking
<1>4. CASE BackoffEnds
  <2>1. /\ UNCHANGED places /\ {phase, phase'} \cap Holding = {}
        /\ phase' \notin {"down", "exited"} /\ phase # "exited"
    BY <1>4 DEF BackoffEnds, places, memory, history, Attempting, Holding
  <2> QED BY <2>1, NothingMoves
<1>5. CASE GetReturns \/ Retry \/ SaveEvent
  <2>1. /\ UNCHANGED places /\ {phase, phase'} \subseteq Holding
    BY <1>5
    DEF GetReturns, Retry, SaveEvent, places, memory, history, Attempting, Holding
  <2>2. phase # "exited" /\ phase' \notin {"down", "exited"}
    BY <2>1 DEF Attempting, Holding
  <2> QED BY <2>1, <2>2, NothingMoves
<1>6. CASE CallFails \/ DetectionRaises
  <2>1. phase \in Attempting /\ AttemptFails /\ UNCHANGED <<unsent, queue, crashes, dropped>>
    BY <1>6 DEF CallFails, DetectionRaises, Attempting
  <2> QED BY <2>1, FailingAttempt
<1>7. CASE Parse
  <2>1. phase \in Attempting /\ UNCHANGED <<unsent, queue, crashes, dropped>>
    BY <1>7 DEF Parse, Attempting, Holding
  <2>2. CASE event \in Malformed
    BY <1>7, <2>1, <2>2, FailingAttempt DEF Parse
  <2>3. CASE event \notin Malformed
    <3>1. UNCHANGED places /\ phase' = "saving"
      BY <1>7, <2>1, <2>3 DEF Parse, places
    <3> QED BY <2>1, <3>1, NothingMoves DEF Attempting, Holding
  <2> QED BY <2>2, <2>3
<1>8. CASE PublishAndDetect
  <2>1. phase \in Attempting /\ UNCHANGED <<unsent, queue, crashes, dropped>>
    BY <1>8 DEF PublishAndDetect, history, Conclude, Attempting
  <2>2. \/ phase' = "persisting" /\ UNCHANGED places
        \/ Conclude(<<>>)
    BY <1>8, <2>1 DEF PublishAndDetect, places, history
  <2>3. CASE Conclude(<<>>)
    BY <2>1, <2>3, Concluding
  <2>4. CASE phase' = "persisting" /\ UNCHANGED places
    BY <2>1, <2>4, NothingMoves DEF Attempting, Holding
  <2> QED BY <2>2, <2>3, <2>4
<1>9. CASE PersistResult
  <2>1. phase \in Attempting /\ UNCHANGED <<unsent, queue, crashes, dropped>>
    BY <1>9 DEF PersistResult, history, Conclude, Attempting
  <2>2. \/ UNCHANGED <<phase, places>>
        \/ Conclude(results.found)
    BY <1>9, <2>1 DEF PersistResult, places, history
  <2>3. CASE Conclude(results.found)
    BY <2>1, <2>3, Concluding
  <2>4. CASE UNCHANGED <<phase, places>>
    BY <2>1, <2>4, NothingMoves DEF Attempting, Holding
  <2> QED BY <2>2, <2>3, <2>4
<1>10. CASE LoopTurns
  BY <1>10, Looping
<1>11. ASSUME NEW k \in Keys, EntryExpires(k)
       PROVE  PlacesInv'
  BY <1>11, NothingMoves DEF EntryExpires, places
<1>12. CASE RequestStop
  BY <1>12, NothingMoves DEF RequestStop, places, memory, history
<1>13. CASE Crash
  BY <1>13, Crashing
<1>14. CASE Restart
  <2>1. UNCHANGED places /\ phase = "down" /\ phase' = "looping"
    BY <1>14 DEF Restart, places, memory, history
  <2> QED BY <2>1, NothingMoves DEF Attempting, Holding
<1>15. CASE GetFails
  BY <1>15, GetFailing
<1> QED
  BY <1>1, <1>2, <1>3, <1>4, <1>5, <1>6, <1>7, <1>8, <1>9, <1>10, <1>11, <1>12,
     <1>13, <1>14, <1>15 DEF Next, Step

-----------------------------------------------------------------------------
(* The theorem *)

LEMMA PlacesInit ==
  ASSUME Init
  PROVE  PlacesInv
<1>1. PlacesTypeOK /\ InHandWhileHeld /\ UnsentApart /\ QueuedApart /\ DeadOnce
  BY EventAssumption
  DEF Init, PlacesTypeOK, InHandWhileHeld, Attempting, Holding, UnsentApart, QueuedApart,
      DeadOnce, InQueue, IsInjective, Range
<1>2. Lost = {} /\ Lost \ dropped = {} /\ dropped = {}
  BY DEF Init, Lost, Vanished
<1>3. LossesCounted
  BY <1>2, FS_EmptySet DEF Init, LossesCounted
<1> QED BY <1>1, <1>3 DEF PlacesInv

\* Each failure of a call drops at most one event.
DroppedCounted ==
  /\ faults \in Nat
  /\ IsFiniteSet(dropped) /\ Cardinality(dropped) <= faults

LEMMA DroppedStep ==
  ASSUME DroppedCounted, [Next]_vars
  PROVE  DroppedCounted'
<1>1. CASE GetFails
  <2> DEFINE more == dropped \cup {event}
  <2>1. /\ IsFiniteSet(more) /\ Cardinality(more) <= Cardinality(dropped) + 1
        /\ Cardinality(more) \in Nat /\ Cardinality(dropped) \in Nat
    BY OneMoreCounted DEF DroppedCounted
  <2>2. dropped' \subseteq more /\ faults' = faults + 1
    BY <1>1 DEF GetFails, Fault
  <2> HIDE DEF more
  <2>3. /\ IsFiniteSet(dropped') /\ Cardinality(dropped') <= Cardinality(more)
        /\ Cardinality(dropped') \in Nat
    BY <2>1, <2>2, FS_Subset, FS_CardinalityType
  <2> QED BY <2>1, <2>2, <2>3 DEF DroppedCounted
<1>2. CASE ~GetFails
  <2>1. Conclude(<<>>) \/ Conclude(results.found) => UNCHANGED dropped
    BY DEF Conclude
  <2>2. UNCHANGED dropped /\ faults' \in {faults, faults + 1}
    BY <1>2, <2>1
    DEF Next, Step, vars, history, Fault, Enqueue, Take, GetReturns, Parse, SaveEvent,
        PublishAndDetect, DetectionRaises, PersistResult, CallFails, Retry,
        BackoffEnds, LoopTurns, EntryExpires, RequestStop, Crash, Restart
  <2>3. Cardinality(dropped) \in Nat
    BY FS_CardinalityType DEF DroppedCounted
  <2> QED BY <2>2, <2>3 DEF DroppedCounted
<1> QED BY <1>1, <1>2

\* Events are lost only to crashes and to gets that fail, at most one each,
\* however often other calls fail and attempts are repeated; no event is in two
\* places, none is handled again after it has been settled, and each dead one
\* has one letter.
THEOREM EventsAreKept == Spec => []LossesAccounted
<1>1. Init => DroppedCounted
  BY FS_EmptySet DEF Init, DroppedCounted
<1>2. DroppedCounted /\ [Next]_vars => DroppedCounted'
  BY DroppedStep
<1>3. PlacesInv /\ DroppedCounted => LossesAccounted
  BY DEF PlacesInv, DroppedCounted, LossesAccounted, QueuedApart, LossesCounted, DeadOnce
<1> QED BY <1>1, <1>2, <1>3, PlacesInit, PlacesStep, PTL DEF Spec

-----------------------------------------------------------------------------
(* The worker implements EventDelivery *)

\* What the mapping needs besides: an attempt has its number and nothing else
\* has one, and an attempt that is to be repeated was not the last.
AttemptsCounted ==
  /\ attempt \in Nat
  /\ phase \in Attempting => attempt \in 1..MaxAttempts
  /\ phase \notin Attempting => attempt = 0
  /\ phase = "retrying" => attempt < MaxAttempts

DeliveryInv == PlacesInv /\ AttemptsCounted

\* As long as no event is lost or settled, the outcomes stay.
LEMMA OutcomesStay ==
  ASSUME Lost' = Lost, fate' = fate
  PROVE  Outcome' = Outcome
BY DEF Outcome, Lost

\* A step that leaves list, hand and fates alone is a stutter.
LEMMA Stutters ==
  ASSUME PlacesInv, UNCHANGED <<unsent, queue, event, attempt, fate>>
  PROVE  UNCHANGED Delivery!vars
BY DEF Outcome, Vanished, InQueue, Delivery!vars

\* The event in hand is settled, in either way.
LEMMA SettlesHand ==
  ASSUME DeliveryInv, NEW how \in {"processed", "dead"}, Settled(how), attempt' = 0
  PROVE  Delivery!Settle(how) /\ AttemptsCounted'
<1>1. /\ event \in Events /\ fate[event] = "open" /\ NoEvent \notin Events
      /\ fate \in [Events -> {"open", "processed", "dead"}]
  BY EventAssumption
  DEF DeliveryInv, PlacesInv, PlacesTypeOK, QueuedApart, Settled
<1>2. Outcome[event] = "open" /\ fate'[event] = how
  BY <1>1 DEF Outcome, Vanished, Settled
<1>3. Outcome' = [Outcome EXCEPT ![event] = how]
  <2>1. \A e \in Events \ {event} : Outcome'[e] = Outcome[e]
    BY <1>1 DEF Outcome, Vanished, InQueue, Settled
  <2>2. Outcome'[event] = how
    BY <1>1, <1>2 DEF Outcome, Vanished
  <2> QED BY <2>1, <2>2 DEF Outcome
<1>4. AttemptsCounted'
  BY DEF AttemptsCounted, Settled, Attempting
<1> QED BY <1>2, <1>3, <1>4 DEF Delivery!Settle, Settled

\* An attempt that fails stutters or gives the event up after the last one.
LEMMA FailsOrGivesUp ==
  ASSUME DeliveryInv, phase \in Attempting, AttemptFails,
         UNCHANGED <<unsent, queue, crashes, dropped>>
  PROVE  (Delivery!GiveUp \/ UNCHANGED Delivery!vars) /\ AttemptsCounted'
<1>0. event # NoEvent /\ attempt \in 1..MaxAttempts /\ MaxAttempts \in Nat
  BY LimitAssumption
  DEF DeliveryInv, PlacesInv, InHandWhileHeld, AttemptsCounted, Holding
<1>1. CASE attempt < MaxAttempts
  <2>1. UNCHANGED <<unsent, queue, event, attempt, fate>> /\ phase' = "retrying"
    BY <1>1 DEF AttemptFails
  <2>2. AttemptsCounted'
    BY <1>0, <1>1, <2>1 DEF DeliveryInv, AttemptsCounted, Attempting
  <2> QED BY <2>1, <2>2, Stutters DEF DeliveryInv
<1>2. CASE ~(attempt < MaxAttempts)
  <2>1. Settled("dead") /\ attempt' = 0
    BY <1>0, <1>2 DEF AttemptFails, Settled, DropInHand
  <2>2. attempt = MaxAttempts
    BY <1>0, <1>2
  <2> QED BY <2>1, <2>2, SettlesHand DEF Delivery!GiveUp
<1> QED BY <1>1, <1>2

\* An attempt that comes to its end fails or settles its event as processed.
LEMMA ConcludesDelivery ==
  ASSUME DeliveryInv, phase \in Attempting, NEW found, Conclude(found),
         UNCHANGED <<unsent, queue, crashes, dropped>>
  PROVE  /\ Delivery!Process \/ Delivery!GiveUp \/ UNCHANGED Delivery!vars
         /\ AttemptsCounted'
<1>1. \/ AttemptFails
      \/ /\ phase' = "looping" /\ DropInHand /\ UNCHANGED deadLetters
         /\ fate' = [fate EXCEPT ![event] = "processed"]
  BY DEF Conclude
<1>2. CASE AttemptFails
  BY <1>2, FailsOrGivesUp
<1>3. CASE /\ phase' = "looping" /\ DropInHand /\ UNCHANGED deadLetters
           /\ fate' = [fate EXCEPT ![event] = "processed"]
  <2>1. Settled("processed") /\ attempt' = 0
    BY <1>3 DEF Settled, DropInHand, DeliveryInv, PlacesInv, InHandWhileHeld, Holding
  <2>2. attempt > 0
    BY LimitAssumption DEF DeliveryInv, AttemptsCounted
  <2> QED BY <2>1, <2>2, SettlesHand DEF Delivery!Process
<1> QED BY <1>1, <1>2, <1>3

\* A crash and a get that fails lose the event in hand, or nothing.
LEMMA HandIsLost ==
  ASSUME DeliveryInv, event' = NoEvent, attempt' = 0, phase' \in {"down", "backoff"},
         UNCHANGED <<unsent, queue, fate>>
  PROVE  (Delivery!Lose \/ UNCHANGED Delivery!vars) /\ AttemptsCounted'
<1>2. AttemptsCounted'
  BY DEF AttemptsCounted, Attempting
<1>3. CASE event = NoEvent
  <2>1. UNCHANGED <<event, attempt>>
    BY <1>3 DEF DeliveryInv, AttemptsCounted, PlacesInv, InHandWhileHeld, Holding
  <2> QED BY <1>2, <2>1, Stutters DEF DeliveryInv
<1>4. CASE event # NoEvent
  <2>1. /\ event \in Events /\ event \notin unsent /\ ~InQueue(event)
        /\ fate[event] = "open" /\ NoEvent \notin Events
    BY <1>4, EventAssumption
    DEF DeliveryInv, PlacesInv, PlacesTypeOK, UnsentApart, QueuedApart
  <2>2. Outcome[event] = "open"
    BY <2>1 DEF Outcome, Vanished
  <2>3. Outcome'[event] = "lost"
    BY <2>1 DEF Outcome, Vanished, InQueue
  <2>4. \A e \in Events \ {event} : Outcome'[e] = Outcome[e]
    BY <2>1 DEF Outcome, Vanished, InQueue
  <2>5. Outcome' = [Outcome EXCEPT ![event] = "lost"]
    BY <2>3, <2>4 DEF Outcome
  <2> QED BY <1>2, <1>4, <2>2, <2>5 DEF Delivery!Settle, Delivery!Lose
<1> QED BY <1>3, <1>4

\* Every step of the worker is a step of the queue or a stutter.
LEMMA DeliveryStep ==
  ASSUME DeliveryInv, [Next]_vars
  PROVE  [Delivery!Next]_(Delivery!vars) /\ DeliveryInv'
<1>0. PlacesInv /\ PlacesInv' /\ AttemptsCounted /\ MaxAttempts \in Nat \ {0}
  BY PlacesStep, LimitAssumption DEF DeliveryInv
<1> SUFFICES (Delivery!Next \/ UNCHANGED Delivery!vars) /\ AttemptsCounted'
  BY <1>0 DEF DeliveryInv
<1>s. ASSUME UNCHANGED <<unsent, queue, event, attempt, fate>>,
             phase' \in Attempting <=> phase \in Attempting,
             phase' = "retrying" => phase = "retrying"
      PROVE  UNCHANGED Delivery!vars /\ AttemptsCounted'
  <2>1. AttemptsCounted'
    BY <1>0, <1>s DEF AttemptsCounted
  <2> QED BY <1>0, <1>s, <2>1, Stutters
<1>1. CASE UNCHANGED vars
  BY <1>1, <1>s DEF vars, memory, history
<1>2. ASSUME NEW e \in Events, Enqueue(e)
      PROVE  Delivery!Next /\ AttemptsCounted'
  <2>1. Outcome' = Outcome
    BY <1>0, <1>2, Enqueueing, OutcomesStay DEF Enqueue, history
  <2>2. Delivery!Send(e)
    BY <1>2, <2>1 DEF Enqueue, Delivery!Send
  <2>3. AttemptsCounted'
    BY <1>0, <1>2 DEF Enqueue, AttemptsCounted
  <2> QED BY <2>2, <2>3 DEF Delivery!Next
<1>3. CASE Take
  <2>1. Outcome' = Outcome
    BY <1>0, <1>3, Taking, OutcomesStay DEF Take, history
  <2>2. event = NoEvent
    BY <1>0, <1>3 DEF Take, PlacesInv, InHandWhileHeld, Attempting, Holding
  <2>3. Delivery!Take
    BY <1>3, <2>1, <2>2 DEF Take, Delivery!Take
  <2>4. AttemptsCounted'
    <3>1. phase' = "taken" /\ attempt' = attempt /\ phase = "popping"
      BY <1>3 DEF Take
    <3> QED BY <1>0, <3>1 DEF AttemptsCounted, Attempting
  <2> QED BY <2>3, <2>4 DEF Delivery!Next
<1>4. CASE BackoffEnds \/ SaveEvent
  BY <1>4, <1>s DEF BackoffEnds, SaveEvent, memory, history, Attempting
<1>5. CASE GetReturns \/ Retry
  <2>1. /\ UNCHANGED <<unsent, queue, event, fate>> /\ attempt' = attempt + 1
        /\ attempt < MaxAttempts /\ event # NoEvent /\ phase' = "processing"
    BY <1>0, <1>5
    DEF GetReturns, Retry, AttemptsCounted, history, PlacesInv, InHandWhileHeld, Attempting, Holding
  <2>2. Outcome' = Outcome
    BY <2>1 DEF Outcome, Vanished, InQueue
  <2>3. Delivery!Try
    BY <2>1, <2>2 DEF Delivery!Try
  <2>4. AttemptsCounted'
    BY <1>0, <2>1 DEF AttemptsCounted, Attempting
  <2> QED BY <2>3, <2>4 DEF Delivery!Next
<1>6. CASE CallFails \/ DetectionRaises
  <2>1. phase \in Attempting /\ AttemptFails /\ UNCHANGED <<unsent, queue, crashes, dropped>>
    BY <1>6 DEF CallFails, DetectionRaises, Attempting
  <2> QED BY <2>1, FailsOrGivesUp DEF Delivery!Next
<1>7. CASE Parse
  <2>1. phase \in Attempting /\ UNCHANGED <<unsent, queue, crashes, dropped>>
    BY <1>7 DEF Parse, Attempting, Holding
  <2>2. CASE event \in Malformed
    BY <1>7, <2>1, <2>2, FailsOrGivesUp DEF Parse, Delivery!Next
  <2>3. CASE event \notin Malformed
    BY <1>7, <1>s, <2>3 DEF Parse, Attempting
  <2> QED BY <2>2, <2>3
<1>8. CASE PublishAndDetect
  <2>1. phase \in Attempting /\ UNCHANGED <<unsent, queue, crashes, dropped>>
    BY <1>8 DEF PublishAndDetect, history, Conclude, Attempting
  <2>2. \/ /\ phase' = "persisting"
           /\ UNCHANGED <<unsent, queue, event, attempt, fate>>
        \/ Conclude(<<>>)
    BY <1>8, <2>1 DEF PublishAndDetect, history
  <2>3. CASE Conclude(<<>>)
    BY <2>1, <2>3, ConcludesDelivery DEF Delivery!Next
  <2>4. CASE /\ phase' = "persisting"
             /\ UNCHANGED <<unsent, queue, event, attempt, fate>>
    BY <2>1, <2>4, <1>s DEF Attempting
  <2> QED BY <2>2, <2>3, <2>4
<1>9. CASE PersistResult
  <2>1. phase \in Attempting /\ UNCHANGED <<unsent, queue, crashes, dropped>>
    BY <1>9 DEF PersistResult, history, Conclude, Attempting
  <2>2. \/ UNCHANGED <<phase, unsent, queue, event, attempt, fate>>
        \/ Conclude(results.found)
    BY <1>9, <2>1 DEF PersistResult, history
  <2>3. CASE Conclude(results.found)
    BY <2>1, <2>3, ConcludesDelivery DEF Delivery!Next
  <2>4. CASE UNCHANGED <<phase, unsent, queue, event, attempt, fate>>
    BY <2>4, <1>s
  <2> QED BY <2>2, <2>3, <2>4
<1>10. CASE LoopTurns
  <2>1. event = NoEvent
    BY <1>0, <1>10 DEF LoopTurns, PlacesInv, InHandWhileHeld, Attempting, Holding
  <2>2. /\ UNCHANGED <<unsent, queue, event, attempt, fate>>
        /\ {phase, phase'} \cap Attempting = {} /\ phase' # "retrying"
    BY <1>0, <1>10, <2>1
    DEF LoopTurns, LoseMemory, DropInHand, AttemptsCounted, history, Attempting
  <2> QED BY <2>2, <1>s
<1>11. ASSUME NEW k \in Keys, EntryExpires(k)
       PROVE  UNCHANGED Delivery!vars /\ AttemptsCounted'
  BY <1>11, <1>s DEF EntryExpires
<1>12. CASE RequestStop \/ Restart
  BY <1>12, <1>s DEF RequestStop, Restart, memory, history, Attempting
<1>13. CASE Crash \/ GetFails
  <2>1. /\ event' = NoEvent /\ phase' \in {"down", "backoff"}
        /\ UNCHANGED <<unsent, queue, fate>>
    BY <1>13 DEF Crash, GetFails, LoseMemory, DropInHand, history
  <2>2. attempt' = 0
    BY <1>0, <1>13
    DEF Crash, GetFails, LoseMemory, DropInHand, AttemptsCounted, Attempting
  <2> QED BY <2>1, <2>2, HandIsLost DEF Delivery!Next
<1> QED
  BY <1>1, <1>2, <1>3, <1>4, <1>5, <1>6, <1>7, <1>8, <1>9, <1>10, <1>11, <1>12,
     <1>13 DEF Next, Step

LEMMA DeliveryInit ==
  ASSUME Init
  PROVE  Delivery!Init /\ DeliveryInv
<1>1. Outcome = [e \in Events |-> "open"]
  BY DEF Init, Outcome, Vanished
<1>2. AttemptsCounted
  BY DEF Init, AttemptsCounted, Attempting
<1> QED BY <1>1, <1>2, PlacesInit DEF Init, Delivery!Init, DeliveryInv

\* The worker implements the queue: it takes the events in the order in which
\* they were sent, each at most once, gives up only after the last attempt, and
\* loses none but the one that Redis has removed for it when it crashes or its
\* get fails.
THEOREM ImplementsDelivery == Spec => DeliversAtMostOnce
<1>1. Init => Delivery!Init /\ DeliveryInv
  BY DeliveryInit
<1>2. DeliveryInv /\ [Next]_vars => [Delivery!Next]_(Delivery!vars) /\ DeliveryInv'
  BY DeliveryStep
<1> QED BY <1>1, <1>2, PTL DEF Spec, DeliversAtMostOnce, Delivery!Spec

-----------------------------------------------------------------------------
(* Induction and recursion on the natural numbers *)

\* A set that has 0, and n + 1 with n, has every natural number.
LEMMA NatInd ==
  ASSUME NEW S, 0 \in S, \A n \in Nat : n \in S => n + 1 \in S
  PROVE  Nat \subseteq S
<1> DEFINE T == Nat \ S
           R == OpToRel(<, Nat)
<1>1. SUFFICES ASSUME T # {} PROVE FALSE
  OBVIOUS
<1>2. IsWellFoundedOn(R, Nat)
  BY NatLessThanWellFounded, Zenon
<1> HIDE DEF R
<1>3. PICK x \in T : \A y \in T : ~ (<<y, x>> \in R)
  <2>1. T \subseteq Nat
    OBVIOUS
  <2> HIDE DEF T
  <2> QED BY <1>1, <1>2, <2>1, WFMin, Zenon
<1> USE DEF R
<1>4. \A y \in T : ~(y < x)
  BY <1>3 DEF OpToRel
<1>5. x # 0 /\ x \in Nat
  BY <1>3
<1>6. x - 1 \in Nat /\ x - 1 < x /\ (x - 1) + 1 = x
  BY <1>5
<1>7. x - 1 \in S
  BY <1>4, <1>6
<1> QED BY <1>7, <1>6, <1>3

\* A function that is built step by step exists.
LEMMA Recursion ==
  ASSUME NEW S, NEW base \in S, NEW N \in Nat
  PROVE  \A step \in [1..N -> [S -> S]] : \E g \in [0..N -> S] :
           g[0] = base /\ \A n \in 1..N : g[n] = step[n][g[n - 1]]
<1> TAKE step \in [1..N -> [S -> S]]
<1> DEFINE Upto(m, g) ==
             g \in [0..N -> S] /\ g[0] = base
             /\ \A n \in 1..N : n <= m => g[n] = step[n][g[n - 1]]
           Built == {m \in Nat : m <= N => \E g : Upto(m, g)}
<1>1. 0 \in Built
  <2> DEFINE g == [n \in 0..N |-> base]
  <2>1. Upto(0, g)  OBVIOUS
  <2> HIDE DEF Upto, g
  <2> QED BY <2>1
<1>2. ASSUME NEW m \in Nat, m \in Built PROVE m + 1 \in Built
  <2> SUFFICES ASSUME m + 1 <= N PROVE \E g : Upto(m + 1, g)
    OBVIOUS
  <2>1. PICK g : Upto(m, g)
    BY <1>2
  <2> DEFINE h == [g EXCEPT ![m + 1] = step[m + 1][g[m]]]
  <2>2. m + 1 \in 1..N /\ m \in 0..N /\ g[m] \in S
    BY <2>1
  <2>3. step[m + 1][g[m]] \in S
    BY <2>2
  <2>4. h \in [0..N -> S] /\ h[0] = base /\ h[m + 1] = step[m + 1][g[m]]
        /\ \A n \in 0..N : n # m + 1 => h[n] = g[n]
    BY <2>1, <2>2, <2>3
  <2> HIDE DEF h
  <2>5. \A n \in 1..N : n <= m + 1 => h[n] = step[n][h[n - 1]]
    <3> SUFFICES ASSUME NEW n \in 1..N, n <= m + 1 PROVE h[n] = step[n][h[n - 1]]
      OBVIOUS
    <3>1. n - 1 \in 0..N /\ n - 1 # m + 1 /\ n \in 0..N /\ (n = m + 1 \/ n <= m)
      BY <2>2
    <3>2. h[n - 1] = g[n - 1]
      BY <2>4, <3>1
    <3>3. CASE n = m + 1
      BY <2>2, <2>4, <3>2, <3>3
    <3>4. CASE n <= m
      <4>1. h[n] = g[n]
        BY <2>4, <3>1, <3>4
      <4>2. g[n] = step[n][g[n - 1]]
        BY <2>1, <3>4
      <4> QED BY <3>2, <4>1, <4>2
    <3> QED BY <3>1, <3>3, <3>4
  <2> QED BY <2>4, <2>5
<1> HIDE DEF Upto
<1>3. Nat \subseteq Built
  <2> HIDE DEF Built
  <2> QED BY <1>1, <1>2, NatInd
<1>4. PICK g : Upto(N, g)
  BY <1>3
<1> QED BY <1>4 DEF Upto

-----------------------------------------------------------------------------
(* Work on the results of an event *)

\* What the work on an event may be.
Works ==
  [alerts: [Keys -> Alert \cup {NoAlert}], window: Seq(Evidence),
   counted: [Keys -> [Events -> Nat]], raised: BOOLEAN]

\* What happens to an alert leaves an alert.
LEMMA AlertOperators ==
  /\ \A k \in Keys : NewAlert(k) \in Alert
  /\ \A a \in Alert : /\ Recurred(a) \in Alert
                      /\ AfterSuppression(a) \in Alert
                      /\ AfterEscalation(a) \in Alert
                      /\ SuppressionRaises(a) \in BOOLEAN
<1>1. \A k \in Keys : NewAlert(k) \in Alert
  BY DEF NewAlert, Alert, AlertStatus
<1>2. ASSUME NEW a \in Alert
      PROVE  Recurred(a) \in Alert
  BY DEF Recurred, Alert
<1>3. ASSUME NEW a \in Alert, NEW t \in AlertStatus
      PROVE  Moved(a, t) \in Alert
  BY DEF Moved, Alert
<1>4. {"SUPPRESSED", "ESCALATED"} \subseteq AlertStatus
  BY DEF AlertStatus
<1> QED
  BY <1>1, <1>2, <1>3, <1>4 DEF AfterSuppression, AfterEscalation, SuppressionRaises

\* An occurrence adds one to the count of its event under its key, and leaves
\* an alert there unless the work has ended before.
LEMMA OccurFacts ==
  ASSUME NEW w \in Works, NEW k \in Keys, event \in Events
  PROVE  /\ Occur(w, k) \in Works
         /\ Occur(w, k).window = w.window
         /\ w.raised => Occur(w, k) = w
         /\ ~w.raised => Occur(w, k).alerts[k] \in Alert
         /\ \A j \in Keys : w.alerts[j] \in Alert => Occur(w, k).alerts[j] \in Alert
         /\ \A j \in Keys, e \in Events :
              /\ (j # k \/ e # event) => Occur(w, k).counted[j][e] = w.counted[j][e]
              /\ Occur(w, k).counted[j][e] <= w.counted[j][e] + 1
<1> DEFINE a == IF w.alerts[k] = NoAlert THEN NewAlert(k) ELSE Recurred(w.alerts[k])
           more == [w.counted EXCEPT ![k][event] = @ + 1]
           v == [alerts |-> [w.alerts EXCEPT ![k] = AfterSuppression(a)],
                 counted |-> more, raised |-> SuppressionRaises(a),
                 window |-> w.window]
<1>1. /\ w.alerts \in [Keys -> Alert \cup {NoAlert}] /\ w.raised \in BOOLEAN
      /\ w.counted \in [Keys -> [Events -> Nat]]
      /\ w.window \in Seq(Evidence)
  BY DEF Works
<1>2. a \in Alert
  BY <1>1, AlertOperators
<1>3. AfterSuppression(a) \in Alert /\ SuppressionRaises(a) \in BOOLEAN
  <2> HIDE DEF a
  <2> QED BY <1>2, AlertOperators
<1> HIDE DEF a
<1>4. /\ more \in [Keys -> [Events -> Nat]]
      /\ \A j \in Keys, e \in Events :
           more[j][e] = IF j = k /\ e = event THEN w.counted[j][e] + 1 ELSE w.counted[j][e]
  BY <1>1
<1> HIDE DEF more
<1>5. /\ v.alerts = [w.alerts EXCEPT ![k] = AfterSuppression(a)]
      /\ v.counted = more /\ v.raised = SuppressionRaises(a)
      /\ v.window = w.window
  OBVIOUS
<1>6. Occur(w, k) = IF w.raised THEN w ELSE v
  BY DEF Occur, a, more
<1> HIDE DEF v
<1>7. v.alerts \in [Keys -> Alert \cup {NoAlert}] /\ v.alerts[k] \in Alert
      /\ \A j \in Keys : w.alerts[j] \in Alert => v.alerts[j] \in Alert
  BY <1>1, <1>3, <1>5
<1>8. /\ v.counted \in [Keys -> [Events -> Nat]]
      /\ \A j \in Keys, e \in Events :
           /\ (j # k \/ e # event) => v.counted[j][e] = w.counted[j][e]
           /\ v.counted[j][e] <= w.counted[j][e] + 1
  BY <1>1, <1>4, <1>5
<1>9. v \in Works
  <2>1. /\ v.alerts \in [Keys -> Alert \cup {NoAlert}]
        /\ v.counted \in [Keys -> [Events -> Nat]]
        /\ SuppressionRaises(a) \in BOOLEAN
    BY <1>3, <1>7, <1>8
  <2> QED BY <1>1, <1>5, <2>1 DEF Works, v
<1>10. \A j \in Keys, e \in Events : w.counted[j][e] <= w.counted[j][e] + 1
  BY <1>1
<1>11. CASE w.raised
  <2>1. Occur(w, k) = w
    BY <1>6, <1>11
  <2> QED BY <1>10, <1>11, <2>1
<1>12. CASE ~w.raised
  <2>1. Occur(w, k) = v
    BY <1>6, <1>12
  <2> QED BY <1>5, <1>7, <1>8, <1>9, <1>12, <2>1
<1> QED BY <1>11, <1>12

\* Recursion, on work.
LEMMA WorkRecursion ==
  ASSUME NEW w \in Works, NEW N \in Nat
  PROVE  \A step \in [1..N -> [Works -> Works]] : \E g \in [0..N -> Works] :
           g[0] = w /\ \A n \in 1..N : g[n] = step[n][g[n - 1]]
BY Recursion

\* The work on the first n results, for every n.
LEMMA CreatedSteps ==
  ASSUME NEW w \in Works, NEW found \in Seq(Result), event \in Events
  PROVE  \E made \in [0..Len(found) -> Works] :
           /\ made[0] = w
           /\ \A n \in 1..Len(found) :
                made[n] = IF found[n].suppressed THEN made[n - 1]
                          ELSE Occur(made[n - 1], found[n].key)
           /\ Created(w, found) = made[Len(found)]
<1> DEFINE N == Len(found)
           After(v, n) == IF found[n].suppressed THEN v ELSE Occur(v, found[n].key)
           Def(g) == [n \in 0..N |-> IF n = 0 THEN w
                                     ELSE IF found[n].suppressed THEN g[n - 1]
                                     ELSE Occur(g[n - 1], found[n].key)]
           made == CHOOSE g : g = Def(g)
           step == [n \in 1..N |-> [v \in Works |-> After(v, n)]]
<1>1. Created(w, found) = made[N]
  BY DEF Created
<1>2. N \in Nat /\ \A n \in 1..N : found[n].key \in Keys
  <2>1. N \in Nat /\ \A n \in 1..N : found[n] \in Result
    OBVIOUS
  <2> QED BY <2>1 DEF Result
<1>3. \A n \in 1..N, v \in Works : After(v, n) \in Works
  BY <1>2, OccurFacts
<1>4. step \in [1..N -> [Works -> Works]]
  <2> HIDE DEF After, N
  <2> QED BY <1>3
<1>5. PICK g \in [0..N -> Works] :
        g[0] = w /\ \A n \in 1..N : g[n] = step[n][g[n - 1]]
  <2>1. w \in Works /\ N \in Nat
    BY <1>2
  <2>2. \A st \in [1..N -> [Works -> Works]] : \E g \in [0..N -> Works] :
          g[0] = w /\ \A n \in 1..N : g[n] = st[n][g[n - 1]]
    <3> HIDE DEF N
    <3> QED BY <2>1, WorkRecursion
  <2> HIDE DEF step, N, Def, made, After
  <2> QED BY <1>4, <2>2
<1>6. ASSUME NEW n \in 1..N
      PROVE  step[n][g[n - 1]] = After(g[n - 1], n)
  <2>1. n - 1 \in 0..N
    BY <1>2
  <2>2. g[n - 1] \in Works
    BY <2>1
  <2> HIDE DEF After
  <2> QED BY <2>2
<1> HIDE DEF step, N
<1>7. g = Def(g)
  <2>1. \A n \in 0..N : n = 0 \/ n \in 1..N
    BY <1>2
  <2> QED BY <1>2, <1>5, <1>6, <2>1
<1>8. made = Def(made)
  <2> HIDE DEF Def
  <2> QED BY <1>7
<1> HIDE DEF made
<1>9. /\ made[0] = w /\ DOMAIN made = 0..N /\ made = [n \in 0..N |-> made[n]]
      /\ \A n \in 1..N : made[n] = After(made[n - 1], n)
  <2>1. 0 \in 0..N /\ \A n \in 1..N : n \in 0..N /\ n # 0
    BY <1>2
  <2>2. DOMAIN made = 0..N
    BY <1>8
  <2>3. \A n \in 0..N : made[n] = IF n = 0 THEN w ELSE After(made[n - 1], n)
    BY <1>8
  <2>4. made = [n \in 0..N |-> made[n]]
    <3>1. Def(made) = [n \in 0..N |-> Def(made)[n]]
      OBVIOUS
    <3> HIDE DEF Def
    <3> QED BY <1>8, <3>1
  <2> HIDE DEF Def, After
  <2> QED BY <2>1, <2>2, <2>3, <2>4
<1> HIDE DEF Def
<1> DEFINE P == {n \in Nat : n <= N => made[n] \in Works}
<1>10. 0 \in P
  BY <1>9
<1>11. ASSUME NEW n \in Nat, n \in P
       PROVE  n + 1 \in P
  <2> SUFFICES ASSUME n + 1 <= N PROVE made[n + 1] \in Works
    OBVIOUS
  <2>1. made[n] \in Works /\ n + 1 \in 1..N /\ (n + 1) - 1 = n
    BY <1>2, <1>11
  <2>2. made[n + 1] = After(made[n], n + 1)
    BY <1>9, <2>1
  <2> HIDE DEF After
  <2> QED BY <1>3, <2>1, <2>2
<1>12. Nat \subseteq P
  <2> HIDE DEF P
  <2> QED BY <1>10, <1>11, NatInd
<1>13. made \in [0..N -> Works]
  <2>1. \A n \in 0..N : made[n] \in Works
    BY <1>2, <1>12
  <2> QED BY <1>9, <2>1
<1> QED BY <1>1, <1>9, <1>13 DEF N

\* At most one of the results has the key.
OneAtMost(found, k) ==
  \A m, n \in DOMAIN found : found[m].key = k /\ found[n].key = k => m = n

\* What the results of an event do to the work on it: those that are not
\* suppressed leave an alert, unless an error ends the attempt; a key that only
\* suppressed results have is not counted, one that one result has once.
LEMMA CreatedFacts ==
  ASSUME NEW w \in Works, NEW found \in Seq(Result), event \in Events
  PROVE  /\ Created(w, found) \in Works
         /\ Created(w, found).window = w.window
         /\ ~Created(w, found).raised =>
              \A k \in Eligible(found) : Created(w, found).alerts[k] \in Alert
         /\ \A k \in Keys, e \in Events :
              /\ e # event => Created(w, found).counted[k][e] = w.counted[k][e]
              /\ (\A m \in DOMAIN found : found[m].key = k => found[m].suppressed) =>
                   Created(w, found).counted[k][e] = w.counted[k][e]
              /\ OneAtMost(found, k) =>
                   Created(w, found).counted[k][e] <= w.counted[k][e] + 1
<1> DEFINE N == Len(found)
<1>1. /\ N \in Nat /\ DOMAIN found = 1..N
      /\ \A n \in 1..N : found[n].key \in Keys
  <2>1. N \in Nat /\ DOMAIN found = 1..N /\ \A n \in 1..N : found[n] \in Result
    OBVIOUS
  <2> QED BY <2>1 DEF Result
<1>2. PICK made \in [0..N -> Works] :
        /\ made[0] = w
        /\ \A n \in 1..N : made[n] = IF found[n].suppressed THEN made[n - 1]
                                    ELSE Occur(made[n - 1], found[n].key)
        /\ Created(w, found) = made[N]
  BY CreatedSteps
<1> HIDE DEF N
<1> DEFINE Left(n) ==
             ~made[n].raised =>
               \A m \in 1..n : ~found[m].suppressed =>
                 made[n].alerts[found[m].key] \in Alert
           Same(n, k, e) == made[n].counted[k][e] = w.counted[k][e]
           Counts(n) ==
             \A k \in Keys, e \in Events :
               /\ e # event => Same(n, k, e)
               /\ (\A m \in 1..n : found[m].key = k => found[m].suppressed) =>
                    Same(n, k, e)
               /\ OneAtMost(found, k) =>
                    made[n].counted[k][e] <= w.counted[k][e] + 1
           Keeps(n) == made[n].window = w.window
           P == {n \in Nat : n <= N => Left(n) /\ Counts(n) /\ Keeps(n)}
<1>3. 0 \in P
  <2>1. \A k \in Keys, e \in Events : w.counted[k][e] <= w.counted[k][e] + 1
    BY DEF Works
  <2> QED BY <1>2, <2>1
<1>4. ASSUME NEW n \in Nat, n \in P
      PROVE  n + 1 \in P
  <2> SUFFICES ASSUME n + 1 <= N PROVE Left(n + 1) /\ Counts(n + 1) /\ Keeps(n + 1)
    OBVIOUS
  <2>1. /\ Left(n) /\ Counts(n) /\ Keeps(n)
        /\ n + 1 \in 1..N /\ (n + 1) - 1 = n /\ n \in 0..N
        /\ 1..(n + 1) = 1..n \cup {n + 1} /\ 1..n \subseteq 1..N
    BY <1>1, <1>4
  <2>2. made[n] \in Works /\ made[n + 1] \in Works
    BY <1>2, <2>1
  <2>3. CASE found[n + 1].suppressed
    <3>1. made[n + 1] = made[n]
      BY <1>2, <2>1, <2>3
    <3>2. Keeps(n + 1) /\ Left(n + 1)
      BY <2>1, <2>3, <3>1
    <3>3. Counts(n + 1)
      BY <2>1, <2>3, <3>1
    <3> QED BY <3>2, <3>3
  <2>4. CASE ~found[n + 1].suppressed
    <3> DEFINE o == made[n]
               v == made[n + 1]
               c == found[n + 1].key
    <3>1. v = Occur(o, c) /\ c \in Keys
      BY <1>1, <1>2, <2>1, <2>4
    <3>2. /\ v.window = o.window
          /\ o.raised => v = o
          /\ ~o.raised => v.alerts[c] \in Alert
          /\ \A j \in Keys : o.alerts[j] \in Alert => v.alerts[j] \in Alert
          /\ \A j \in Keys, e \in Events :
               /\ (j # c \/ e # event) => v.counted[j][e] = o.counted[j][e]
               /\ v.counted[j][e] <= o.counted[j][e] + 1
      <4>1. o \in Works /\ c \in Keys
        BY <2>2, <3>1
      <4> HIDE DEF o, c
      <4>2. LET u == Occur(o, c) IN
            /\ u.window = o.window
            /\ o.raised => u = o
            /\ ~o.raised => u.alerts[c] \in Alert
            /\ \A j \in Keys : o.alerts[j] \in Alert => u.alerts[j] \in Alert
            /\ \A j \in Keys, e \in Events :
                 /\ (j # c \/ e # event) => u.counted[j][e] = o.counted[j][e]
                 /\ u.counted[j][e] <= o.counted[j][e] + 1
        BY <4>1, OccurFacts
      <4> HIDE DEF v
      <4> QED BY <3>1, <4>2
    <3>3. Keeps(n + 1)
      BY <2>1, <3>2
    <3>4. Left(n + 1)
      BY <1>1, <2>1, <3>2
    <3>5. ASSUME NEW k \in Keys, NEW e \in Events
          PROVE  /\ e # event => Same(n + 1, k, e)
                 /\ (\A m \in 1..(n + 1) : found[m].key = k => found[m].suppressed) =>
                      Same(n + 1, k, e)
                 /\ OneAtMost(found, k) =>
                      made[n + 1].counted[k][e] <= w.counted[k][e] + 1
      <4>1. CASE k # c
        BY <2>1, <3>2, <3>5, <4>1
      <4>2. CASE k = c
        <5>1. OneAtMost(found, k) => \A m \in 1..n : found[m].key # k
          <6>1. \A m \in 1..n : m # n + 1
            BY <1>4
          <6> QED BY <1>1, <2>1, <4>2, <6>1 DEF OneAtMost
        <5>2. e # event => Same(n + 1, k, e)
          BY <2>1, <3>2, <3>5
        <5>3. OneAtMost(found, k) =>
                made[n + 1].counted[k][e] <= w.counted[k][e] + 1
          BY <2>1, <3>2, <3>5, <5>1
        <5> QED BY <2>1, <2>4, <4>2, <5>2, <5>3
      <4> QED BY <4>1, <4>2
    <3> QED BY <3>3, <3>4, <3>5
  <2> QED BY <2>3, <2>4
<1>5. Nat \subseteq P
  <2> HIDE DEF P
  <2> QED BY <1>3, <1>4, NatInd
<1>6. made[N] \in Works /\ Left(N) /\ Counts(N) /\ Keeps(N)
  <2>1. N \in 0..N /\ N \in Nat /\ N <= N
    BY <1>1
  <2> QED BY <1>2, <1>5, <2>1
<1> QED BY <1>1, <1>2, <1>6 DEF Eligible

\* Escalation comes after, and counts nothing.
LEMMA RaisedFacts ==
  ASSUME NEW w \in Works, NEW found \in Seq(Result), event \in Events
  PROVE  /\ RaiseAlerts(w, found) \in Works
         /\ RaiseAlerts(w, found).window = w.window
         /\ RaiseAlerts(w, found).counted = Created(w, found).counted
<1> DEFINE v == Created(w, found)
           escalated == [k \in Keys |-> IF k \in Eligible(found)
                                       THEN AfterEscalation(v.alerts[k])
                                       ELSE v.alerts[k]]
<1>1. /\ v \in Works /\ v.window = w.window
      /\ ~v.raised => \A k \in Eligible(found) : v.alerts[k] \in Alert
  BY CreatedFacts
<1>2. RaiseAlerts(w, found) = IF v.raised THEN v ELSE [v EXCEPT !.alerts = escalated]
  BY DEF RaiseAlerts
<1> HIDE DEF v
<1>3. CASE v.raised
  BY <1>1, <1>2, <1>3 DEF v
<1>4. CASE ~v.raised
  <2>1. escalated \in [Keys -> Alert \cup {NoAlert}]
    <3>1. \A k \in Keys : v.alerts[k] \in Alert \cup {NoAlert}
      BY <1>1 DEF Works
    <3> QED BY <1>1, <1>4, <3>1, AlertOperators
  <2> HIDE DEF escalated
  <2>2. [v EXCEPT !.alerts = escalated] \in Works
        /\ [v EXCEPT !.alerts = escalated].window = v.window
        /\ [v EXCEPT !.alerts = escalated].counted = v.counted
    BY <1>1, <2>1 DEF Works
  <2> QED BY <1>1, <1>2, <1>4, <2>2 DEF v
<1> QED BY <1>3, <1>4

\* Correlation keeps its window below the threshold, and counts under no key
\* but its own.
LEMMA CorrelatedFacts ==
  ASSUME NEW w \in Works, Len(w.window) < Threshold, event \in Events
  PROVE  /\ Correlate(w) \in Works
         /\ Len(Correlate(w).window) < Threshold
         /\ \A k \in Keys \ {CorrelationKey} : \A e \in Events :
              Correlate(w).counted[k][e] = w.counted[k][e]
<1> DEFINE matching == Append(w.window, event)
           open == [w EXCEPT !.window = matching]
           matched == [alerts |-> w.alerts, window |-> <<>>, counted |-> w.counted,
                       raised |-> FALSE]
           found == <<[key |-> CorrelationKey, rule |-> FALSE, suppressed |-> FALSE]>>
<1>1. CASE w.raised \/ event \notin Evidence
  BY <1>1 DEF Correlate
<1>2. CASE ~w.raised /\ event \in Evidence /\ Len(matching) < Threshold
  <2>1. Correlate(w) = open
    BY <1>2 DEF Correlate
  <2>2. matching \in Seq(Evidence)
    BY <1>2 DEF Works
  <2> HIDE DEF matching
  <2>3. open \in Works /\ open.window = matching /\ open.counted = w.counted
    BY <2>2 DEF Works
  <2> QED BY <1>2, <2>1, <2>3 DEF matching
<1>3. CASE ~w.raised /\ event \in Evidence /\ ~(Len(matching) < Threshold)
  <2>1. Correlate(w) = RaiseAlerts(matched, found)
    BY <1>3 DEF Correlate
  <2>2. matched \in Works /\ matched.window = <<>> /\ matched.counted = w.counted
    <3>1. <<>> \in Seq(Evidence)
      OBVIOUS
    <3> QED BY <3>1 DEF Works
  <2> HIDE DEF matched
  <2>3. /\ found \in Seq(Result)
        /\ \A k \in Keys \ {CorrelationKey} : \A m \in DOMAIN found : found[m].key # k
    <3>1. [key |-> CorrelationKey, rule |-> FALSE, suppressed |-> FALSE] \in Result
      BY EventAssumption DEF Result
    <3> QED BY <3>1
  <2> HIDE DEF found
  <2>4. /\ RaiseAlerts(matched, found) \in Works
        /\ RaiseAlerts(matched, found).window = matched.window
        /\ RaiseAlerts(matched, found).counted = Created(matched, found).counted
    BY <2>2, <2>3, RaisedFacts
  <2>5. \A k \in Keys \ {CorrelationKey} : \A e \in Events :
          Created(matched, found).counted[k][e] = matched.counted[k][e]
    BY <2>2, <2>3, CreatedFacts
  <2>6. Len(RaiseAlerts(matched, found).window) < Threshold
    BY <2>2, <2>4, LimitAssumption
  <2> QED BY <2>1, <2>2, <2>4, <2>5, <2>6
<1> QED BY <1>1, <1>2, <1>3

-----------------------------------------------------------------------------
(* Type correctness *)

\* What the alerting of an attempt changes.
WorkTypeOK ==
  /\ alerts \in [Keys -> Alert \cup {NoAlert}]
  /\ window \in Seq(Evidence) /\ Len(window) < Threshold
  /\ counted \in [Keys -> [Events -> Nat]]

\* Where the worker is, and what it has done of an attempt.
RunTypeOK ==
  /\ phase \in {"looping", "popping", "taken", "backoff", "processing", "saving",
                "publishing", "persisting", "retrying", "exited", "down"}
  /\ attempt \in 0..MaxAttempts
  /\ results \in [found: Seq(Result), saved: Nat]
  /\ suppressed \subseteq Keys \X Events
  /\ slow \subseteq Events
  /\ stopping \in BOOLEAN
  /\ faults \in 0..MaxFaults /\ crashes \in 0..MaxCrashes

\* There is an attempt left when the worker waits for the next one.
RetriesLeft == phase = "retrying" => attempt < MaxAttempts

WorkerInv ==
  /\ PlacesInv
  /\ WorkTypeOK
  /\ RunTypeOK
  /\ RetriesLeft

\* How an attempt ends, with its work: the counts of the event are those of
\* its results.
LEMMA ConcludedFacts ==
  ASSUME WorkTypeOK, NEW found \in Seq(Result), event \in Events, Conclude(found)
  PROVE  /\ WorkTypeOK'
         /\ \A k \in Keys \ {CorrelationKey}, e \in Events :
              /\ e # event => counted'[k][e] = counted[k][e]
              /\ (\A m \in DOMAIN found : found[m].key = k => found[m].suppressed) =>
                   counted'[k][e] = counted[k][e]
              /\ OneAtMost(found, k) => counted'[k][e] <= counted[k][e] + 1
         /\ UNCHANGED slow
         /\ AttemptFails \/ (phase' = "looping" /\ DropInHand)
<1> DEFINE alerted == RaiseAlerts(Work, found)
           done == Correlate(alerted)
<1>1. /\ alerts' = done.alerts /\ window' = done.window
      /\ counted' = done.counted
      /\ UNCHANGED slow
      /\ AttemptFails \/ (phase' = "looping" /\ DropInHand)
  BY DEF Conclude
<1>2. /\ Work \in Works /\ Work.counted = counted /\ Work.window = window
  BY DEF Work, Works, WorkTypeOK
<1>3. /\ alerted \in Works /\ alerted.window = window
      /\ alerted.counted = Created(Work, found).counted
  BY <1>2, RaisedFacts
<1>4. \A k \in Keys, e \in Events :
        /\ e # event => alerted.counted[k][e] = counted[k][e]
        /\ (\A m \in DOMAIN found : found[m].key = k => found[m].suppressed) =>
             alerted.counted[k][e] = counted[k][e]
        /\ OneAtMost(found, k) => alerted.counted[k][e] <= counted[k][e] + 1
  BY <1>2, <1>3, CreatedFacts
<1> HIDE DEF alerted
<1>5. /\ done \in Works /\ Len(done.window) < Threshold
      /\ \A k \in Keys \ {CorrelationKey} : \A e \in Events :
           done.counted[k][e] = alerted.counted[k][e]
  <2>1. Len(alerted.window) < Threshold
    BY <1>3 DEF WorkTypeOK
  <2> QED BY <1>3, <2>1, CorrelatedFacts
<1> HIDE DEF done
<1>6. WorkTypeOK'
  BY <1>1, <1>5 DEF WorkTypeOK, Works
<1> QED BY <1>1, <1>4, <1>5, <1>6

\* An attempt that fails leaves the worker with its types.
LEMMA FailingTypes ==
  ASSUME RunTypeOK, AttemptFails,
         UNCHANGED <<slow, stopping, crashes>>,
         faults' \in 0..MaxFaults, suppressed' \subseteq Keys \X Events
  PROVE  RunTypeOK' /\ RetriesLeft'
<1>1. NoResults \in [found: Seq(Result), saved: Nat]
  BY DEF NoResults
<1>2. CASE attempt < MaxAttempts
  BY <1>1, <1>2, LimitAssumption DEF RunTypeOK, AttemptFails, RetriesLeft
<1>3. CASE ~(attempt < MaxAttempts)
  BY <1>1, <1>3, LimitAssumption DEF RunTypeOK, AttemptFails, RetriesLeft, DropInHand
<1> QED BY <1>2, <1>3

\* The results of an event: one per rule, suppressed when it has an entry, and
\* one per plugin.
LEMMA FoundFacts ==
  ASSUME event \in Events
  PROVE  /\ RuleResults \o PluginResults \in Seq(Result)
         /\ \A k \in Range(RulesOf[event]) \ Range(PluginsOf[event]) :
              /\ OneAtMost(RuleResults \o PluginResults, k)
              /\ <<k, event>> \in suppressed =>
                   \A m \in DOMAIN (RuleResults \o PluginResults) :
                     (RuleResults \o PluginResults)[m].key = k =>
                       (RuleResults \o PluginResults)[m].suppressed
<1> DEFINE rules == RulesOf[event]
           plugins == PluginsOf[event]
           found == RuleResults \o PluginResults
<1>1. /\ rules \in Seq(Keys) /\ plugins \in Seq(Keys)
      /\ Len(rules) \in Nat /\ DOMAIN rules = 1..Len(rules)
      /\ Len(plugins) \in Nat /\ DOMAIN plugins = 1..Len(plugins)
      /\ \A n \in 1..Len(rules) : rules[n] \in Keys
      /\ \A n \in 1..Len(plugins) : plugins[n] \in Keys
  BY EventAssumption
<1>2. /\ RuleResults \in Seq(Result) /\ Len(RuleResults) = Len(rules)
      /\ \A n \in 1..Len(rules) :
           /\ RuleResults[n].key = rules[n]
           /\ RuleResults[n].suppressed = (<<rules[n], event>> \in suppressed)
  BY <1>1 DEF RuleResults, Result
<1>3. /\ PluginResults \in Seq(Result) /\ Len(PluginResults) = Len(plugins)
      /\ \A n \in 1..Len(plugins) : PluginResults[n].key = plugins[n]
  BY <1>1 DEF PluginResults, Result
<1>4. /\ found \in Seq(Result)
      /\ DOMAIN found = 1..(Len(rules) + Len(plugins))
      /\ \A m \in 1..(Len(rules) + Len(plugins)) :
           found[m] = IF m <= Len(rules) THEN RuleResults[m]
                      ELSE PluginResults[m - Len(rules)]
  <2>1. RuleResults \in Seq(Result) /\ PluginResults \in Seq(Result)
    BY <1>2, <1>3
  <2>2. /\ found \in Seq(Result)
        /\ Len(found) = Len(RuleResults) + Len(PluginResults)
        /\ \A m \in 1..(Len(RuleResults) + Len(PluginResults)) :
             found[m] = IF m <= Len(RuleResults) THEN RuleResults[m]
                        ELSE PluginResults[m - Len(RuleResults)]
    BY <2>1, ConcatProperties, Zenon
  <2> HIDE DEF found
  <2>3. DOMAIN found = 1..Len(found)
    BY <2>2
  <2> QED BY <1>2, <1>3, <2>2, <2>3
<1> HIDE DEF found, rules, plugins
<1>5. ASSUME NEW k \in Range(rules) \ Range(plugins), NEW m \in DOMAIN found,
             found[m].key = k
      PROVE  m \in 1..Len(rules) /\ found[m] = RuleResults[m] /\ rules[m] = k
  <2>1. CASE m <= Len(rules)
    <3>1. m \in 1..Len(rules)
      BY <1>1, <1>4, <2>1
    <3> QED BY <1>2, <1>4, <1>5, <2>1, <3>1
  <2>2. CASE ~(m <= Len(rules))
    <3>1. m - Len(rules) \in 1..Len(plugins)
      BY <1>1, <1>4, <2>2
    <3>2. plugins[m - Len(rules)] = k
      BY <1>3, <1>4, <1>5, <2>2, <3>1
    <3> QED BY <1>1, <1>5, <3>1, <3>2 DEF Range
  <2> QED BY <2>1, <2>2
<1>6. IsInjective(rules)
  BY KeyAssumption DEF rules
<1>7. ASSUME NEW k \in Range(rules) \ Range(plugins)
      PROVE  /\ OneAtMost(found, k)
             /\ <<k, event>> \in suppressed =>
                  \A m \in DOMAIN found : found[m].key = k => found[m].suppressed
  <2>1. OneAtMost(found, k)
    <3>1. \A m, n \in 1..Len(rules) : rules[m] = rules[n] => m = n
      BY <1>1, <1>6 DEF IsInjective
    <3> QED BY <1>5, <3>1 DEF OneAtMost
  <2>2. ASSUME <<k, event>> \in suppressed, NEW m \in DOMAIN found, found[m].key = k
        PROVE  found[m].suppressed
    <3>1. m \in 1..Len(rules) /\ found[m] = RuleResults[m] /\ rules[m] = k
      BY <1>5, <2>2
    <3> QED BY <1>2, <2>2, <3>1
  <2> QED BY <2>1, <2>2
<1> QED BY <1>4, <1>7 DEF found, rules, plugins

\* An attempt under way has an event.
LEMMA EventInHand ==
  ASSUME PlacesInv, phase \in Attempting
  PROVE  event \in Events
BY DEF PlacesInv, PlacesTypeOK, InHandWhileHeld, Holding

\* Every step keeps the types.
LEMMA WorkerStep ==
  ASSUME WorkerInv, [Next]_vars
  PROVE  WorkerInv'
<1>0. PlacesInv /\ WorkTypeOK /\ RunTypeOK /\ RetriesLeft /\ PlacesInv'
  BY PlacesStep DEF WorkerInv
<1> SUFFICES WorkTypeOK' /\ RunTypeOK' /\ RetriesLeft'
  BY <1>0 DEF WorkerInv
<1> DEFINE work == <<alerts, window, counted>>
<1>a. UNCHANGED work => WorkTypeOK'
  BY <1>0 DEF WorkTypeOK
<1>b. NoResults \in [found: Seq(Result), saved: Nat] /\ 0 \in 0..MaxAttempts
      /\ 1 \in 0..MaxAttempts
  BY LimitAssumption DEF NoResults
<1>1. CASE UNCHANGED vars
  BY <1>0, <1>1 DEF vars, memory, history, WorkTypeOK, RunTypeOK, RetriesLeft
<1>2. ASSUME NEW e \in Events, Enqueue(e)
      PROVE  WorkTypeOK' /\ RunTypeOK' /\ RetriesLeft'
  BY <1>0, <1>2 DEF Enqueue, memory, history, WorkTypeOK, RunTypeOK, RetriesLeft
<1>3. CASE Take \/ GetReturns
  BY <1>0, <1>3, <1>b
  DEF Take, GetReturns, memory, history, WorkTypeOK, RunTypeOK, RetriesLeft
<1>4. CASE GetFails \/ BackoffEnds
  <2>1. faults' \in 0..MaxFaults
    BY <1>0, <1>4, LimitAssumption DEF GetFails, Fault, BackoffEnds, RunTypeOK
  <2> QED
    BY <1>0, <1>4, <2>1
    DEF GetFails, BackoffEnds, memory, history, WorkTypeOK, RunTypeOK, RetriesLeft
<1>5. CASE Retry
  <2>1. attempt < MaxAttempts /\ attempt \in 0..MaxAttempts /\ MaxAttempts \in Nat
    BY <1>0, <1>5, LimitAssumption DEF Retry, RetriesLeft, RunTypeOK
  <2>2. attempt + 1 \in 0..MaxAttempts
    BY <2>1
  <2> QED
    BY <1>0, <1>5, <2>2 DEF Retry, memory, history, WorkTypeOK, RunTypeOK, RetriesLeft
<1>6. CASE SaveEvent
  BY <1>0, <1>6 DEF SaveEvent, memory, history, WorkTypeOK, RunTypeOK, RetriesLeft
<1>7. CASE CallFails
  <2>1. faults' \in 0..MaxFaults
    BY <1>0, <1>7, LimitAssumption DEF CallFails, Fault, RunTypeOK
  <2>2. RunTypeOK' /\ RetriesLeft'
    BY <1>0, <1>7, <2>1, FailingTypes DEF CallFails, RunTypeOK
  <2> QED BY <1>7, <1>a, <2>2 DEF CallFails
<1>8. CASE Parse
  <2>1. WorkTypeOK'
    BY <1>8, <1>a DEF Parse
  <2>2. CASE event \in Malformed
    <3>1. faults' \in 0..MaxFaults
      BY <1>0, <1>8 DEF Parse, RunTypeOK
    <3> QED BY <1>0, <1>8, <2>1, <2>2, <3>1, FailingTypes DEF Parse, RunTypeOK
  <2>3. CASE event \notin Malformed
    BY <1>0, <1>8, <2>1, <2>3 DEF Parse, RunTypeOK, RetriesLeft
  <2> QED BY <2>2, <2>3
<1>9. ASSUME NEW found \in Seq(Result), Conclude(found), event \in Events,
             UNCHANGED <<stopping, faults, crashes>>,
             suppressed' \subseteq Keys \X Events
      PROVE  WorkTypeOK' /\ RunTypeOK' /\ RetriesLeft'
  <2>1. WorkTypeOK' /\ UNCHANGED slow
        /\ (AttemptFails \/ (phase' = "looping" /\ DropInHand))
    BY <1>0, <1>9, ConcludedFacts
  <2>2. CASE AttemptFails
    <3>1. CASE attempt < MaxAttempts
      BY <1>0, <1>9, <1>b, <2>1, <2>2, <3>1 DEF RunTypeOK, AttemptFails, RetriesLeft
    <3>2. CASE ~(attempt < MaxAttempts)
      BY <1>0, <1>9, <1>b, <2>1, <2>2, <3>2
      DEF RunTypeOK, AttemptFails, RetriesLeft, DropInHand
    <3> QED BY <3>1, <3>2
  <2>3. CASE phase' = "looping" /\ DropInHand
    BY <1>0, <1>9, <1>b, <2>1, <2>3 DEF RunTypeOK, RetriesLeft, DropInHand
  <2> QED BY <2>1, <2>2, <2>3
<1>d. ASSUME event \in Events,
             suppressed' = suppressed \cup (Range(RulesOf[event]) \X {event})
      PROVE  suppressed' \subseteq Keys \X Events
  <2>1. Range(RulesOf[event]) \subseteq Keys
    <3>1. RulesOf[event] \in Seq(Keys)
      BY <1>d, EventAssumption
    <3> QED BY <3>1 DEF Range
  <2> QED BY <1>0, <1>d, <2>1 DEF RunTypeOK
<1>17. CASE DetectionRaises
  <2>1. event \in Events
    BY <1>0, <1>17, EventInHand DEF DetectionRaises, Attempting
  <2>2. faults' \in 0..MaxFaults /\ suppressed' \subseteq Keys \X Events
    BY <1>0, <1>17, <1>d, <2>1, LimitAssumption DEF DetectionRaises, Fault, RunTypeOK
  <2>3. RunTypeOK' /\ RetriesLeft'
    BY <1>0, <1>17, <2>2, FailingTypes DEF DetectionRaises
  <2> QED BY <1>17, <1>a, <2>3 DEF DetectionRaises
<1>10. CASE PublishAndDetect
  <2>1. event \in Events /\ phase = "publishing"
    BY <1>0, <1>10, EventInHand DEF PublishAndDetect, Attempting
  <2>2. suppressed' \subseteq Keys \X Events
    BY <1>10, <1>d, <2>1 DEF PublishAndDetect
  <2>3. UNCHANGED <<stopping, faults, crashes>>
    BY <1>10 DEF PublishAndDetect
  <2>4. CASE Conclude(<<>>)
    <3>1. <<>> \in Seq(Result)
      OBVIOUS
    <3> QED BY <1>9, <2>1, <2>2, <2>3, <2>4, <3>1
  <2>5. CASE ~Conclude(<<>>)
    <3> DEFINE detected == RuleResults \o PluginResults
    <3>1. /\ results' = [found |-> detected, saved |-> 0]
          /\ phase' = "persisting"
          /\ UNCHANGED <<event, attempt, alerts, window, deadLetters, history>>
      BY <1>10, <2>5 DEF PublishAndDetect
    <3>2. detected \in Seq(Result)
      BY <2>1, FoundFacts
    <3> HIDE DEF detected
    <3>3. results' \in [found: Seq(Result), saved: Nat]
      BY <3>1, <3>2
    <3>4. WorkTypeOK'
      BY <1>a, <3>1 DEF history
    <3> QED BY <1>0, <2>2, <2>3, <3>1, <3>3, <3>4 DEF history, RunTypeOK, RetriesLeft
  <2> QED BY <2>4, <2>5
<1>11. CASE PersistResult
  <2>1. event \in Events /\ phase = "persisting"
    BY <1>0, <1>11, EventInHand DEF PersistResult, Attempting, Holding
  <2>2. results.found \in Seq(Result) /\ results.saved + 1 \in Nat
    BY <1>0 DEF RunTypeOK
  <2>3. UNCHANGED <<suppressed, stopping, faults, crashes>>
    BY <1>11 DEF PersistResult
  <2>4. CASE Conclude(results.found)
    <3>1. suppressed' \subseteq Keys \X Events
      BY <1>0, <2>3 DEF RunTypeOK
    <3> QED BY <1>9, <2>1, <2>2, <2>3, <2>4, <3>1
  <2>5. CASE ~Conclude(results.found)
    <3>1. /\ results' = [results EXCEPT !.saved = results.saved + 1]
          /\ UNCHANGED <<phase, event, attempt, alerts, window, deadLetters, history>>
      BY <1>11, <2>5 DEF PersistResult
    <3>2. results' \in [found: Seq(Result), saved: Nat]
      BY <1>0, <2>2, <3>1 DEF RunTypeOK
    <3>3. WorkTypeOK'
      BY <1>a, <3>1 DEF history
    <3> QED BY <1>0, <2>3, <3>1, <3>2, <3>3 DEF history, RunTypeOK, RetriesLeft
  <2> QED BY <2>4, <2>5
<1>c. LoseMemory /\ UNCHANGED history => WorkTypeOK' /\ suppressed' = {}
                                        /\ attempt' = 0 /\ results' = NoResults
  <2> SUFFICES ASSUME LoseMemory, UNCHANGED history
               PROVE  WorkTypeOK' /\ suppressed' = {}
                      /\ attempt' = 0 /\ results' = NoResults
    OBVIOUS
  <2>1. <<>> \in Seq(Evidence) /\ Len(<<>>) < Threshold
    BY LimitAssumption
  <2> QED BY <1>0, <2>1 DEF LoseMemory, DropInHand, history, WorkTypeOK
<1>12. CASE LoopTurns
  <2>1. CASE stopping
    BY <1>0, <1>12, <1>b, <1>c, <2>1
    DEF LoopTurns, history, RunTypeOK, RetriesLeft
  <2>2. CASE ~stopping
    BY <1>0, <1>12, <2>2
    DEF LoopTurns, memory, history, WorkTypeOK, RunTypeOK, RetriesLeft
  <2> QED BY <2>1, <2>2
<1>13. ASSUME NEW k \in Keys, EntryExpires(k)
       PROVE  WorkTypeOK' /\ RunTypeOK' /\ RetriesLeft'
  <2>1. slow' \subseteq Events /\ suppressed' \subseteq Keys \X Events
    BY <1>0, <1>13 DEF EntryExpires, RunTypeOK
  <2> QED
    BY <1>0, <1>13, <2>1 DEF EntryExpires, WorkTypeOK, RunTypeOK, RetriesLeft
<1>14. CASE RequestStop
  BY <1>0, <1>14 DEF RequestStop, memory, history, WorkTypeOK, RunTypeOK, RetriesLeft
<1>15. CASE Crash
  <2>1. crashes' \in 0..MaxCrashes
    BY <1>0, <1>15, LimitAssumption DEF Crash, RunTypeOK
  <2> QED
    BY <1>0, <1>15, <1>b, <1>c, <2>1 DEF Crash, history, RunTypeOK, RetriesLeft
<1>16. CASE Restart
  BY <1>0, <1>16 DEF Restart, memory, history, WorkTypeOK, RunTypeOK, RetriesLeft
<1> QED
  BY <1>1, <1>2, <1>3, <1>4, <1>5, <1>6, <1>7, <1>8, <1>10, <1>11, <1>12, <1>13,
     <1>14, <1>15, <1>16, <1>17 DEF Next, Step

LEMMA WorkerInit ==
  ASSUME Init
  PROVE  WorkerInv
<1>1. WorkTypeOK
  BY LimitAssumption DEF Init, WorkTypeOK
<1>2. RunTypeOK /\ RetriesLeft
  <2>1. /\ NoResults \in [found: Seq(Result), saved: Nat] /\ 0 \in 0..MaxAttempts
        /\ 0 \in 0..MaxFaults /\ 0 \in 0..MaxCrashes
    BY LimitAssumption DEF NoResults
  <2> QED BY <2>1 DEF Init, RunTypeOK, RetriesLeft
<1> QED BY <1>1, <1>2, PlacesInit DEF WorkerInv

\* The worker keeps its types: no event is attempted more often than
\* max_attempts, and no correlation window reaches the threshold it is open for.
THEOREM TypeCorrect == Spec => []TypeOK
<1>1. WorkerInv => TypeOK
  BY DEF WorkerInv, PlacesInv, PlacesTypeOK, WorkTypeOK, RunTypeOK, TypeOK
<1> QED BY <1>1, WorkerInit, WorkerStep, PTL DEF Spec

-----------------------------------------------------------------------------
(* The suppression guard makes rule results safe to retry *)

\* Rules the event matches under whose id no plugin reports.
RuleOnly(e) == Range(RulesOf[e]) \ Range(PluginsOf[e])

\* An event that is still to come has counted under none of its rules.
ToCome ==
  \A e \in Events : \A k \in RuleOnly(e) :
    e \in unsent \/ InQueue(e) => counted[k][e] = 0

\* One that has counted while its entries last has its entry as long as it is
\* in hand, so that no later attempt counts it.
CountedGuarded ==
  \A e \in Events \ slow : \A k \in RuleOnly(e) :
    /\ counted[k][e] <= 1
    /\ event = e /\ counted[k][e] = 1 => <<k, e>> \in suppressed

\* The results that wait to be persisted have each rule once, and suppressed if
\* its event has counted.
FoundGuarded ==
  phase = "persisting" =>
    \A k \in RuleOnly(event) :
      /\ OneAtMost(results.found, k)
      /\ event \notin slow =>
           /\ <<k, event>> \in suppressed
           /\ counted[k][event] = 1 =>
                \A m \in DOMAIN results.found :
                  results.found[m].key = k => results.found[m].suppressed

CountInv == WorkerInv /\ ToCome /\ CountedGuarded /\ FoundGuarded

\* The rules of an event have keys, none of them that of the correlation.
LEMMA RuleKeys ==
  ASSUME NEW e \in Events
  PROVE  RuleOnly(e) \subseteq Keys \ {CorrelationKey}
<1>1. RulesOf[e] \in Seq(Keys)
  BY EventAssumption
<1>2. Range(RulesOf[e]) \subseteq Keys
  BY <1>1 DEF Range
<1> QED BY <1>2, KeyAssumption DEF RuleOnly

\* A step that counts nothing and moves nothing into the hand keeps the
\* invariant, when entries stay, or the hand is empty afterwards.
LEMMA NothingCounted ==
  ASSUME CountInv, UNCHANGED <<unsent, queue, counted, slow>>,
         event' = NoEvent \/ (event' = event /\ suppressed \subseteq suppressed'),
         phase' = "persisting" => UNCHANGED <<phase, event, results>>
  PROVE  ToCome' /\ CountedGuarded' /\ FoundGuarded'
<1>1. ToCome'
  BY DEF CountInv, ToCome, InQueue
<1>2. CountedGuarded'
  BY EventAssumption DEF CountInv, CountedGuarded
<1>3. FoundGuarded'
  <2>1. SUFFICES ASSUME phase' = "persisting" PROVE FoundGuarded'
    BY DEF FoundGuarded
  <2>2. UNCHANGED <<phase, event, results>> /\ event \in Events
    BY <2>1, EventInHand DEF CountInv, WorkerInv, Attempting, Holding
  <2>3. suppressed \subseteq suppressed'
    BY <2>2, EventAssumption
  <2> QED BY <2>2, <2>3 DEF CountInv, FoundGuarded
<1> QED BY <1>1, <1>2, <1>3

\* The end of an attempt keeps the invariant, when its results have each rule
\* once, and suppressed if its event has counted.
LEMMA ConcludingCounts ==
  ASSUME CountInv, event \in Events, NEW found \in Seq(Result), Conclude(found),
         UNCHANGED <<unsent, queue>>, suppressed \subseteq suppressed',
         \A k \in RuleOnly(event) :
           /\ OneAtMost(found, k)
           /\ event \notin slow =>
                /\ counted[k][event] = 1 =>
                     \A m \in DOMAIN found : found[m].key = k => found[m].suppressed
                /\ \/ <<k, event>> \in suppressed'
                   \/ \A m \in DOMAIN found : found[m].key = k => found[m].suppressed
  PROVE  ToCome' /\ CountedGuarded' /\ FoundGuarded'
<1>1. /\ \A k \in Keys \ {CorrelationKey}, e \in Events :
           /\ e # event => counted'[k][e] = counted[k][e]
           /\ (\A m \in DOMAIN found : found[m].key = k => found[m].suppressed) =>
                counted'[k][e] = counted[k][e]
           /\ OneAtMost(found, k) => counted'[k][e] <= counted[k][e] + 1
      /\ UNCHANGED slow /\ WorkTypeOK'
      /\ AttemptFails \/ (phase' = "looping" /\ DropInHand)
  BY ConcludedFacts DEF CountInv, WorkerInv
<1>2. phase' \in {"retrying", "looping"} /\ event' \in {event, NoEvent}
  BY <1>1 DEF AttemptFails, DropInHand
<1>3. NoEvent \notin Events /\ event \notin unsent /\ ~InQueue(event)
  BY EventAssumption
  DEF CountInv, WorkerInv, PlacesInv, UnsentApart, QueuedApart
<1>4. ToCome'
  BY <1>1, <1>3, RuleKeys DEF CountInv, ToCome, InQueue
<1>5. CountedGuarded'
  <2> SUFFICES ASSUME NEW e \in Events \ slow, NEW k \in RuleOnly(e)
               PROVE  /\ counted'[k][e] <= 1
                      /\ event' = e /\ counted'[k][e] = 1 => <<k, e>> \in suppressed'
    BY <1>1 DEF CountedGuarded
  <2>1. k \in Keys \ {CorrelationKey}
    BY RuleKeys
  <2>2. /\ counted[k][e] <= 1
        /\ event = e /\ counted[k][e] = 1 => <<k, e>> \in suppressed
        /\ counted[k][e] \in Nat /\ counted'[k][e] \in Nat
    BY <1>1, <2>1 DEF CountInv, WorkerInv, WorkTypeOK, CountedGuarded
  <2>3. CASE e # event
    BY <1>1, <1>2, <1>3, <2>1, <2>2, <2>3
  <2>4. CASE e = event
    <3>1. CASE counted[k][e] = 1
      BY <1>1, <2>1, <2>2, <2>4, <3>1
    <3>2. CASE counted[k][e] = 0
      BY <1>1, <2>1, <2>2, <2>4, <3>2
    <3> QED BY <2>2, <3>1, <3>2
  <2> QED BY <2>3, <2>4
<1>6. FoundGuarded'
  BY <1>2 DEF FoundGuarded
<1> QED BY <1>4, <1>5, <1>6

\* Every step keeps the invariant.
LEMMA CountStep ==
  ASSUME CountInv, [Next]_vars
  PROVE  CountInv'
<1>0. WorkerInv /\ WorkerInv' /\ PlacesInv
  BY WorkerStep DEF CountInv, WorkerInv
<1> SUFFICES ToCome' /\ CountedGuarded' /\ FoundGuarded'
  BY <1>0 DEF CountInv
<1>1. CASE UNCHANGED vars
  BY <1>1, NothingCounted DEF vars, memory, history
<1>2. ASSUME NEW e \in Events, Enqueue(e)
      PROVE  ToCome' /\ CountedGuarded' /\ FoundGuarded'
  <2>1. /\ e \in unsent /\ unsent' = unsent \ {e} /\ queue' = Append(queue, e)
        /\ queue \in Seq(Events)
        /\ UNCHANGED <<phase, event, results, suppressed, slow, counted>>
    BY <1>0, <1>2 DEF Enqueue, memory, history, PlacesInv, PlacesTypeOK
  <2>2. \A x : InQueue(x)' => InQueue(x) \/ x = e
    <3>1. /\ DOMAIN queue' = 1..(Len(queue) + 1) /\ DOMAIN queue = 1..Len(queue)
          /\ Len(queue) \in Nat /\ queue'[Len(queue) + 1] = e
          /\ \A i \in 1..Len(queue) : queue'[i] = queue[i]
      BY <2>1
    <3> QED BY <3>1 DEF InQueue, Range
  <2>3. ToCome'
    BY <2>1, <2>2 DEF CountInv, ToCome
  <2>4. CountedGuarded' /\ FoundGuarded'
    BY <2>1 DEF CountInv, CountedGuarded, FoundGuarded
  <2> QED BY <2>3, <2>4
<1>3. CASE Take
  <2>1. /\ queue # <<>> /\ event' = Head(queue) /\ queue' = Tail(queue)
        /\ phase' = "taken" /\ queue \in Seq(Events)
        /\ UNCHANGED <<unsent, suppressed, slow, counted>>
    BY <1>0, <1>3 DEF Take, memory, history, PlacesInv, PlacesTypeOK
  <2>2. event' \in Events /\ InQueue(event')
    <3>1. Len(queue) \in Nat \ {0} /\ DOMAIN queue = 1..Len(queue) /\ event' = queue[1]
          /\ event' \in Events
      BY <2>1
    <3> QED BY <3>1 DEF InQueue, Range
  <2>3. \A x : InQueue(x)' => InQueue(x)
    <3>1. /\ Len(queue) \in Nat /\ DOMAIN queue = 1..Len(queue)
          /\ DOMAIN queue' = 1..(Len(queue) - 1)
          /\ \A i \in 1..(Len(queue) - 1) : queue'[i] = queue[i + 1]
      BY <2>1
    <3>2. \A i \in 1..(Len(queue) - 1) : i + 1 \in 1..Len(queue)
      BY <3>1
    <3> QED BY <3>1, <3>2 DEF InQueue, Range
  <2>4. ToCome'
    BY <2>1, <2>3 DEF CountInv, ToCome
  <2>5. CountedGuarded'
    <3>1. \A k \in RuleOnly(event') : counted'[k][event'] = 0
      BY <2>1, <2>2 DEF CountInv, ToCome
    <3>2. \A e \in Events \ slow : \A k \in RuleOnly(e) : counted'[k][e] <= 1
      BY <2>1 DEF CountInv, CountedGuarded
    <3> QED BY <2>1, <3>1, <3>2 DEF CountedGuarded
  <2>6. FoundGuarded'
    BY <2>1 DEF FoundGuarded
  <2> QED BY <2>4, <2>5, <2>6
<1>4. CASE GetReturns \/ GetFails \/ BackoffEnds \/ Retry \/ SaveEvent
  <2>1. /\ UNCHANGED <<unsent, queue, counted, slow, suppressed>>
        /\ event' \in {event, NoEvent} /\ phase' # "persisting"
    BY <1>4
    DEF GetReturns, GetFails, BackoffEnds, Retry, SaveEvent, memory, history
  <2> QED BY <2>1, NothingCounted
<1>5. AttemptFails => phase' # "persisting" /\ event' \in {event, NoEvent}
  BY DEF AttemptFails, DropInHand
<1>6. CASE CallFails \/ DetectionRaises \/ Parse
  <2>1. /\ UNCHANGED <<unsent, queue, counted, slow>> /\ suppressed \subseteq suppressed'
        /\ phase' # "persisting" /\ event' \in {event, NoEvent}
    BY <1>5, <1>6 DEF CallFails, DetectionRaises, Parse
  <2> QED BY <2>1, NothingCounted
<1>7. CASE PublishAndDetect
  <2>1. /\ event \in Events /\ UNCHANGED <<unsent, queue>>
        /\ suppressed' = suppressed \cup (Range(RulesOf[event]) \X {event})
    BY <1>0, <1>7, EventInHand DEF PublishAndDetect, Attempting, Holding
  <2>2. \A k \in RuleOnly(event) : <<k, event>> \in suppressed'
    BY <2>1 DEF RuleOnly
  <2>3. CASE Conclude(<<>>)
    <3> DEFINE none == <<>>
    <3>1. none \in Seq(Result) /\ DOMAIN none = {} /\ Conclude(none)
      BY <2>3
    <3>2. \A k : OneAtMost(none, k)
      BY <3>1 DEF OneAtMost
    <3> HIDE DEF none
    <3> QED BY <2>1, <2>2, <3>1, <3>2, ConcludingCounts
  <2>4. CASE ~Conclude(<<>>)
    <3> DEFINE found == RuleResults \o PluginResults
    <3>1. /\ results' = [found |-> found, saved |-> 0] /\ phase' = "persisting"
          /\ UNCHANGED <<event, counted, slow>>
      BY <1>7, <2>4 DEF PublishAndDetect, history
    <3>2. \A k \in RuleOnly(event) :
            /\ OneAtMost(found, k)
            /\ <<k, event>> \in suppressed =>
                 \A m \in DOMAIN found : found[m].key = k => found[m].suppressed
      BY <2>1, FoundFacts DEF RuleOnly
    <3> HIDE DEF found
    <3>3. results'.found = found
      BY <3>1
    <3>4. FoundGuarded'
      BY <2>1, <2>2, <3>1, <3>2, <3>3 DEF CountInv, CountedGuarded, FoundGuarded
    <3>5. ToCome' /\ CountedGuarded'
      BY <2>1, <3>1 DEF CountInv, ToCome, CountedGuarded, InQueue
    <3> QED BY <3>4, <3>5
  <2> QED BY <2>3, <2>4
<1>8. CASE PersistResult
  <2>1. /\ event \in Events /\ phase = "persisting"
        /\ UNCHANGED <<unsent, queue, suppressed>>
    BY <1>0, <1>8, EventInHand DEF PersistResult, Attempting, Holding
  <2>2. CASE Conclude(results.found)
    <3>1. results.found \in Seq(Result)
      BY <1>0 DEF WorkerInv, RunTypeOK
    <3>2. \A k \in RuleOnly(event) :
            /\ OneAtMost(results.found, k)
            /\ event \notin slow =>
                 /\ <<k, event>> \in suppressed'
                 /\ counted[k][event] = 1 =>
                      \A m \in DOMAIN results.found :
                        results.found[m].key = k => results.found[m].suppressed
      BY <2>1 DEF CountInv, FoundGuarded
    <3> QED BY <2>1, <2>2, <3>1, <3>2, ConcludingCounts
  <2>3. CASE ~Conclude(results.found)
    <3>1. /\ results' = [results EXCEPT !.saved = results.saved + 1]
          /\ UNCHANGED <<phase, event, counted, slow>>
      BY <1>8, <2>3 DEF PersistResult, history
    <3>2. results'.found = results.found
      BY <1>0, <3>1 DEF WorkerInv, RunTypeOK
    <3>3. FoundGuarded'
      BY <2>1, <3>1, <3>2 DEF CountInv, FoundGuarded
    <3>4. ToCome' /\ CountedGuarded'
      BY <2>1, <3>1 DEF CountInv, ToCome, CountedGuarded, InQueue
    <3> QED BY <3>3, <3>4
  <2> QED BY <2>2, <2>3
<1>9. CASE LoopTurns
  <2>1. /\ UNCHANGED <<unsent, queue, counted, slow>> /\ phase' # "persisting"
        /\ event' = NoEvent \/ UNCHANGED <<event, suppressed>>
    BY <1>9 DEF LoopTurns, LoseMemory, DropInHand, memory, history
  <2> QED BY <2>1, NothingCounted
<1>10. ASSUME NEW k \in Keys, EntryExpires(k)
       PROVE  ToCome' /\ CountedGuarded' /\ FoundGuarded'
  <2>1. /\ slow' = slow \cup {event}
        /\ UNCHANGED <<unsent, queue, phase, event, results, counted>>
    BY <1>10 DEF EntryExpires
  <2>2. ToCome'
    BY <2>1 DEF CountInv, ToCome, InQueue
  <2>3. CountedGuarded' /\ FoundGuarded'
    BY <2>1 DEF CountInv, CountedGuarded, FoundGuarded
  <2> QED BY <2>2, <2>3
<1>11. CASE RequestStop
  BY <1>11, NothingCounted DEF RequestStop, memory, history
<1>12. CASE Crash \/ Restart
  <2>1. /\ UNCHANGED <<unsent, queue, counted, slow>> /\ phase' # "persisting"
        /\ event' = NoEvent \/ UNCHANGED <<event, suppressed>>
    BY <1>12 DEF Crash, Restart, LoseMemory, DropInHand, memory, history
  <2> QED BY <2>1, NothingCounted
<1> QED
  BY <1>1, <1>2, <1>3, <1>4, <1>6, <1>7, <1>8, <1>9, <1>10, <1>11, <1>12
  DEF Next, Step

LEMMA CountInit ==
  ASSUME Init
  PROVE  CountInv
<1>1. \A e \in Events : \A k \in RuleOnly(e) : counted[k][e] = 0
  BY RuleKeys DEF Init
<1>2. ToCome /\ CountedGuarded /\ FoundGuarded
  BY <1>1 DEF ToCome, CountedGuarded, FoundGuarded, Init
<1> QED BY <1>2, WorkerInit DEF CountInv

\* Whatever fails after detection, and however often, an event counts once in
\* the alert of a rule as long as its suppression entries outlast its attempts.
THEOREM RulesCountOnce == Spec => []RuleCountedOnce
<1>1. CountInv => RuleCountedOnce
  BY DEF CountInv, CountedGuarded, RuleCountedOnce, RuleOnly
<1> QED BY <1>1, CountInit, CountStep, PTL DEF Spec
=============================================================================
