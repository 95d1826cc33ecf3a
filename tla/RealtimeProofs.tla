--------------------------- MODULE RealtimeProofs ---------------------------
(***************************************************************************)
(* Proofs about Realtime, for any number of connections, channels and      *)
(* messages.  The limit rests on the lock: at most one connection is being *)
(* accepted, and it alone can add to the registered ones.  What a          *)
(* connection is sent rests on the noted recipients: they were registered, *)
(* with channels their permissions allowed, and a connection that is       *)
(* accepted later is none of them.                                         *)
(***************************************************************************)
EXTENDS Realtime, FiniteSetTheorems, TLAPS

\* The lock is held by the connection that is being accepted or refused.
LockHeld ==
  \A c \in Connections : handler[c] \in {"accepting", "refusing"} <=> lock = c

\* A connection has permissions while it is registered, its channels are among
\* them, and as long as it is alive they were granted to it.
ChannelsAllowed ==
  \A c \in Connections :
    /\ c \notin registered => permissions[c] = {}
    /\ channels[c] \subseteq permissions[c]
    /\ c \in alive => permissions[c] \subseteq granted[c]

\* The recipients had been accepted, and those that are alive may have the
\* message.
TargetsAllowed ==
  \A c \in targets :
    /\ handler[c] \notin {"none", "accepting"}
    /\ c \in alive => current.channel \in granted[c]

\* Messages wait in the order they were published, behind the current one.
InboxOrdered ==
  /\ \A i \in DOMAIN inbox : inbox[i].id <= published
  /\ \A i, j \in DOMAIN inbox : i < j => inbox[i].id < inbox[j].id
  /\ current # None =>
       /\ current.id <= published
       /\ \A i \in DOMAIN inbox : current.id < inbox[i].id

\* What was sent is older than what waits, and older than the current message
\* where that is still to be sent.
ReceivedOlder ==
  \A c \in Connections : \A k \in DOMAIN received[c] :
    /\ received[c][k].id <= published
    /\ \A i \in DOMAIN inbox : received[c][k].id < inbox[i].id
    /\ current # None => received[c][k].id <= current.id
    /\ c \in targets => received[c][k].id < current.id

\* Only those alive are owed a message.
DueAlive == \A c \in Connections : c \notin alive => due[c] = {}

RealtimeInv ==
  /\ TypeOK
  /\ LockHeld
  /\ WithinLimit
  /\ ChannelsAllowed
  /\ TargetsAllowed
  /\ StreamPermitted
  /\ InboxOrdered
  /\ ReceivedOlder
  /\ DueAlive
  /\ StreamComplete

-----------------------------------------------------------------------------
(* Types *)

\* Every step keeps the types.
LEMMA TypeStep ==
  ASSUME TypeOK, [Next]_vars
  PROVE  TypeOK'
<1> USE ConnectionsAssumption, LimitAssumption, GrantsAssumption DEF TypeOK
<1> DEFINE Phases == {"none", "accepting", "open", "authenticating", "refusing",
                      "closing", "gone"}
<1>a. \A c \in Connections : \A s \in Phases :
        [handler EXCEPT ![c] = s] \in [Connections -> Phases]
  OBVIOUS
<1>b. ASSUME NEW c \in Connections, EndHistory(c)
      PROVE  /\ received' \in [Connections -> Seq(Message)]
             /\ due' \in [Connections -> SUBSET Message]
             /\ granted' \in [Connections -> SUBSET Channels]
  BY <1>b DEF EndHistory
<1>1. CASE UNCHANGED vars
  BY <1>1 DEF vars, bridgeVars, handlerVars, managerVars, history
<1>2. ASSUME NEW channel \in Channels \cup {NoChannel}, PublishToRedis(channel)
      PROVE  TypeOK'
  <2>1. [id |-> published', channel |-> channel] \in Message
    BY <1>2 DEF PublishToRedis, Message
  <2>2. inbox' \in Seq(Message) /\ published' \in 0..MaxMessages
    BY <1>2, <2>1 DEF PublishToRedis
  <2> QED
    BY <1>2, <2>2 DEF PublishToRedis, handlerVars, managerVars, history
<1>3. CASE Subscribed
  BY <1>3 DEF Subscribed, handlerVars, managerVars, history
<1>4. CASE BridgeFails
  BY <1>4 DEF BridgeFails, handlerVars, managerVars, history
<1>5. CASE StopBridge
  BY <1>5 DEF StopBridge, handlerVars, managerVars, history
<1>6. CASE Forward
  <2>1. Head(inbox) \in Message /\ inbox' \in Seq(Message)
    BY <1>6 DEF Forward
  <2>2. current' \in Message \cup {None} /\ targets' \subseteq Connections
        /\ due' \in [Connections -> SUBSET Message]
        /\ (current' = None => targets' = {} /\ stale' = {})
    <3>1. CASE Head(inbox).channel = NoChannel
      BY <1>6, <3>1 DEF Forward
    <3>2. CASE Head(inbox).channel # NoChannel
      <4>1. current' = Head(inbox) /\ targets' \subseteq registered
            /\ due' = [c \in Connections |->
                 due[c] \cup IF c \in targets' \cap alive THEN {Head(inbox)} ELSE {}]
        BY <1>6, <3>2 DEF Forward, Subscribers
      <4> QED BY <2>1, <4>1, MessageAssumption
    <3> QED BY <3>1, <3>2
  <2> QED
    BY <1>6, <2>1, <2>2 DEF Forward, handlerVars, managerVars
<1>7. CASE PublishReturns
  BY <1>7 DEF PublishReturns, handlerVars, managerVars, history
<1>8. ASSUME NEW c \in Connections, SendTo(c)
      PROVE  TypeOK'
  <2>1. current \in Message
    BY <1>8 DEF SendTo, CanSendTo
  <2>2. received' \in [Connections -> Seq(Message)]
    BY <1>8, <2>1 DEF SendTo, CanSendTo
  <2> QED
    BY <1>8, <2>1, <2>2, MessageAssumption DEF SendTo, CanSendTo, handlerVars, managerVars
<1>9. ASSUME NEW c \in Connections, DropStale(c)
      PROVE  TypeOK'
  BY <1>9 DEF DropStale, Forget, handlerVars, history
<1>10. ASSUME NEW c \in Connections, Connect(c)
       PROVE  TypeOK'
  <2>1. /\ \E s \in Phases : handler' = [handler EXCEPT ![c] = s]
        /\ lock' \in Connections \cup {None}
        /\ UNCHANGED <<alive, stalled, authenticated, bridgeVars, registered,
                       permissions, channels, history>>
    BY <1>10 DEF Connect
  <2>2. handler' \in [Connections -> Phases]
    BY <2>1, <1>a
  <2> QED BY <2>1, <2>2 DEF bridgeVars, history
<1>11. ASSUME NEW c \in Connections, NEW accepts \in BOOLEAN, Accepted(c, accepts)
       PROVE  TypeOK'
  BY <1>11 DEF Accepted, bridgeVars, history
<1>12. ASSUME NEW c \in Connections, Authenticate(c)
       PROVE  TypeOK'
  BY <1>12 DEF Authenticate, bridgeVars, managerVars, history
<1>13. ASSUME NEW c \in Connections, NEW allowed \in Grants,
              AuthenticationSucceeds(c, allowed)
       PROVE  TypeOK'
  <2>1. CASE c \in registered
    <3>1. allowed \in SUBSET Channels
      BY GrantsAssumption
    <3>2. granted' \in [Connections -> SUBSET Channels]
      BY <1>13, <2>1, <3>1 DEF AuthenticationSucceeds
    <3>3. /\ permissions' \in [Connections -> SUBSET Channels]
          /\ channels' \in [Connections -> SUBSET Channels]
      BY <1>13, <2>1, <3>1 DEF AuthenticationSucceeds
    <3>4. handler' \in [Connections -> Phases] /\ authenticated' \subseteq Connections
      <4>1. /\ handler' = [handler EXCEPT ![c] = "open"]
            /\ authenticated' = authenticated \cup {c}
        BY <1>13, <2>1 DEF AuthenticationSucceeds
      <4> QED BY <4>1, <1>a
    <3>5. UNCHANGED <<alive, stalled, bridgeVars, registered, lock, received, due>>
      BY <1>13 DEF AuthenticationSucceeds
    <3> QED BY <3>2, <3>3, <3>4, <3>5 DEF bridgeVars
  <2>2. CASE c \notin registered
    <3>1. /\ handler' = [handler EXCEPT ![c] = "closing"]
          /\ UNCHANGED <<authenticated, permissions, channels, granted>>
          /\ UNCHANGED <<alive, stalled, bridgeVars, registered, lock, received, due>>
      BY <1>13, <2>2 DEF AuthenticationSucceeds
    <3>2. handler' \in [Connections -> Phases]
      BY <3>1, <1>a
    <3> QED BY <3>1, <3>2 DEF bridgeVars
  <2> QED BY <2>1, <2>2
<1>14. ASSUME NEW c \in Connections, AuthenticationRefused(c)
       PROVE  TypeOK'
  <2>1. /\ handler' = [handler EXCEPT ![c] = "closing"]
        /\ alive' = alive \ {c} /\ stalled' = stalled \ {c}
        /\ UNCHANGED <<authenticated, bridgeVars, managerVars>>
        /\ EndHistory(c)
    BY <1>14 DEF AuthenticationRefused
  <2>2. handler' \in [Connections -> Phases]
    BY <2>1, <1>a
  <2> QED BY <2>1, <2>2, <1>b DEF bridgeVars, managerVars
<1>15. ASSUME NEW c \in Connections, NEW wanted \in SUBSET Channels,
              Subscribe(c, wanted)
       PROVE  TypeOK'
  <2>1. /\ channels' = [channels EXCEPT ![c] = wanted] \/ channels' = channels
        /\ UNCHANGED <<alive, stalled, authenticated, bridgeVars, registered,
                       permissions, lock, history>>
    BY <1>15 DEF Subscribe
  <2>2. /\ \/ handler' = handler
           \/ \E s \in Phases : handler' = [handler EXCEPT ![c] = s]
    BY <1>15 DEF Subscribe
  <2>3. handler' \in [Connections -> Phases]
    BY <2>2, <1>a
  <2> QED BY <2>1, <2>3 DEF bridgeVars, history
<1>16. ASSUME NEW c \in Connections, PeerLeaves(c)
       PROVE  TypeOK'
  <2>1. /\ alive' = alive \ {c} /\ stalled' = stalled \ {c}
        /\ UNCHANGED <<handler, authenticated, bridgeVars, managerVars>>
        /\ EndHistory(c)
    BY <1>16 DEF PeerLeaves
  <2> QED BY <2>1, <1>b DEF bridgeVars, managerVars
<1>17. ASSUME NEW c \in Connections, HandlerEnds(c)
       PROVE  TypeOK'
  BY <1>17 DEF HandlerEnds, bridgeVars, managerVars, history
<1>18. ASSUME NEW c \in Connections, Disconnect(c)
       PROVE  TypeOK'
  <2>1. /\ \E s \in Phases : handler' = [handler EXCEPT ![c] = s]
        /\ alive' = alive \ {c} /\ registered' = registered \ {c}
        /\ stalled' = stalled \ {c}
        /\ authenticated' = authenticated \ {c}
        /\ permissions' = [permissions EXCEPT ![c] = {}]
        /\ channels' = [channels EXCEPT ![c] = {}]
        /\ UNCHANGED <<bridgeVars, lock>> /\ EndHistory(c)
    BY <1>18 DEF Disconnect, Forget
  <2>2. handler' \in [Connections -> Phases]
    BY <2>1, <1>a
  <2> HIDE DEF Phases
  <2>3. /\ received' \in [Connections -> Seq(Message)]
        /\ due' \in [Connections -> SUBSET Message]
        /\ granted' \in [Connections -> SUBSET Channels]
    BY <2>1, <1>b
  <2>4. /\ permissions' \in [Connections -> SUBSET Channels]
        /\ channels' \in [Connections -> SUBSET Channels]
        /\ alive' \subseteq Connections /\ registered' \subseteq Connections
        /\ stalled' \subseteq alive'
        /\ authenticated' \subseteq Connections
    BY <2>1
  <2> QED BY <2>1, <2>2, <2>3, <2>4 DEF bridgeVars, Phases
<1>19. ASSUME NEW c \in Connections, Refused(c)
       PROVE  TypeOK'
  BY <1>19 DEF Refused, bridgeVars, history
<1>20. ASSUME NEW c \in Connections, PeerStalls(c) \/ PeerReads(c)
       PROVE  TypeOK'
  BY <1>20 DEF PeerStalls, PeerReads, bridgeVars, managerVars, history
<1> HIDE DEF TypeOK
<1> QED
  BY <1>1, <1>2, <1>3, <1>4, <1>5, <1>6, <1>7, <1>8, <1>9, <1>10, <1>11, <1>12,
     <1>13, <1>14, <1>15, <1>16, <1>17, <1>18, <1>19, <1>20 DEF Next

-----------------------------------------------------------------------------
(* The limit *)

\* Nothing but connect and the end of an accept touches the lock.
LEMMA LockStep ==
  ASSUME TypeOK, LockHeld, [Next]_vars
  PROVE  LockHeld'
<1> USE ConnectionsAssumption DEF TypeOK, LockHeld
<1>1. CASE UNCHANGED <<handler, lock>>
  BY <1>1
<1>2. ASSUME NEW c \in Connections, Connect(c)
      PROVE  LockHeld'
  BY <1>2 DEF Connect
<1>3. ASSUME NEW c \in Connections, NEW accepts \in BOOLEAN, Accepted(c, accepts)
      PROVE  LockHeld'
  BY <1>3 DEF Accepted
<1>4. ASSUME NEW c \in Connections, handler[c] \notin {"accepting", "refusing"},
             UNCHANGED lock, NEW h, h \notin {"accepting", "refusing"},
             handler' = [handler EXCEPT ![c] = h]
      PROVE  LockHeld'
  BY <1>4
<1>5. ASSUME NEW c \in Connections,
             \/ Authenticate(c) \/ AuthenticationRefused(c)
             \/ \E allowed \in Grants : AuthenticationSucceeds(c, allowed)
             \/ HandlerEnds(c) \/ Disconnect(c)
      PROVE  LockHeld'
  <2>1. PICK h : h \notin {"accepting", "refusing"} /\ handler' = [handler EXCEPT ![c] = h]
    BY <1>5 DEF Authenticate, AuthenticationRefused, AuthenticationSucceeds,
                HandlerEnds, Disconnect
  <2>2. handler[c] \notin {"accepting", "refusing"} /\ UNCHANGED lock
    BY <1>5 DEF Authenticate, AuthenticationRefused, AuthenticationSucceeds,
                HandlerEnds, Disconnect, managerVars
  <2> QED BY <2>1, <2>2, <1>4
<1>6. ASSUME NEW c \in Connections, NEW wanted \in SUBSET Channels,
             Subscribe(c, wanted)
      PROVE  LockHeld'
  BY <1>6 DEF Subscribe
<1>7. ASSUME NEW c \in Connections, Refused(c)
      PROVE  LockHeld'
  BY <1>7 DEF Refused
<1>8. ASSUME \/ \E channel \in Channels \cup {NoChannel} : PublishToRedis(channel)
             \/ Subscribed \/ BridgeFails \/ StopBridge \/ Forward \/ PublishReturns
             \/ \E c \in Connections : SendTo(c) \/ DropStale(c)
             \/ \E c \in Connections : PeerLeaves(c) \/ PeerStalls(c) \/ PeerReads(c)
      PROVE  UNCHANGED <<handler, lock>>
  BY <1>8 DEF PublishToRedis, Subscribed, BridgeFails, StopBridge, Forward,
      PublishReturns, SendTo, DropStale, PeerLeaves, PeerStalls, PeerReads,
      handlerVars, managerVars
<1>9. CASE UNCHANGED vars
  BY <1>1, <1>9 DEF vars, handlerVars, managerVars
<1> HIDE DEF LockHeld, TypeOK
<1> QED
  BY <1>1, <1>2, <1>3, <1>5, <1>6, <1>7, <1>8, <1>9 DEF Next

\* One more connection is accepted only while there is room for it.
LEMMA LimitStep ==
  ASSUME TypeOK, LockHeld, WithinLimit, [Next]_vars
  PROVE  WithinLimit'
<1> USE ConnectionsAssumption, LimitAssumption
<1> DEFINE taken == registered \cup Accepting
<1>1. IsFiniteSet(taken) /\ Cardinality(taken) \in Nat
      /\ Cardinality(taken) <= MaxConnections
  <2>1. taken \subseteq Connections
    BY DEF TypeOK, Accepting
  <2> QED BY <2>1, FS_Subset, FS_CardinalityType DEF WithinLimit
<1>2. ASSUME taken' \subseteq taken, (registered \subseteq Handled)'
      PROVE  WithinLimit'
  <2>1. Cardinality(taken') <= Cardinality(taken) /\ Cardinality(taken') \in Nat
    BY <1>1, <1>2, FS_Subset, FS_CardinalityType
  <2> QED BY <2>1, <1>1, <1>2 DEF WithinLimit
<1>3. CASE UNCHANGED <<handler, registered>>
  BY <1>3 DEF WithinLimit, Accepting, Handled
<1>4. ASSUME NEW c \in Connections, DropStale(c)
      PROVE  WithinLimit'
  <2>1. taken' \subseteq taken /\ (registered \subseteq Handled)'
    BY <1>4 DEF DropStale, Forget, WithinLimit, Accepting, Handled, handlerVars
  <2> QED BY <2>1, <1>2
<1>5. ASSUME NEW c \in Connections, Connect(c)
      PROVE  WithinLimit'
  <2>1. CASE Cardinality(registered) < MaxConnections
    <3>1. Accepting = {} /\ Accepting' = {c} /\ registered' = registered
      <4>1. \A d \in Connections : handler[d] # "accepting"
        BY <1>5 DEF Connect, LockHeld
      <4>2. handler' = [handler EXCEPT ![c] = "accepting"] /\ UNCHANGED registered
        BY <1>5, <2>1 DEF Connect
      <4>3. \A d \in Connections : handler'[d] = "accepting" <=> d = c
        BY <4>1, <4>2 DEF TypeOK
      <4> QED BY <4>1, <4>2, <4>3 DEF Accepting
    <3>2. c \notin registered /\ IsFiniteSet(registered)
      BY <1>5, <1>1, FS_Subset DEF Connect, WithinLimit, Handled
    <3>3. taken' = registered \cup {c}
      BY <3>1
    <3>4. Cardinality(taken') = Cardinality(registered) + 1
      BY <3>2, <3>3, FS_AddElement
    <3>5. Cardinality(taken') <= MaxConnections
      BY <2>1, <3>4, <3>2, FS_CardinalityType
    <3>6. (registered \subseteq Handled)'
      BY <1>5, <3>1, <3>2 DEF Connect, WithinLimit, Handled, TypeOK
    <3> QED BY <3>5, <3>6 DEF WithinLimit
  <2>2. CASE ~(Cardinality(registered) < MaxConnections)
    <3>1. taken' \subseteq taken /\ (registered \subseteq Handled)'
      BY <1>5, <2>2 DEF Connect, WithinLimit, Accepting, Handled, TypeOK
    <3> QED BY <3>1, <1>2
  <2> QED BY <2>1, <2>2
<1>6. ASSUME NEW c \in Connections, NEW accepts \in BOOLEAN, Accepted(c, accepts)
      PROVE  WithinLimit'
  <2>1. taken' \subseteq taken /\ (registered \subseteq Handled)'
    BY <1>6 DEF Accepted, WithinLimit, Accepting, Handled, TypeOK
  <2> QED BY <2>1, <1>2
<1>7. ASSUME NEW c \in Connections,
             \/ Authenticate(c) \/ AuthenticationRefused(c)
             \/ \E allowed \in Grants : AuthenticationSucceeds(c, allowed)
             \/ \E wanted \in SUBSET Channels : Subscribe(c, wanted)
             \/ HandlerEnds(c) \/ Disconnect(c)
      PROVE  WithinLimit'
  <2>1. /\ handler[c] \in {"open", "authenticating", "closing"}
        /\ \/ handler' = handler
           \/ /\ \E s \in {"open", "authenticating", "closing"} :
                   handler' = [handler EXCEPT ![c] = s]
              /\ registered' = registered
           \/ /\ handler' = [handler EXCEPT ![c] = "gone"]
              /\ registered' = registered \ {c}
        /\ registered' \subseteq registered
    BY <1>7 DEF Authenticate, AuthenticationRefused, AuthenticationSucceeds,
                Subscribe, HandlerEnds, Disconnect, Forget, managerVars
  <2>2. taken' \subseteq taken /\ (registered \subseteq Handled)'
    BY <2>1 DEF WithinLimit, Accepting, Handled, TypeOK
  <2> QED BY <2>2, <1>2
<1>8. ASSUME NEW c \in Connections, Refused(c)
      PROVE  WithinLimit'
  <2>1. taken' \subseteq taken /\ (registered \subseteq Handled)'
    BY <1>8 DEF Refused, WithinLimit, Accepting, Handled, TypeOK
  <2> QED BY <2>1, <1>2
<1> QED
  BY <1>3, <1>4, <1>5, <1>6, <1>7, <1>8
  DEF Next, vars, PublishToRedis, Subscribed, BridgeFails, StopBridge, Forward,
      PublishReturns, SendTo, PeerLeaves, PeerStalls, PeerReads, handlerVars,
      managerVars

-----------------------------------------------------------------------------
(* What a connection may be sent *)

\* Permissions and channels come with a registration and go with it.
LEMMA ChannelsStep ==
  ASSUME TypeOK, WithinLimit, ChannelsAllowed, [Next]_vars
  PROVE  ChannelsAllowed'
<1>1. CASE UNCHANGED <<alive, registered, permissions, channels, granted>>
  BY <1>1 DEF ChannelsAllowed
<1>2. ASSUME NEW c \in Connections, DropStale(c)
      PROVE  ChannelsAllowed'
  BY <1>2 DEF DropStale, Forget, ChannelsAllowed, TypeOK, handlerVars, history
<1>3. ASSUME NEW c \in Connections, NEW accepts \in BOOLEAN, Accepted(c, accepts)
      PROVE  ChannelsAllowed'
  <2>1. c \notin registered
    BY <1>3 DEF Accepted, WithinLimit, Handled
  <2> QED BY <1>3, <2>1 DEF Accepted, ChannelsAllowed, history
<1>4. ASSUME NEW c \in Connections, NEW allowed \in Grants,
             AuthenticationSucceeds(c, allowed)
      PROVE  ChannelsAllowed'
  <2>1. CASE c \in registered
    <3>1. /\ permissions' = [permissions EXCEPT ![c] = allowed]
          /\ channels' = [channels EXCEPT ![c] = allowed]
          /\ granted' = [granted EXCEPT ![c] = granted[c] \cup allowed]
          /\ UNCHANGED <<alive, registered>>
      BY <1>4, <2>1 DEF AuthenticationSucceeds
    <3> QED BY <3>1, <2>1 DEF ChannelsAllowed, TypeOK
  <2>2. CASE c \notin registered
    BY <1>4, <2>2, <1>1 DEF AuthenticationSucceeds
  <2> QED BY <2>1, <2>2
<1>5. ASSUME NEW c \in Connections, AuthenticationRefused(c) \/ PeerLeaves(c)
      PROVE  ChannelsAllowed'
  BY <1>5 DEF AuthenticationRefused, PeerLeaves, EndHistory, managerVars,
              ChannelsAllowed, TypeOK
<1>6. ASSUME NEW c \in Connections, NEW wanted \in SUBSET Channels,
             Subscribe(c, wanted)
      PROVE  ChannelsAllowed'
  <2>1. CASE c \in registered
    <3>1. /\ channels' = [channels EXCEPT ![c] = wanted]
          /\ wanted \subseteq permissions[c]
          /\ UNCHANGED <<alive, registered, permissions, granted>>
      BY <1>6, <2>1 DEF Subscribe, history
    <3> QED BY <3>1 DEF ChannelsAllowed, TypeOK
  <2>2. CASE c \notin registered
    BY <1>6, <2>2, <1>1 DEF Subscribe, history
  <2> QED BY <2>1, <2>2
<1>7. ASSUME NEW c \in Connections, Disconnect(c)
      PROVE  ChannelsAllowed'
  BY <1>7 DEF Disconnect, Forget, EndHistory, ChannelsAllowed, TypeOK
<1> QED
  BY <1>1, <1>2, <1>3, <1>4, <1>5, <1>6, <1>7
  DEF Next, vars, PublishToRedis, Subscribed, BridgeFails, StopBridge, Forward,
      PublishReturns, SendTo, Connect, Refused, Authenticate, PeerStalls, PeerReads,
      HandlerEnds, handlerVars, managerVars, history

\* Another authentication takes nothing back.
LEMMA GrantsGrow ==
  ASSUME TypeOK, NEW c \in Connections, NEW allowed \in Grants,
         AuthenticationSucceeds(c, allowed)
  PROVE  \A d \in Connections : granted[d] \subseteq granted'[d]
<1>1. CASE c \in registered
  <2>1. granted' = [granted EXCEPT ![c] = granted[c] \cup allowed]
    BY <1>1 DEF AuthenticationSucceeds
  <2>2. \A d \in Connections :
          granted'[d] = IF d = c THEN granted[c] \cup allowed ELSE granted[d]
    BY <2>1 DEF TypeOK
  <2> QED BY <2>2
<1>2. CASE c \notin registered
  BY <1>2 DEF AuthenticationSucceeds
<1> QED BY <1>1, <1>2

\* Recipients stay what they were when they were noted.
LEMMA TargetsStep ==
  ASSUME TypeOK, WithinLimit, ChannelsAllowed, TargetsAllowed, [Next]_vars
  PROVE  TargetsAllowed'
<1>1. ASSUME UNCHANGED <<current, handler, alive, granted>>, targets' \subseteq targets
      PROVE  TargetsAllowed'
  BY <1>1 DEF TargetsAllowed
<1>2. CASE StopBridge
  BY <1>2 DEF StopBridge, TargetsAllowed
<1>3. CASE Forward
  <2>1. CASE Head(inbox).channel = NoChannel
    BY <1>3, <2>1, <1>1 DEF Forward, handlerVars
  <2>2. CASE Head(inbox).channel # NoChannel
    <3>1. /\ current' = Head(inbox)
          /\ targets' = {c \in registered : Head(inbox).channel \in channels[c]}
          /\ UNCHANGED <<handler, alive, granted>>
      BY <1>3, <2>2 DEF Forward, Subscribers, handlerVars
    <3> QED BY <3>1 DEF TargetsAllowed, ChannelsAllowed, WithinLimit, Handled, TypeOK
  <2> QED BY <2>1, <2>2
<1>4. CASE PublishReturns
  BY <1>4 DEF PublishReturns, TargetsAllowed
<1>5. ASSUME NEW c \in Connections, NEW accepts \in BOOLEAN, Accepted(c, accepts)
      PROVE  TargetsAllowed'
  <2>1. c \notin targets
    BY <1>5 DEF Accepted, TargetsAllowed
  <2> QED BY <1>5, <2>1 DEF Accepted, TargetsAllowed, TypeOK, bridgeVars, history
<1>6. ASSUME NEW c \in Connections, NEW allowed \in Grants,
             AuthenticationSucceeds(c, allowed)
      PROVE  TargetsAllowed'
  <2>1. UNCHANGED <<targets, current, alive>>
    BY <1>6 DEF AuthenticationSucceeds, bridgeVars
  <2>2. \A d \in Connections : granted[d] \subseteq granted'[d]
    BY <1>6, GrantsGrow
  <2>3. \A d \in Connections : handler'[d] \in {"none", "accepting"} => handler'[d] = handler[d]
    BY <1>6 DEF AuthenticationSucceeds, TypeOK
  <2> QED BY <2>1, <2>2, <2>3 DEF TargetsAllowed, TypeOK
<1>7. ASSUME NEW c \in Connections,
             AuthenticationRefused(c) \/ PeerLeaves(c) \/ Disconnect(c)
      PROVE  TargetsAllowed'
  <2>1. UNCHANGED <<targets, current>> /\ alive' = alive \ {c}
        /\ granted' = [granted EXCEPT ![c] = {}]
    BY <1>7 DEF AuthenticationRefused, PeerLeaves, Disconnect, EndHistory, bridgeVars
  <2>2. \A d \in Connections : handler'[d] \in {"none", "accepting"} => handler'[d] = handler[d]
    BY <1>7 DEF AuthenticationRefused, PeerLeaves, Disconnect, TypeOK
  <2> QED BY <2>1, <2>2 DEF TargetsAllowed, TypeOK
<1>8. ASSUME NEW c \in Connections, Connect(c)
      PROVE  TargetsAllowed'
  <2>1. c \notin targets
    BY <1>8 DEF Connect, TargetsAllowed
  <2>2. \A d \in Connections \ {c} : handler'[d] = handler[d]
    BY <1>8 DEF Connect, TypeOK
  <2>3. UNCHANGED <<targets, current, alive, granted>>
    BY <1>8 DEF Connect, bridgeVars, history
  <2> QED BY <2>1, <2>2, <2>3 DEF TargetsAllowed, TypeOK
<1>9. ASSUME NEW c \in Connections,
             \/ Authenticate(c) \/ HandlerEnds(c)
             \/ Refused(c) \/ PeerStalls(c) \/ PeerReads(c)
             \/ \E wanted \in SUBSET Channels : Subscribe(c, wanted)
      PROVE  TargetsAllowed'
  <2>1. UNCHANGED <<targets, current, alive, granted>>
    BY <1>9 DEF Authenticate, HandlerEnds, Subscribe, Refused, PeerStalls, PeerReads,
                bridgeVars, history
  <2>2. \A d \in Connections : handler'[d] \in {"none", "accepting"} => handler'[d] = handler[d]
    BY <1>9 DEF Authenticate, HandlerEnds, Subscribe, Refused, PeerStalls, PeerReads,
                TypeOK
  <2> QED BY <2>1, <2>2 DEF TargetsAllowed, TypeOK
<1> QED
  BY <1>1, <1>2, <1>3, <1>4, <1>5, <1>6, <1>7, <1>8, <1>9
  DEF Next, vars, PublishToRedis, Subscribed, BridgeFails, SendTo, DropStale,
      bridgeVars, handlerVars, history

\* A message goes to recipients that may have it.
LEMMA PermittedStep ==
  ASSUME TypeOK, TargetsAllowed, StreamPermitted, [Next]_vars
  PROVE  StreamPermitted'
<1>1. CASE UNCHANGED <<received, granted>>
  BY <1>1 DEF StreamPermitted
<1>2. ASSUME NEW c \in Connections, SendTo(c)
      PROVE  StreamPermitted'
  <2>1. CASE c \in alive
    <3>1. received' = [received EXCEPT ![c] = Append(received[c], current)]
          /\ UNCHANGED granted
      BY <1>2, <2>1 DEF SendTo, CanSendTo
    <3>2. current.channel \in granted[c] /\ current \in Message
      BY <1>2, <2>1 DEF SendTo, CanSendTo, TargetsAllowed, TypeOK
    <3>3. \A i \in DOMAIN Append(received[c], current) :
            Append(received[c], current)[i].channel \in granted[c]
      BY <3>2 DEF StreamPermitted, TypeOK
    <3> QED BY <3>1, <3>3 DEF StreamPermitted, TypeOK
  <2>2. CASE c \notin alive
    BY <1>2, <2>2, <1>1 DEF SendTo, CanSendTo
  <2> QED BY <2>1, <2>2
<1>3. ASSUME NEW c \in Connections, NEW allowed \in Grants,
             AuthenticationSucceeds(c, allowed)
      PROVE  StreamPermitted'
  <2>1. \A d \in Connections : granted[d] \subseteq granted'[d]
    BY <1>3, GrantsGrow
  <2> QED BY <1>3, <2>1 DEF AuthenticationSucceeds, StreamPermitted
<1>4. ASSUME NEW c \in Connections, EndHistory(c)
      PROVE  StreamPermitted'
  BY <1>4 DEF EndHistory, StreamPermitted, TypeOK
<1> QED
  BY <1>1, <1>2, <1>3, <1>4
  DEF Next, vars, PublishToRedis, Subscribed, BridgeFails, StopBridge, Forward,
      PublishReturns, DropStale, Connect, Accepted, Authenticate, Subscribe,
      AuthenticationRefused, Refused, PeerLeaves, PeerStalls, PeerReads,
      HandlerEnds, Disconnect, history

-----------------------------------------------------------------------------
(* Order and completeness *)

\* The numbers of the messages in a sequence are integers.
LEMMA IdsAreIntegers ==
  /\ \A m \in Message : m.id \in Int
  /\ \A s \in Seq(Message) : \A i \in DOMAIN s : s[i].id \in Int
<1>1. \A m \in Message : m.id \in Int
  BY LimitAssumption DEF Message
<1>2. ASSUME NEW s \in Seq(Message), NEW i \in DOMAIN s
      PROVE  s[i] \in Message
  OBVIOUS
<1> QED BY <1>1, <1>2

\* A message is newer than those that wait, and the oldest of them is next.
LEMMA InboxStep ==
  ASSUME TypeOK, InboxOrdered, [Next]_vars
  PROVE  InboxOrdered'
<1>1. CASE UNCHANGED <<inbox, published, current>>
  BY <1>1 DEF InboxOrdered
<1>2. ASSUME NEW channel \in Channels \cup {NoChannel}, PublishToRedis(channel)
      PROVE  InboxOrdered'
  <2>1. published \in Nat /\ published' = published + 1 /\ UNCHANGED current
    BY <1>2, LimitAssumption DEF PublishToRedis, TypeOK
  <2>2. CASE inbox' = inbox
    <3>1. \A i \in DOMAIN inbox : inbox[i].id \in Int
      BY IdsAreIntegers DEF TypeOK
    <3>2. current # None => current.id \in Int
      BY IdsAreIntegers DEF TypeOK
    <3> QED BY <2>1, <2>2, <3>1, <3>2 DEF InboxOrdered
  <2>3. CASE inbox' = Append(inbox, [id |-> published', channel |-> channel])
    <3>1. /\ Len(inbox') = Len(inbox) + 1 /\ Len(inbox) \in Nat
          /\ inbox'[Len(inbox) + 1].id = published + 1
          /\ DOMAIN inbox' = 1..(Len(inbox) + 1) /\ DOMAIN inbox = 1..Len(inbox)
          /\ \A i \in 1..Len(inbox) : inbox'[i] = inbox[i] /\ inbox[i].id \in Int
      BY <2>1, <2>3, IdsAreIntegers DEF TypeOK
    <3>2. \A i \in DOMAIN inbox' : inbox'[i].id <= published'
      BY <2>1, <3>1 DEF InboxOrdered
    <3>3. \A i, j \in DOMAIN inbox' : i < j => inbox'[i].id < inbox'[j].id
      BY <2>1, <3>1 DEF InboxOrdered
    <3>4. current' # None =>
            /\ current'.id <= published'
            /\ \A i \in DOMAIN inbox' : current'.id < inbox'[i].id
      <4>1. current # None => current.id \in Int
        BY IdsAreIntegers DEF TypeOK
      <4> QED BY <2>1, <3>1, <4>1 DEF InboxOrdered
    <3> QED BY <3>2, <3>3, <3>4 DEF InboxOrdered
  <2> QED BY <1>2, <2>2, <2>3 DEF PublishToRedis
<1>3. CASE BridgeFails
  BY <1>3 DEF BridgeFails, InboxOrdered
<1>4. CASE StopBridge
  BY <1>4 DEF StopBridge, InboxOrdered
<1>5. CASE Forward
  <2>1. /\ inbox # <<>> /\ inbox' = Tail(inbox) /\ UNCHANGED published
        /\ current' \in {Head(inbox), None}
    BY <1>5 DEF Forward
  <2>2. /\ DOMAIN inbox = 1..Len(inbox) /\ Len(inbox) \in Nat \ {0}
        /\ DOMAIN inbox' = 1..(Len(inbox) - 1)
        /\ \A i \in 1..(Len(inbox) - 1) : inbox'[i] = inbox[i + 1]
        /\ Head(inbox) = inbox[1]
    BY <2>1 DEF TypeOK
  <2>3. \A i \in DOMAIN inbox' : inbox'[i].id <= published'
    BY <2>1, <2>2 DEF InboxOrdered
  <2>4. \A i, j \in DOMAIN inbox' : i < j => inbox'[i].id < inbox'[j].id
    BY <2>1, <2>2 DEF InboxOrdered
  <2>5. current' # None =>
          /\ current'.id <= published'
          /\ \A i \in DOMAIN inbox' : current'.id < inbox'[i].id
    BY <2>1, <2>2 DEF InboxOrdered
  <2> QED BY <2>3, <2>4, <2>5 DEF InboxOrdered
<1>6. CASE PublishReturns
  BY <1>6 DEF PublishReturns, InboxOrdered
<1> QED
  BY <1>1, <1>2, <1>3, <1>4, <1>5, <1>6
  DEF Next, vars, Subscribed, SendTo, DropStale, Connect, Accepted, Authenticate,
      AuthenticationSucceeds, AuthenticationRefused, Subscribe, Refused,
      PeerLeaves, PeerStalls, PeerReads, HandlerEnds, Disconnect, bridgeVars

\* Only the current message is sent, once to each of its recipients.
LEMMA ReceivedStep ==
  ASSUME TypeOK, InboxOrdered, ReceivedOlder, [Next]_vars
  PROVE  ReceivedOlder'
<1>1. ASSUME UNCHANGED <<inbox, published, current, received>>,
             targets' \subseteq targets
      PROVE  ReceivedOlder'
  BY <1>1 DEF ReceivedOlder
<1>2. \A c \in Connections : \A k \in DOMAIN received[c] : received[c][k].id \in Int
  BY IdsAreIntegers DEF TypeOK
<1>3. ASSUME NEW channel \in Channels \cup {NoChannel}, PublishToRedis(channel)
      PROVE  ReceivedOlder'
  <2>1. /\ published \in Nat /\ published' = published + 1
        /\ UNCHANGED <<current, targets, received>>
    BY <1>3, LimitAssumption DEF PublishToRedis, TypeOK, history
  <2>2. \A i \in DOMAIN inbox' :
          \/ i \in DOMAIN inbox /\ inbox'[i] = inbox[i]
          \/ inbox'[i].id = published + 1
    BY <1>3, <2>1 DEF PublishToRedis, TypeOK
  <2> QED BY <1>2, <2>1, <2>2 DEF ReceivedOlder
<1>4. CASE BridgeFails
  BY <1>4 DEF BridgeFails, ReceivedOlder, history
<1>5. CASE StopBridge
  BY <1>5 DEF StopBridge, ReceivedOlder, history
<1>6. CASE Forward
  <2>1. /\ inbox # <<>> /\ inbox' = Tail(inbox) /\ UNCHANGED <<published, received>>
        /\ \/ current' = Head(inbox)
           \/ current' = None /\ targets' = {}
    BY <1>6 DEF Forward, TypeOK
  <2>2. /\ Head(inbox) = inbox[1] /\ 1 \in DOMAIN inbox
        /\ \A i \in DOMAIN inbox' : i + 1 \in DOMAIN inbox /\ inbox'[i] = inbox[i + 1]
        /\ inbox[1].id \in Int
    BY <2>1, IdsAreIntegers DEF TypeOK
  <2> QED BY <1>2, <2>1, <2>2 DEF ReceivedOlder
<1>7. CASE PublishReturns
  BY <1>7 DEF PublishReturns, ReceivedOlder, history
<1>8. ASSUME NEW c \in Connections, SendTo(c)
      PROVE  ReceivedOlder'
  <2>1. /\ targets' = targets \ {c} /\ c \in targets
        /\ UNCHANGED <<inbox, published, current>>
    BY <1>8 DEF SendTo, CanSendTo
  <2>2. CASE c \in alive
    <3>1. received' = [received EXCEPT ![c] = Append(received[c], current)]
      BY <1>8, <2>2 DEF SendTo, CanSendTo
    <3>2. /\ current # None /\ current \in Message /\ current.id \in Int
          /\ current.id <= published
          /\ \A i \in DOMAIN inbox : current.id < inbox[i].id
      BY <2>1, IdsAreIntegers DEF TypeOK, InboxOrdered
    <3>3. \A d \in Connections : \A k \in DOMAIN received'[d] :
            \/ k \in DOMAIN received[d] /\ received'[d][k] = received[d][k]
            \/ d = c /\ received'[d][k] = current
      BY <3>1, <3>2 DEF TypeOK
    <3> QED BY <1>2, <2>1, <3>2, <3>3 DEF ReceivedOlder
  <2>3. CASE c \notin alive
    BY <1>8, <2>1, <2>3, <1>1 DEF SendTo, CanSendTo
  <2> QED BY <2>2, <2>3
<1>9. ASSUME NEW c \in Connections, EndHistory(c), UNCHANGED bridgeVars
      PROVE  ReceivedOlder'
  BY <1>9 DEF EndHistory, ReceivedOlder, TypeOK, bridgeVars
<1> QED
  BY <1>1, <1>3, <1>4, <1>5, <1>6, <1>7, <1>8, <1>9
  DEF Next, vars, Subscribed, DropStale, Connect, Accepted, Authenticate,
      AuthenticationSucceeds, AuthenticationRefused, Subscribe, Refused,
      PeerLeaves, PeerStalls, PeerReads, HandlerEnds, Disconnect, bridgeVars, history

\* Who leaves is owed nothing, and only those alive are noted.
LEMMA DueStep ==
  ASSUME TypeOK, DueAlive, [Next]_vars
  PROVE  DueAlive'
<1>1. ASSUME alive \subseteq alive', UNCHANGED due
      PROVE  DueAlive'
  BY <1>1 DEF DueAlive
<1>2. CASE Forward
  <2>1. CASE Head(inbox).channel = NoChannel
    BY <1>2, <2>1, <1>1 DEF Forward, handlerVars
  <2>2. CASE Head(inbox).channel # NoChannel
    <3>1. \A c \in Connections : c \notin alive => due'[c] = due[c] \cup {}
      BY <1>2, <2>2 DEF Forward
    <3>2. UNCHANGED alive
      BY <1>2 DEF Forward, handlerVars
    <3> QED BY <3>1, <3>2 DEF DueAlive
  <2> QED BY <2>1, <2>2
<1>3. ASSUME NEW c \in Connections, EndHistory(c), alive' = alive \ {c}
      PROVE  DueAlive'
  BY <1>3 DEF EndHistory, DueAlive, TypeOK
<1> QED
  BY <1>1, <1>2, <1>3
  DEF Next, vars, PublishToRedis, Subscribed, BridgeFails, StopBridge,
      PublishReturns, SendTo, DropStale, Connect, Accepted, Authenticate,
      AuthenticationSucceeds, AuthenticationRefused, Subscribe, Refused,
      PeerLeaves, PeerStalls, PeerReads, HandlerEnds, Disconnect, handlerVars, history

\* A recipient is taken off the list only with the message sent, or gone.
LEMMA CompleteStep ==
  ASSUME TypeOK, ReceivedOlder, DueAlive, StreamComplete, [Next]_vars
  PROVE  StreamComplete'
<1> DEFINE Sorted(s) == \A i, j \in DOMAIN s : i < j => s[i].id < s[j].id
           Paid(c) == \A m \in due[c] :
                        (m = current /\ c \in targets) \/ m \in Range(received[c])
<1>1. /\ \A c \in Connections : Sorted(received[c])
      /\ bridge # "stopped" => \A c \in alive : Paid(c)
  BY DEF StreamComplete
<1>2. SUFFICES /\ \A c \in Connections : Sorted(received'[c])
               /\ bridge' # "stopped" => \A c \in alive' : Paid(c)'
  BY DEF StreamComplete
<1>3. CASE UNCHANGED <<bridge, current, targets, received, alive, due>>
  BY <1>1, <1>3
<1>4. CASE Subscribed
  BY <1>1, <1>4 DEF Subscribed, handlerVars, history
<1>5. CASE BridgeFails
  BY <1>1, <1>5 DEF BridgeFails, handlerVars, history
<1>6. CASE StopBridge
  BY <1>1, <1>6 DEF StopBridge, history
<1>7. CASE Forward
  <2>1. UNCHANGED <<bridge, received, alive>> /\ current = None
        /\ bridge # "stopped" /\ inbox # <<>>
    BY <1>7 DEF Forward, handlerVars
  <2>2. CASE Head(inbox).channel = NoChannel
    BY <1>1, <1>7, <2>1, <2>2 DEF Forward
  <2>3. CASE Head(inbox).channel # NoChannel
    <3>1. current' = Head(inbox)
          /\ \A c \in Connections :
               due'[c] = due[c] \cup IF c \in targets' \cap alive
                                     THEN {current'} ELSE {}
      BY <1>7, <2>3 DEF Forward
    <3>2. \A c \in alive : \A m \in due[c] : m \in Range(received[c])
      BY <1>1, <2>1, MessageAssumption DEF TypeOK
    <3>3. \A c \in alive' : Paid(c)'
      BY <2>1, <3>1, <3>2 DEF TypeOK
    <3> QED BY <1>1, <2>1, <3>3
  <2> QED BY <2>2, <2>3
<1>8. CASE PublishReturns
  <2>1. UNCHANGED <<bridge, targets, received, alive, due>> /\ targets = {}
    BY <1>8 DEF PublishReturns, handlerVars, history
  <2> QED BY <1>1, <2>1
<1>9. ASSUME NEW c \in Connections, SendTo(c)
      PROVE  /\ \A d \in Connections : Sorted(received'[d])
             /\ bridge' # "stopped" => \A d \in alive' : Paid(d)'
  <2>1. /\ targets' = targets \ {c} /\ c \in targets
        /\ UNCHANGED <<bridge, current, alive, due>>
    BY <1>9 DEF SendTo, CanSendTo, handlerVars
  <2>2. CASE c \in alive
    <3> DEFINE longer == Append(received[c], current)
    <3>1. /\ received'[c] = longer
          /\ \A d \in Connections \ {c} : received'[d] = received[d]
      BY <1>9, <2>2 DEF SendTo, CanSendTo, TypeOK
    <3>2. /\ received[c] \in Seq(Message) /\ current \in Message
          /\ DOMAIN longer = 1..(Len(received[c]) + 1)
          /\ DOMAIN received[c] = 1..Len(received[c])
          /\ longer[Len(received[c]) + 1] = current
          /\ \A k \in 1..Len(received[c]) : longer[k] = received[c][k]
      BY <2>1 DEF TypeOK
    <3>3. Sorted(longer)
      <4>1. \A k \in 1..Len(received[c]) : received[c][k].id < current.id
        BY <2>1, <3>2 DEF ReceivedOlder
      <4> QED BY <1>1, <3>2, <4>1
    <3>4. Range(longer) = Range(received[c]) \cup {current}
      BY <3>2 DEF Range
    <3>5. \A d \in Connections : Sorted(received'[d])
      BY <1>1, <3>1, <3>3
    <3>6. bridge # "stopped" => Paid(c)'
      BY <1>1, <2>1, <2>2, <3>1, <3>4
    <3>7. bridge # "stopped" => \A d \in alive \ {c} : Paid(d)'
      BY <1>1, <2>1, <3>1 DEF TypeOK
    <3> QED BY <2>1, <3>5, <3>6, <3>7
  <2>3. CASE c \notin alive
    <3>1. UNCHANGED received
      BY <1>9, <2>3 DEF SendTo, CanSendTo
    <3> QED BY <1>1, <2>1, <2>3, <3>1
  <2> QED BY <2>2, <2>3
<1>10. ASSUME NEW c \in Connections, NEW accepts \in BOOLEAN, Accepted(c, accepts)
       PROVE  /\ \A d \in Connections : Sorted(received'[d])
              /\ bridge' # "stopped" => \A d \in alive' : Paid(d)'
  <2>1. UNCHANGED <<bridge, current, targets, received, due>>
        /\ alive' \subseteq alive \cup {c}
    BY <1>10 DEF Accepted, bridgeVars, history
  <2>2. c \notin alive => due[c] = {}
    BY DEF DueAlive
  <2> QED BY <1>1, <2>1, <2>2
<1>11. ASSUME NEW c \in Connections, EndHistory(c), alive' = alive \ {c},
              UNCHANGED bridgeVars
       PROVE  /\ \A d \in Connections : Sorted(received'[d])
              /\ bridge' # "stopped" => \A d \in alive' : Paid(d)'
  <2>1. /\ received'[c] = <<>>
        /\ \A d \in Connections \ {c} : received'[d] = received[d] /\ due'[d] = due[d]
        /\ UNCHANGED <<bridge, current, targets>>
    BY <1>11 DEF EndHistory, TypeOK, bridgeVars
  <2>2. Sorted(received'[c])
    BY <2>1
  <2> QED BY <1>1, <1>11, <2>1, <2>2 DEF TypeOK
<1> HIDE DEF Sorted, Paid
<1> QED
  BY <1>1, <1>3, <1>4, <1>5, <1>6, <1>7, <1>8, <1>9, <1>10, <1>11
  DEF Next, vars, PublishToRedis, DropStale, Connect, Authenticate,
      AuthenticationSucceeds, AuthenticationRefused, Subscribe, Refused,
      PeerLeaves, PeerStalls, PeerReads, HandlerEnds, Disconnect, bridgeVars, handlerVars, history

-----------------------------------------------------------------------------
(* The theorems *)

\* Nobody is connected when the application starts.
LEMMA RealtimeInit ==
  ASSUME Init
  PROVE  RealtimeInv
<1> USE ConnectionsAssumption, LimitAssumption DEF Init
<1>1. TypeOK
  BY DEF TypeOK
<1>2. LockHeld /\ ChannelsAllowed /\ TargetsAllowed /\ StreamPermitted
      /\ InboxOrdered /\ ReceivedOlder /\ DueAlive /\ StreamComplete
  BY DEF LockHeld, ChannelsAllowed, TargetsAllowed, StreamPermitted, InboxOrdered,
         ReceivedOlder, DueAlive, StreamComplete
<1>3. WithinLimit
  <2>1. registered \cup Accepting = {}
    BY DEF Accepting
  <2>2. Cardinality(registered \cup Accepting) = 0
    BY <2>1, FS_EmptySet
  <2>3. registered \subseteq Handled
    OBVIOUS
  <2> HIDE DEF Init
  <2> QED BY <2>2, <2>3 DEF WithinLimit
<1> QED BY <1>1, <1>2, <1>3 DEF RealtimeInv

LEMMA RealtimeInvariant == Spec => []RealtimeInv
<1>1. ASSUME RealtimeInv, [Next]_vars
      PROVE  RealtimeInv'
  <2> USE <1>1 DEF RealtimeInv
  <2>1. TypeOK' /\ LockHeld' /\ WithinLimit'
    BY TypeStep, LockStep, LimitStep
  <2>2. ChannelsAllowed' /\ TargetsAllowed' /\ StreamPermitted'
    BY ChannelsStep, TargetsStep, PermittedStep
  <2>3. InboxOrdered' /\ ReceivedOlder' /\ DueAlive' /\ StreamComplete'
    BY InboxStep, ReceivedStep, DueStep, CompleteStep
  <2> QED BY <2>1, <2>2, <2>3
<1> QED BY <1>1, RealtimeInit, PTL DEF Spec

\* Manager, bridge and handlers keep to their types.
THEOREM TypeCorrect == Spec => []TypeOK
BY RealtimeInvariant, PTL DEF RealtimeInv

\* Never are more connections registered, or being accepted, than the limit of
\* the manager allows, and none is registered whose handler is gone: the lock
\* is enough, since connect keeps it from the check until it has registered.
THEOREM LimitKept == Spec => []WithinLimit
BY RealtimeInvariant, PTL DEF RealtimeInv

\* However subscriptions, new authentications and departures interleave with a
\* publish, no connection is sent what it was never allowed.
THEOREM OnlyPermittedSent == Spec => []StreamPermitted
BY RealtimeInvariant, PTL DEF RealtimeInv

\* Every connection is sent its messages in order and once, and a recipient
\* that stays does not miss one because others leave.
THEOREM StreamsComplete == Spec => []StreamComplete
BY RealtimeInvariant, PTL DEF RealtimeInv
=============================================================================
