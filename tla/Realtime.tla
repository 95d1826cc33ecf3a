------------------------------ MODULE Realtime ------------------------------
(***************************************************************************)
(* Realtime: messages published on Redis reach the WebSocket connections   *)
(* of one API process.                                                     *)
(*                                                                         *)
(* One task, the bridge, takes messages from its Redis subscription and    *)
(* has the ConnectionManager publish each of them: under the manager's     *)
(* lock it notes the connections of the channel, without the lock it sends *)
(* to one after the other, and it removes those it could not send to.      *)
(* Meanwhile the handler of every connection accepts, authenticates,       *)
(* subscribes and leaves.  The lock is held across two awaits: connect     *)
(* accepts under it, and closes the connection there that is one too many. *)
(*                                                                         *)
(* A send has no timeout.  A peer that is there and does not read fills    *)
(* the buffers between, and the send to it waits until it reads again or   *)
(* leaves.                                                                 *)
(*                                                                         *)
(* Left out: pings, answers to malformed messages, and texts.  A payload   *)
(* the bridge or the manager rejects is a message without a channel.       *)
(***************************************************************************)
EXTENDS Naturals, Sequences, FiniteSets, Functions

CONSTANTS
  Connections,      \* pool of connections, numbered as they come
  Channels,         \* channels a connection may be sent
  NoChannel,        \* channel of a payload that is not an object, too large, ...
  Grants,           \* channels the permissions of some user allow
  MaxConnections,   \* max_connections of the manager
  MaxMessages,      \* bound: messages published
  None              \* no message, nobody

ASSUME ConnectionsAssumption ==
  Connections \subseteq Nat /\ IsFiniteSet(Connections) /\ None \notin Connections
ASSUME LimitAssumption == MaxConnections \in Nat \ {0} /\ MaxMessages \in Nat
ASSUME GrantsAssumption == Grants \subseteq SUBSET Channels /\ NoChannel \notin Channels

Message == [id: 1..MaxMessages, channel: Channels \cup {NoChannel}]

ASSUME MessageAssumption == None \notin Message

VARIABLES
  bridge,         \* what the task of the bridge is doing
  inbox,          \* messages of the subscription it has not taken
  published,      \* messages published so far
  current,        \* message the manager is publishing
  targets,        \* connections it still has to send it to
  stale,          \* connections it could not send it to
  handler,        \* where the handler of a connection is
  alive,          \* sockets that are open
  stalled,        \* of these, those whose peer does not read: buffers are full
  registered,     \* keys of _connections
  authenticated,  \* local flag of the handlers
  permissions,    \* Connection.permissions, as channels
  channels,       \* Connection.channels
  lock,           \* connection whose connect holds the manager's lock
  received,       \* history: messages sent to a connection
  due,            \* history: messages a connection was a target of
  granted         \* history: channels ever allowed to a connection

bridgeVars == <<bridge, inbox, published, current, targets, stale>>
handlerVars == <<handler, alive, stalled, authenticated>>
managerVars == <<registered, permissions, channels, lock>>
history == <<received, due, granted>>
vars == <<bridgeVars, handlerVars, managerVars, history>>

\* Everything has its type, and there are targets only of a current message.
TypeOK ==
  /\ bridge \in {"subscribing", "listening", "ended", "stopped"}
  /\ inbox \in Seq(Message)
  /\ published \in 0..MaxMessages
  /\ current \in Message \cup {None}
  /\ targets \subseteq Connections /\ stale \subseteq Connections
  /\ current = None => targets = {} /\ stale = {}
  /\ handler \in [Connections -> {"none", "accepting", "open", "authenticating",
                                  "refusing", "closing", "gone"}]
  /\ alive \subseteq Connections
  /\ stalled \subseteq alive
  /\ registered \subseteq Connections
  /\ authenticated \subseteq Connections
  /\ permissions \in [Connections -> SUBSET Channels]
  /\ channels \in [Connections -> SUBSET Channels]
  /\ lock \in Connections \cup {None}
  /\ received \in [Connections -> Seq(Message)]
  /\ due \in [Connections -> SUBSET Message]
  /\ granted \in [Connections -> SUBSET Channels]

\* The application starts the bridge before it accepts connections.
Init ==
  /\ bridge = "subscribing"
  /\ inbox = <<>>
  /\ published = 0
  /\ current = None
  /\ targets = {} /\ stale = {}
  /\ handler = [c \in Connections |-> "none"]
  /\ alive = {} /\ stalled = {} /\ registered = {} /\ authenticated = {}
  /\ permissions = [c \in Connections |-> {}]
  /\ channels = [c \in Connections |-> {}]
  /\ lock = None
  /\ received = [c \in Connections |-> <<>>]
  /\ due = [c \in Connections |-> {}]
  /\ granted = [c \in Connections |-> {}]

-----------------------------------------------------------------------------
(* Redis and the bridge *)

\* Redis keeps a message for those that are subscribed, and for nobody else.
PublishToRedis(channel) ==
  /\ published < MaxMessages
  /\ published' = published + 1
  /\ inbox' = IF bridge = "listening"
              THEN Append(inbox, [id |-> published', channel |-> channel]) ELSE inbox
  /\ UNCHANGED <<bridge, current, targets, stale, handlerVars, managerVars, history>>

Subscribed ==
  /\ bridge = "subscribing"
  /\ bridge' = "listening"
  /\ UNCHANGED <<inbox, published, current, targets, stale, handlerVars,
                 managerVars, history>>

\* subscribe or get_message raises: the task ends, nobody starts another.
BridgeFails ==
  /\ bridge \in {"subscribing", "listening"} /\ current = None
  /\ bridge' = "ended"
  /\ inbox' = <<>>
  /\ UNCHANGED <<published, current, targets, stale, handlerVars, managerVars,
                 history>>

\* The application ends and cancels the task wherever it is.
StopBridge ==
  /\ bridge # "stopped"
  /\ bridge' = "stopped"
  /\ inbox' = <<>>
  /\ current' = None
  /\ targets' = {} /\ stale' = {}
  /\ UNCHANGED <<published, handlerVars, managerVars, history>>

Subscribers(channel) == {c \in registered : channel \in channels[c]}

\* The bridge takes a message and the manager notes its recipients.
Forward ==
  LET m == Head(inbox)
  IN  /\ bridge = "listening" /\ current = None /\ inbox # <<>>
      /\ lock = None
      /\ inbox' = Tail(inbox)
      /\ IF m.channel = NoChannel THEN UNCHANGED <<current, targets, due>>
         ELSE /\ current' = m
              /\ targets' = Subscribers(m.channel)
              /\ due' = [c \in Connections |->
                           due[c] \cup IF c \in targets' \cap alive THEN {m} ELSE {}]
      /\ UNCHANGED <<bridge, published, stale, handlerVars, managerVars,
                     received, granted>>

\* Recipients are sent to in the order they were registered, which is that of
\* their numbers; the send to one whose peer does not read waits.
CanSendTo(c) ==
  /\ c \in targets \ stalled
  /\ \A d \in targets : c <= d

\* Mutant: an exception of one recipient ends the loop.
SendOrGiveUp(c) ==
  /\ CanSendTo(c)
  /\ targets' = IF c \in alive THEN targets \ {c} ELSE {}
  /\ received' = IF c \in alive
                 THEN [received EXCEPT ![c] = Append(@, current)] ELSE received
  /\ stale' = IF c \in alive THEN stale ELSE stale \cup {c}
  /\ UNCHANGED <<bridge, inbox, published, current, handlerVars, managerVars,
                 due, granted>>

\* Mutant: the loop waits for a recipient that cannot take the message.
SendToLiving(c) ==
  /\ CanSendTo(c) /\ c \in alive
  /\ targets' = targets \ {c}
  /\ received' = [received EXCEPT ![c] = Append(@, current)]
  /\ UNCHANGED <<bridge, inbox, published, current, stale, handlerVars,
                 managerVars, due, granted>>

\* send_json to one recipient, which may have left or unsubscribed meanwhile.
SendTo(c) ==
  /\ CanSendTo(c)
  /\ targets' = targets \ {c}
  /\ received' = IF c \in alive
                 THEN [received EXCEPT ![c] = Append(@, current)] ELSE received
  /\ stale' = IF c \in alive THEN stale ELSE stale \cup {c}
  /\ UNCHANGED <<bridge, inbox, published, current, handlerVars, managerVars,
                 due, granted>>

\* The Connection object is dropped, with its permissions and channels.
Forget(c) ==
  /\ registered' = registered \ {c}
  /\ permissions' = [permissions EXCEPT ![c] = {}]
  /\ channels' = [channels EXCEPT ![c] = {}]

DropStale(c) ==
  /\ targets = {} /\ c \in stale /\ lock = None
  /\ stale' = stale \ {c}
  /\ Forget(c)
  /\ UNCHANGED <<bridge, inbox, published, current, targets, handlerVars, lock,
                 history>>

PublishReturns ==
  /\ current # None /\ targets = {} /\ stale = {}
  /\ current' = None
  /\ UNCHANGED <<bridge, inbox, published, targets, stale, handlerVars,
                 managerVars, history>>

-----------------------------------------------------------------------------
(* The handler of a connection *)

\* What a connection was sent and owed is of no interest once its socket is
\* closed.
EndHistory(c) ==
  /\ received' = [received EXCEPT ![c] = <<>>]
  /\ due' = [due EXCEPT ![c] = {}]
  /\ granted' = [granted EXCEPT ![c] = {}]

\* Mutant: the limit is checked, the lock is not kept for the accept.
ConnectUnlocked(c) ==
  /\ handler[c] = "none" /\ lock = None
  /\ \A d \in Connections : d < c => handler[d] # "none"
  /\ handler' = [handler EXCEPT ![c] =
       IF Cardinality(registered) < MaxConnections THEN "accepting" ELSE "refusing"]
  /\ UNCHANGED <<alive, stalled, authenticated, bridgeVars, managerVars, history>>

\* connect checks the limit under the lock and, keeping it, begins to accept
\* or to close.
Connect(c) ==
  /\ handler[c] = "none" /\ lock = None
  /\ \A d \in Connections : d < c => handler[d] # "none"
  /\ handler' = [handler EXCEPT ![c] =
       IF Cardinality(registered) < MaxConnections THEN "accepting" ELSE "refusing"]
  /\ lock' = c
  /\ UNCHANGED <<alive, stalled, authenticated, bridgeVars, registered,
                 permissions, channels, history>>

\* The accept ends: the connection is registered, or it raises.
Accepted(c, accepts) ==
  /\ handler[c] = "accepting"
  /\ lock' = None
  /\ handler' = [handler EXCEPT ![c] = IF accepts THEN "open" ELSE "gone"]
  /\ alive' = IF accepts THEN alive \cup {c} ELSE alive
  /\ registered' = IF accepts THEN registered \cup {c} ELSE registered
  /\ UNCHANGED <<stalled, authenticated, bridgeVars, permissions, channels, history>>

\* The close of a connection beyond the limit ends, or raises: connect raises.
Refused(c) ==
  /\ handler[c] = "refusing"
  /\ lock' = None
  /\ handler' = [handler EXCEPT ![c] = "gone"]
  /\ UNCHANGED <<alive, stalled, authenticated, bridgeVars, registered,
                 permissions, channels, history>>

\* An authenticate message: its token is looked up in PostgreSQL.  What a
\* peer has sent is received before the handler learns that it has left.
Authenticate(c) ==
  /\ handler[c] = "open" /\ c \in alive
  /\ handler' = [handler EXCEPT ![c] = "authenticating"]
  /\ UNCHANGED <<alive, stalled, authenticated, bridgeVars, managerVars, history>>

\* The token is good.  The manager may have dropped the connection: then it
\* raises, as update_channels does, and the handler ends.
AuthenticationSucceeds(c, allowed) ==
  /\ handler[c] = "authenticating" /\ lock = None
  /\ IF c \in registered
     THEN /\ handler' = [handler EXCEPT ![c] = "open"]
          /\ authenticated' = authenticated \cup {c}
          /\ permissions' = [permissions EXCEPT ![c] = allowed]
          /\ channels' = [channels EXCEPT ![c] = allowed]
          /\ granted' = [granted EXCEPT ![c] = @ \cup allowed]
     ELSE /\ handler' = [handler EXCEPT ![c] = "closing"]
          /\ UNCHANGED <<authenticated, permissions, channels, granted>>
  /\ UNCHANGED <<alive, stalled, bridgeVars, registered, lock, received, due>>

AuthenticationRefused(c) ==
  /\ handler[c] = "authenticating"
  /\ handler' = [handler EXCEPT ![c] = "closing"]
  /\ alive' = alive \ {c}
  /\ stalled' = stalled \ {c}
  /\ EndHistory(c)
  /\ UNCHANGED <<authenticated, bridgeVars, managerVars>>

\* Mutant: update_channels does not ask for the permission.
SubscribeUnchecked(c, wanted) ==
  /\ handler[c] = "open" /\ c \in alive \cap authenticated /\ lock = None
  /\ c \in registered
  /\ channels' = [channels EXCEPT ![c] = wanted]
  /\ UNCHANGED <<handlerVars, bridgeVars, registered, permissions, lock, history>>

\* update_channels; without the permissions the request is refused.
Subscribe(c, wanted) ==
  /\ handler[c] = "open" /\ c \in alive \cap authenticated /\ lock = None
  /\ c \in registered => wanted \subseteq permissions[c]
  /\ IF c \in registered
     THEN channels' = [channels EXCEPT ![c] = wanted] /\ UNCHANGED handler
     ELSE handler' = [handler EXCEPT ![c] = "closing"] /\ UNCHANGED channels
  /\ UNCHANGED <<alive, stalled, authenticated, bridgeVars, registered,
                 permissions, lock, history>>

\* The peer closes, or its network does.
PeerLeaves(c) ==
  /\ c \in alive
  /\ alive' = alive \ {c}
  /\ stalled' = stalled \ {c}
  /\ EndHistory(c)
  /\ UNCHANGED <<handler, authenticated, bridgeVars, managerVars>>

\* The peer stops reading, and reads again.
PeerStalls(c) ==
  /\ c \in alive \ stalled
  /\ stalled' = stalled \cup {c}
  /\ UNCHANGED <<handler, alive, authenticated, bridgeVars, managerVars, history>>

PeerReads(c) ==
  /\ c \in stalled
  /\ stalled' = stalled \ {c}
  /\ UNCHANGED <<handler, alive, authenticated, bridgeVars, managerVars, history>>

\* receive_json or an answer raises.
HandlerEnds(c) ==
  /\ handler[c] = "open" /\ c \notin alive
  /\ handler' = [handler EXCEPT ![c] = "closing"]
  /\ UNCHANGED <<alive, stalled, authenticated, bridgeVars, managerVars, history>>

\* The finally clause, however the handler has ended.
Disconnect(c) ==
  /\ handler[c] = "closing" /\ lock = None
  /\ handler' = [handler EXCEPT ![c] = "gone"]
  /\ alive' = alive \ {c}
  /\ stalled' = stalled \ {c}
  /\ Forget(c)
  /\ authenticated' = authenticated \ {c}
  /\ EndHistory(c)
  /\ UNCHANGED <<bridgeVars, lock>>

Next ==
  \/ \E channel \in Channels \cup {NoChannel} : PublishToRedis(channel)
  \/ Subscribed
  \/ BridgeFails
  \/ StopBridge
  \/ Forward
  \/ PublishReturns
  \/ \E c \in Connections :
       \/ SendTo(c)
       \/ DropStale(c)
       \/ Connect(c)
       \/ \E accepts \in BOOLEAN : Accepted(c, accepts)
       \/ Refused(c)
       \/ Authenticate(c)
       \/ \E allowed \in Grants : AuthenticationSucceeds(c, allowed)
       \/ AuthenticationRefused(c)
       \/ \E wanted \in SUBSET Channels : Subscribe(c, wanted)
       \/ PeerLeaves(c)
       \/ PeerStalls(c)
       \/ PeerReads(c)
       \/ HandlerEnds(c)
       \/ Disconnect(c)

\* The task of the bridge, once it has a message.
BridgeStep ==
  Forward \/ PublishReturns \/ \E c \in Connections : SendTo(c) \/ DropStale(c)

\* connect, once it has the lock.
ConnectEnds(c) == Refused(c) \/ \E accepts \in BOOLEAN : Accepted(c, accepts)

\* The event loop runs every task that can run.  An accept or a refusal ends:
\* it is the first that is written to its socket.  A send ends if the peer is
\* gone or reads, be it only now and then: once there is room the task is woken
\* (SF).  Nobody has to connect, subscribe, publish, read or leave, nothing
\* closes a peer that does not read, no handler has to get through an answer to
\* its peer, and nothing says that Redis stays.
Fairness ==
  /\ WF_vars(BridgeStep)
  /\ SF_vars(\E c \in Connections : SendTo(c))
  /\ \A c \in Connections : WF_vars(ConnectEnds(c))

Spec == Init /\ [][Next]_vars /\ Fairness

-----------------------------------------------------------------------------
(* Safety *)

Accepting == {c \in Connections : handler[c] = "accepting"}
Handled == {c \in Connections : handler[c] \in {"open", "authenticating", "closing"}}

\* The limit holds although the check and the registration are separated by
\* the accept, because those that are being accepted count; and it counts
\* nobody who is gone: whether the peer left, a token was refused or the
\* manager raised, no connection outlives its handler.
WithinLimit ==
  /\ Cardinality(registered \cup Accepting) <= MaxConnections
  /\ registered \subseteq Handled

\* A connection is sent only what some authentication of it allowed, even if
\* it subscribes, authenticates again or is dropped during a publish.
StreamPermitted ==
  \A c \in Connections : \A i \in DOMAIN received[c] :
    received[c][i].channel \in granted[c]

\* A connection is sent messages in the order they were published and none
\* twice; and a recipient that is still there has been sent the message or
\* will be: others that leave during the publish do not make it miss any.
StreamComplete ==
  /\ \A c \in Connections : \A i, j \in DOMAIN received[c] :
       i < j => received[c][i].id < received[c][j].id
  /\ \A c \in alive : bridge # "stopped" => \A m \in due[c] :
       (m = current /\ c \in targets) \/ m \in Range(received[c])

-----------------------------------------------------------------------------
(* Liveness *)

\* The bridge waits for a recipient that does not read.
Blocked == \E c \in targets \cap stalled : \A d \in targets : c <= d

\* The bridge always gets through its inbox, unless it waits for good for a
\* recipient that is there and does not read: no connection that comes, is
\* refused, leaves or has left, none that stalls for a time, and none that
\* stalls where it is not the next to be sent to, keeps it from going on.
BridgeGoesOn == []<>(inbox = <<>> /\ current = None) \/ <>[]Blocked
=============================================================================
