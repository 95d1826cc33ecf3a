------------------------------ MODULE Collector ------------------------------
(***************************************************************************)
(* The collector process: a handler for each TCP client, the bounded       *)
(* buffer they fill, the forwarder that empties it into the Redis list,    *)
(* and the shutdown of all three.                                          *)
(*                                                                         *)
(* Every task moves from one await to the next in one step.  The server's  *)
(* wait_closed is that of Python 3.12 and later, which the project         *)
(* requires: it returns once every accepted connection is closed.          *)
(***************************************************************************)
EXTENDS Integers, FiniteSets, SequencesExt

CONSTANTS
  Clients,
  MaxLines,     \* bound: lines a client sends
  BufferSize,   \* maxsize of the collector's queue
  Nothing,      \* no event in hand
  MaxFaults     \* bound: failing pushes

ASSUME BufferAssumption ==
  BufferSize \in Nat \ {0} /\ MaxLines \in Nat /\ MaxFaults \in Nat

\* The n-th line of a client, and the event made of it.
Line == Clients \X (1..MaxLines)

\* A line fits, is skipped (blank, or over max_line_bytes by no more than its
\* newline), or is longer than the limit of the stream.
LineKind == {"fits", "skipped", "overlong"}

ASSUME NothingAssumption == Nothing \notin Line

VARIABLES
  sent,       \* number of lines each client has sent
  kind,       \* what the handler does with each line
  socket,     \* lines sent and not yet read, per client
  client,     \* the client's side of its connection
  handler,    \* the await of each client handler
  inHand,     \* the event each handler is putting into the buffer
  buffer,     \* TCPCollector._events
  forwarder,  \* the await of _forward_events, or how it ended
  pushing,    \* the event the forwarder has in hand
  redis,      \* events in the Redis list, in order
  runtime,    \* progress of CollectorRuntime.start and close
  faults

clientVars == <<sent, kind, client>>
vars == <<clientVars, socket, handler, inHand, buffer, forwarder, pushing,
          redis, runtime, faults>>

\* Tasks and queues have their types, and the buffer keeps to its size.
TypeOK ==
  /\ sent \in [Clients -> 0..MaxLines]
  /\ kind \in [Line -> LineKind]
  /\ socket \in [Clients -> Seq(Line)]
  /\ client \in [Clients -> {"away", "connected", "gone", "reset"}]
  /\ handler \in [Clients -> {"none", "reading", "putting", "closed"}]
  /\ inHand \in [Clients -> Line \cup {Nothing}]
  /\ buffer \in Seq(Line) /\ Len(buffer) <= BufferSize
  /\ forwarder \in {"getting", "pushing", "failed", "cancelled"}
  /\ pushing \in Line \cup {Nothing}
  /\ redis \in Seq(Line)
  /\ runtime \in {"running", "stopping", "closing", "waiting", "closed"}
  /\ faults \in 0..MaxFaults

Init ==
  /\ sent = [c \in Clients |-> 0]
  /\ kind = [line \in Line |-> "fits"]
  /\ socket = [c \in Clients |-> <<>>]
  /\ client = [c \in Clients |-> "away"]
  /\ handler = [c \in Clients |-> "none"]
  /\ inHand = [c \in Clients |-> Nothing]
  /\ buffer = <<>>
  /\ forwarder = "getting"
  /\ pushing = Nothing
  /\ redis = <<>>
  /\ runtime = "running"
  /\ faults = 0

-----------------------------------------------------------------------------
(* Clients *)

Listening == runtime \in {"running", "stopping", "closing"}

Connect(c) ==
  /\ Listening
  /\ client[c] = "away"
  /\ client' = [client EXCEPT ![c] = "connected"]
  /\ handler' = [handler EXCEPT ![c] = "reading"]
  /\ UNCHANGED <<sent, kind, socket, inHand, buffer, forwarder, pushing, redis,
                 runtime, faults>>

Send(c, k) ==
  /\ client[c] = "connected"
  /\ handler[c] # "closed"
  /\ sent[c] < MaxLines
  /\ LET line == <<c, sent[c] + 1>>
     IN  /\ sent' = [sent EXCEPT ![c] = line[2]]
         /\ socket' = [socket EXCEPT ![c] = Append(socket[c], line)]
         /\ kind' = [kind EXCEPT ![line] = k]
  /\ UNCHANGED <<client, handler, inHand, buffer, forwarder, pushing, redis,
                 runtime, faults>>

\* The client closes its connection or resets it.
Disconnect(c, how) ==
  /\ client[c] = "connected"
  /\ client' = [client EXCEPT ![c] = how]
  /\ UNCHANGED <<sent, kind, socket, handler, inHand, buffer, forwarder, pushing,
                 redis, runtime, faults>>

-----------------------------------------------------------------------------
(* _handle_client *)

\* readline returns the next line.  For one that is too long the stream
\* raises ValueError, which is not the LimitOverrunError the handler looks
\* for: the handler ends, and what else the client sent is never read.
ReadLine(c) ==
  /\ handler[c] = "reading"
  /\ client[c] # "reset"
  /\ socket[c] # <<>>
  /\ LET line == Head(socket[c])
     IN  \/ /\ kind[line] = "overlong"
            /\ handler' = [handler EXCEPT ![c] = "closed"]
            /\ socket' = [socket EXCEPT ![c] = <<>>]
            /\ UNCHANGED inHand
         \/ /\ kind[line] = "skipped"
            /\ socket' = [socket EXCEPT ![c] = Tail(socket[c])]
            /\ UNCHANGED <<handler, inHand>>
         \/ /\ kind[line] = "fits"
            /\ handler' = [handler EXCEPT ![c] = "putting"]
            /\ socket' = [socket EXCEPT ![c] = Tail(socket[c])]
            /\ inHand' = [inHand EXCEPT ![c] = line]
  /\ UNCHANGED <<clientVars, buffer, forwarder, pushing, redis, runtime, faults>>

\* Mutant: only an error ends the handler.
ReadEndOnReset(c) ==
  /\ handler[c] = "reading"
  /\ client[c] = "reset"
  /\ handler' = [handler EXCEPT ![c] = "closed"]
  /\ socket' = [socket EXCEPT ![c] = <<>>]
  /\ UNCHANGED <<clientVars, inHand, buffer, forwarder, pushing, redis, runtime,
                 faults>>

\* End of stream, after the last line; a reset comes before all that is unread.
ReadEnd(c) ==
  /\ handler[c] = "reading"
  /\ \/ client[c] = "gone" /\ socket[c] = <<>>
     \/ client[c] = "reset"
  /\ handler' = [handler EXCEPT ![c] = "closed"]
  /\ socket' = [socket EXCEPT ![c] = <<>>]
  /\ UNCHANGED <<clientVars, inHand, buffer, forwarder, pushing, redis, runtime,
                 faults>>

\* Mutant: an event that finds the buffer full is dropped.
BufferOrDrop(c) ==
  /\ handler[c] = "putting"
  /\ buffer' = IF Len(buffer) < BufferSize THEN Append(buffer, inHand[c]) ELSE buffer
  /\ handler' = [handler EXCEPT ![c] = "reading"]
  /\ inHand' = [inHand EXCEPT ![c] = Nothing]
  /\ UNCHANGED <<clientVars, socket, forwarder, pushing, redis, runtime, faults>>

\* The put waits while the buffer is full.
Buffer(c) ==
  /\ handler[c] = "putting"
  /\ Len(buffer) < BufferSize
  /\ buffer' = Append(buffer, inHand[c])
  /\ handler' = [handler EXCEPT ![c] = "reading"]
  /\ inHand' = [inHand EXCEPT ![c] = Nothing]
  /\ UNCHANGED <<clientVars, socket, forwarder, pushing, redis, runtime, faults>>

-----------------------------------------------------------------------------
(* _forward_events *)

Take ==
  /\ forwarder = "getting"
  /\ buffer # <<>>
  /\ pushing' = Head(buffer)
  /\ buffer' = Tail(buffer)
  /\ forwarder' = "pushing"
  /\ UNCHANGED <<clientVars, socket, handler, inHand, redis, runtime, faults>>

Push ==
  /\ forwarder = "pushing"
  /\ redis' = Append(redis, pushing)
  /\ pushing' = Nothing
  /\ forwarder' = "getting"
  /\ UNCHANGED <<clientVars, socket, handler, inHand, buffer, runtime, faults>>

\* Mutant: the event of a failed push goes back to the end of the buffer.
PushRequeues ==
  /\ forwarder = "pushing"
  /\ faults < MaxFaults
  /\ faults' = faults + 1
  /\ forwarder' = "getting"
  /\ buffer' = Append(buffer, pushing)
  /\ pushing' = Nothing
  /\ UNCHANGED <<clientVars, socket, handler, inHand, redis, runtime>>

\* The exception ends the task, and start waits for the stop event only.
PushFails ==
  /\ forwarder = "pushing"
  /\ faults < MaxFaults
  /\ faults' = faults + 1
  /\ forwarder' = "failed"
  /\ pushing' = Nothing
  /\ UNCHANGED <<clientVars, socket, handler, inHand, buffer, redis, runtime>>

-----------------------------------------------------------------------------
(* Shutdown: start leaves its wait, then close *)

RequestStop ==
  /\ runtime = "running"
  /\ runtime' = "stopping"
  /\ UNCHANGED <<clientVars, socket, handler, inHand, buffer, forwarder,
                 pushing, redis, faults>>

\* The forwarder is cancelled, with a push that Redis has received or not.
CancelForwarder ==
  /\ runtime = "stopping"
  /\ runtime' = "closing"
  /\ forwarder' = IF forwarder = "failed" THEN "failed" ELSE "cancelled"
  /\ pushing' = Nothing
  /\ \/ redis' = redis
     \/ forwarder = "pushing" /\ redis' = Append(redis, pushing)
  /\ UNCHANGED <<clientVars, socket, handler, inHand, buffer, faults>>

CloseServer ==
  /\ runtime = "closing"
  /\ runtime' = "waiting"
  /\ UNCHANGED <<clientVars, socket, handler, inHand, buffer, forwarder,
                 pushing, redis, faults>>

\* The server counts the connection of a handler until the handler closes it
\* or the client resets it.
Attached(c) == handler[c] \in {"reading", "putting"} /\ client[c] # "reset"

\* wait_closed returns with the last connection; what is left of handlers is
\* cancelled.
FinishClose ==
  /\ runtime = "waiting"
  /\ \A c \in Clients : ~Attached(c)
  /\ runtime' = "closed"
  /\ handler' = [c \in Clients |-> IF handler[c] = "none" THEN "none" ELSE "closed"]
  /\ socket' = [c \in Clients |-> <<>>]
  /\ inHand' = [c \in Clients |-> Nothing]
  /\ UNCHANGED <<clientVars, buffer, forwarder, pushing, redis, faults>>

Process ==
  \/ \E c \in Clients : ReadLine(c) \/ ReadEnd(c) \/ Buffer(c)
  \/ Take \/ Push \/ PushFails
  \/ CancelForwarder \/ CloseServer \/ FinishClose

Next ==
  \/ \E c \in Clients :
       \/ Connect(c)
       \/ \E k \in LineKind : Send(c, k)
       \/ \E how \in {"gone", "reset"} : Disconnect(c, how)
  \/ RequestStop
  \/ Process

Spec == Init /\ [][Next]_vars

\* The process keeps running its tasks, none of which is overtaken for ever,
\* and Redis answers.  Clients and operators owe it nothing.
FairSpec ==
  /\ Spec
  /\ \A c \in Clients :
       WF_vars(ReadLine(c)) /\ WF_vars(ReadEnd(c)) /\ SF_vars(Buffer(c))
  /\ WF_vars(Take) /\ WF_vars(Push)
  /\ WF_vars(CancelForwarder) /\ WF_vars(CloseServer) /\ WF_vars(FinishClose)

-----------------------------------------------------------------------------
(* Properties *)

OneOrNone(x) == IF x = Nothing THEN <<>> ELSE <<x>>

\* The lines of a client that its handler is to pass on.
Fitting(c) == {n \in 1..sent[c] : kind[<<c, n>>] = "fits"}

\* The lines of each client are in the order it sent them, none of them twice.
InTurn(lines) ==
  \A i, j \in DOMAIN lines :
    i < j /\ lines[i][1] = lines[j][1] => lines[i][2] < lines[j][2]

\* What the collector holds of a client, from Redis back to the socket, with
\* the lines of others that share the way.
Pipeline(c) ==
  redis \o OneOrNone(pushing) \o buffer \o OneOrNone(inHand[c]) \o socket[c]

\* However handlers, forwarder, failures and shutdown interleave, what reaches
\* Redis of each client is a prefix of the lines it sent that fit, without a
\* gap or a repetition; and while nothing has failed, been stopped or been
\* refused, every such line is there or on its way, in its turn.
PrefixReachesRedis ==
  /\ InTurn(redis)
  /\ \A line \in Range(redis) :
       /\ line[2] \in Fitting(line[1])
       /\ \A n \in Fitting(line[1]) :
            n < line[2] => <<line[1], n>> \in Range(redis)
  /\ \A c \in Clients :
       forwarder \in {"getting", "pushing"} /\ handler[c] # "closed" =>
         /\ InTurn(Pipeline(c))
         /\ \A n \in Fitting(c) : <<c, n>> \in Range(Pipeline(c))

\* A line that a client has sent reaches Redis, unless its push fails, the
\* line or one before it is refused, the client resets the connection, or the
\* collector is stopped.
SentLinesForwarded ==
  \A c \in Clients, n \in 1..MaxLines :
    sent[c] >= n ~>
      \/ <<c, n>> \in Range(redis)
      \/ forwarder = "failed"
      \/ kind[<<c, n>>] = "skipped"
      \/ \E m \in 1..n : kind[<<c, m>>] = "overlong"
      \/ client[c] = "reset"
      \/ runtime # "running"

\* Once no client is connected, the close that waits for connections ends;
\* all that can keep it is a handler that waits for room in the buffer, which
\* nobody empties any more.
CloseEndsOnceClientsLeave ==
  runtime = "waiting" /\ (\A c \in Clients : client[c] # "connected") ~>
    \/ runtime = "closed"
    \/ \E c \in Clients : handler[c] = "putting" /\ Len(buffer) = BufferSize
=============================================================================
