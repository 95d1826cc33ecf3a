--------------------------- MODULE CollectorProofs ---------------------------
(***************************************************************************)
(* Types of the collector, with the size its buffer keeps to, and the      *)
(* order in which lines reach Redis, for any number of clients, lines and  *)
(* failures.  The invariant behind the order, LineUpInv, says where every  *)
(* line of a client is: past the handler are the lines up to Read(c), in   *)
(* turn and without a gap while the forwarder works, and the socket has    *)
(* the lines after them.                                                   *)
(***************************************************************************)
EXTENDS Collector, TLAPS

\* A handler that puts has an event to put, and so has a forwarder that pushes.
HoldsEvent ==
  /\ \A c \in Clients : handler[c] = "putting" => inHand[c] \in Line
  /\ forwarder = "pushing" => pushing \in Line

CollectorInv == TypeOK /\ HoldsEvent

\* The next line of a client is a line.
LEMMA NextLine ==
  ASSUME TypeOK, NEW c \in Clients, sent[c] < MaxLines
  PROVE  /\ sent[c] + 1 \in 1..MaxLines
         /\ <<c, sent[c] + 1>> \in Line
<1>1. sent[c] \in 0..MaxLines
  BY DEF TypeOK
<1>2. sent[c] + 1 \in 1..MaxLines
  BY <1>1, BufferAssumption
<1> QED BY <1>2 DEF Line

\* Every step keeps types and size.
LEMMA CollectorStep ==
  ASSUME CollectorInv, [Next]_vars
  PROVE  CollectorInv'
<1> USE BufferAssumption DEF CollectorInv, TypeOK, HoldsEvent
<1>1. CASE UNCHANGED vars
  BY <1>1 DEF vars, clientVars
<1>2. ASSUME NEW c \in Clients, Connect(c)
      PROVE  CollectorInv'
  BY <1>2 DEF Connect
<1>3. ASSUME NEW c \in Clients, NEW k \in LineKind, Send(c, k)
      PROVE  CollectorInv'
  <2>1. sent[c] + 1 \in 1..MaxLines /\ <<c, sent[c] + 1>> \in Line
    BY <1>3, NextLine DEF Send
  <2>2. /\ sent' = [sent EXCEPT ![c] = sent[c] + 1]
        /\ socket' = [socket EXCEPT ![c] = Append(socket[c], <<c, sent[c] + 1>>)]
        /\ kind' = [kind EXCEPT ![<<c, sent[c] + 1>>] = k]
    BY <1>3 DEF Send
  <2>3. sent' \in [Clients -> 0..MaxLines]
    BY <2>1, <2>2
  <2>4. socket' \in [Clients -> Seq(Line)] /\ kind' \in [Line -> LineKind]
    BY <2>1, <2>2
  <2> QED BY <1>3, <2>3, <2>4 DEF Send
<1>4. ASSUME NEW c \in Clients, NEW how \in {"gone", "reset"}, Disconnect(c, how)
      PROVE  CollectorInv'
  BY <1>4 DEF Disconnect
<1>5. ASSUME NEW c \in Clients, ReadLine(c)
      PROVE  CollectorInv'
  <2>1. socket[c] \in Seq(Line) /\ socket[c] # <<>>
    BY <1>5 DEF ReadLine
  <2>2. Head(socket[c]) \in Line /\ Tail(socket[c]) \in Seq(Line)
    BY <2>1
  <2>3. \E rest \in Seq(Line) : socket' = [socket EXCEPT ![c] = rest]
    <3>1. /\ <<>> \in Seq(Line)
          /\ \/ socket' = [socket EXCEPT ![c] = <<>>]
             \/ socket' = [socket EXCEPT ![c] = Tail(socket[c])]
      BY <1>5 DEF ReadLine
    <3> QED BY <2>2, <3>1
  <2>4. socket' \in [Clients -> Seq(Line)]
    BY <2>3
  <2>5. /\ handler' \in [Clients -> {"none", "reading", "putting", "closed"}]
        /\ inHand' \in [Clients -> Line \cup {Nothing}]
        /\ \A d \in Clients : handler'[d] = "putting" => inHand'[d] \in Line
    <3>1. \/ handler' = [handler EXCEPT ![c] = "closed"] /\ inHand' = inHand
          \/ handler' = handler /\ inHand' = inHand
          \/ /\ handler' = [handler EXCEPT ![c] = "putting"]
             /\ inHand' = [inHand EXCEPT ![c] = Head(socket[c])]
      BY <1>5 DEF ReadLine
    <3> QED BY <3>1, <2>2
  <2> QED BY <1>5, <2>4, <2>5 DEF ReadLine, clientVars
<1>6. ASSUME NEW c \in Clients, ReadEnd(c)
      PROVE  CollectorInv'
  BY <1>6 DEF ReadEnd, clientVars
<1>7. ASSUME NEW c \in Clients, Buffer(c)
      PROVE  CollectorInv'
  <2>1. inHand[c] \in Line /\ Len(buffer) < BufferSize /\ Len(buffer) \in Nat
    BY <1>7 DEF Buffer
  <2>2. buffer' \in Seq(Line) /\ Len(buffer') <= BufferSize
    BY <1>7, <2>1 DEF Buffer
  <2> QED BY <1>7, <2>2 DEF Buffer, clientVars
<1>8. CASE Take
  <2>1. buffer \in Seq(Line) /\ buffer # <<>>
    BY <1>8 DEF Take
  <2>2. Head(buffer) \in Line /\ Tail(buffer) \in Seq(Line)
        /\ Len(Tail(buffer)) = Len(buffer) - 1
    BY <2>1
  <2> QED BY <1>8, <2>2 DEF Take, clientVars
<1>9. CASE Push
  BY <1>9 DEF Push, clientVars
<1>10. CASE PushFails
  BY <1>10 DEF PushFails, clientVars
<1>11. CASE RequestStop
  BY <1>11 DEF RequestStop, clientVars
<1>12. CASE CancelForwarder
  <2>1. redis' \in Seq(Line)
    <3>1. \/ redis' = redis
          \/ pushing \in Line /\ redis' = Append(redis, pushing)
      BY <1>12 DEF CancelForwarder
    <3>2. redis \in Seq(Line)
      OBVIOUS
    <3> HIDE DEF CollectorInv, TypeOK, HoldsEvent
    <3> QED BY <3>1, <3>2
  <2> QED BY <1>12, <2>1 DEF CancelForwarder, clientVars
<1>13. CASE CloseServer
  BY <1>13 DEF CloseServer, clientVars
<1>14. CASE FinishClose
  BY <1>14 DEF FinishClose, clientVars
<1> HIDE DEF CollectorInv
<1> QED
  BY <1>1, <1>2, <1>3, <1>4, <1>5, <1>6, <1>7, <1>8, <1>9, <1>10, <1>11, <1>12,
     <1>13, <1>14 DEF Next, Process

\* The buffer never holds more than its size and all parts of the collector
\* keep their types, whatever clients, failures and shutdown do.
THEOREM TypeCorrect == Spec => []TypeOK
<1>1. Init => CollectorInv
  BY BufferAssumption, NothingAssumption
  DEF Init, CollectorInv, TypeOK, HoldsEvent, LineKind
<1>2. CollectorInv => TypeOK
  BY DEF CollectorInv
<1> QED BY <1>1, <1>2, CollectorStep, PTL DEF Spec

-----------------------------------------------------------------------------
(* Sequences of lines *)

\* A line is the n-th of some client.
LEMMA LineParts ==
  ASSUME NEW x \in Line
  PROVE  x[1] \in Clients /\ x[2] \in 1..MaxLines /\ x[2] \in Int
         /\ x = <<x[1], x[2]>>
BY BufferAssumption DEF Line

\* One line is an earlier one of the same client, or they are of different ones.
Ahead(x, y) == x[1] = y[1] => x[2] < y[2]

\* A line at the end.
LEMMA AppendInTurn ==
  ASSUME NEW s \in Seq(Line), NEW x \in Line
  PROVE  /\ Range(Append(s, x)) = Range(s) \cup {x}
         /\ (InTurn(s) /\ (\A y \in Range(s) : Ahead(y, x))) => InTurn(Append(s, x))
<1>1. /\ Append(s, x) \in Seq(Line) /\ Len(Append(s, x)) = Len(s) + 1
      /\ \A i \in 1..Len(s) : Append(s, x)[i] = s[i]
      /\ Append(s, x)[Len(s) + 1] = x
      /\ Len(s) \in Nat /\ DOMAIN s = 1..Len(s)
      /\ DOMAIN Append(s, x) = 1..(Len(s) + 1)
  OBVIOUS
<1> DEFINE t == Append(s, x)
<1>2. Range(t) = Range(s) \cup {x}
  <2>1. ASSUME NEW i \in 1..(Len(s) + 1) PROVE t[i] \in Range(s) \cup {x}
    <3>1. i \in 1..Len(s) \/ i = Len(s) + 1
      BY <1>1
    <3> QED BY <1>1, <3>1 DEF Range
  <2>2. ASSUME NEW i \in 1..Len(s) PROVE s[i] \in Range(t)
    <3>1. i \in 1..(Len(s) + 1)
      BY <1>1
    <3> QED BY <1>1, <3>1 DEF Range
  <2>3. x \in Range(t)
    <3>1. Len(s) + 1 \in 1..(Len(s) + 1)
      BY <1>1
    <3> QED BY <1>1, <3>1 DEF Range
  <2> HIDE DEF t
  <2>4. Range(t) \subseteq Range(s) \cup {x}
    BY <1>1, <2>1 DEF Range, t
  <2>5. Range(s) \subseteq Range(t)
    BY <1>1, <2>2 DEF Range
  <2> QED BY <2>3, <2>4, <2>5
<1>3. ASSUME InTurn(s), \A y \in Range(s) : Ahead(y, x)
      PROVE  InTurn(t)
  <2>1. ASSUME NEW i \in 1..(Len(s) + 1), NEW j \in 1..(Len(s) + 1), i < j,
               t[i][1] = t[j][1]
        PROVE  t[i][2] < t[j][2]
    <3>1. i \in 1..Len(s) /\ (j \in 1..Len(s) \/ j = Len(s) + 1)
      BY <1>1, <2>1
    <3>2. CASE j \in 1..Len(s)
      BY <1>1, <1>3, <2>1, <3>1, <3>2 DEF InTurn
    <3>3. CASE j = Len(s) + 1
      <4>1. s[i] \in Range(s) /\ t[i] = s[i] /\ t[j] = x
        BY <1>1, <3>1, <3>3 DEF Range
      <4> HIDE DEF t
      <4> QED BY <1>3, <2>1, <4>1 DEF Ahead
    <3> QED BY <3>1, <3>2, <3>3
  <2> QED BY <1>1, <2>1 DEF InTurn
<1> QED BY <1>2, <1>3

\* A line at the head.
LEMMA HeadInTurn ==
  ASSUME NEW s \in Seq(Line), s # <<>>
  PROVE  /\ Head(s) \in Line /\ Tail(s) \in Seq(Line)
         /\ Range(s) = {Head(s)} \cup Range(Tail(s))
         /\ InTurn(s) => /\ InTurn(Tail(s))
                         /\ \A y \in Range(Tail(s)) : Ahead(Head(s), y)
<1> DEFINE t == Tail(s)
<1>1. /\ Head(s) \in Line /\ t \in Seq(Line) /\ Len(s) \in Nat /\ Len(s) >= 1
      /\ DOMAIN s = 1..Len(s) /\ DOMAIN t = 1..(Len(s) - 1)
      /\ Head(s) = s[1]
  OBVIOUS
<1>2. \A i \in 1..(Len(s) - 1) : t[i] = s[i + 1]
  OBVIOUS
<1> HIDE DEF t
<1>3. Range(s) = {Head(s)} \cup Range(t)
  <2>1. ASSUME NEW i \in 1..Len(s) PROVE s[i] \in {Head(s)} \cup Range(t)
    <3>1. i = 1 \/ (i - 1 \in 1..(Len(s) - 1) /\ s[i] = t[i - 1])
      BY <1>1, <1>2
    <3> QED BY <1>1, <3>1 DEF Range
  <2>2. ASSUME NEW i \in 1..(Len(s) - 1) PROVE t[i] \in Range(s)
    <3>1. i + 1 \in 1..Len(s)
      BY <1>1
    <3> QED BY <1>1, <1>2, <3>1 DEF Range
  <2>3. Head(s) \in Range(s)
    BY <1>1 DEF Range
  <2> QED BY <1>1, <2>1, <2>2, <2>3 DEF Range
<1>4. ASSUME InTurn(s)
      PROVE  InTurn(t) /\ \A y \in Range(t) : Ahead(Head(s), y)
  <2>1. InTurn(t)
    <3>1. ASSUME NEW i \in 1..(Len(s) - 1), NEW j \in 1..(Len(s) - 1), i < j,
                 t[i][1] = t[j][1]
          PROVE  t[i][2] < t[j][2]
      <4>1. /\ i + 1 \in 1..Len(s) /\ j + 1 \in 1..Len(s) /\ i + 1 < j + 1
            /\ t[i] = s[i + 1] /\ t[j] = s[j + 1]
        BY <1>1, <1>2, <3>1
      <4> QED BY <1>1, <1>4, <3>1, <4>1 DEF InTurn
    <3> QED BY <1>1, <3>1 DEF InTurn
  <2>2. ASSUME NEW i \in 1..(Len(s) - 1) PROVE Ahead(Head(s), t[i])
    <3>1. i + 1 \in 1..Len(s) /\ 1 \in 1..Len(s) /\ 1 < i + 1 /\ t[i] = s[i + 1]
      BY <1>1, <1>2
    <3> QED BY <1>1, <1>4, <3>1 DEF InTurn, Ahead
  <2> QED BY <1>1, <2>1, <2>2 DEF Range
<1> QED BY <1>1, <1>3, <1>4 DEF t

\* One sequence after another.
LEMMA ConcatInTurn ==
  ASSUME NEW s \in Seq(Line), NEW t \in Seq(Line)
  PROVE  /\ s \o t \in Seq(Line)
         /\ Range(s \o t) = Range(s) \cup Range(t)
         /\ (/\ InTurn(s) /\ InTurn(t)
             /\ \A x \in Range(s), y \in Range(t) : Ahead(x, y))
            => InTurn(s \o t)
<1> DEFINE u == s \o t
<1>1. /\ u \in Seq(Line) /\ Len(s) \in Nat /\ Len(t) \in Nat
      /\ DOMAIN s = 1..Len(s) /\ DOMAIN t = 1..Len(t)
      /\ DOMAIN u = 1..(Len(s) + Len(t))
  OBVIOUS
<1>2. /\ \A i \in 1..Len(s) : u[i] = s[i]
      /\ \A i \in 1..Len(t) : u[Len(s) + i] = t[i]
  OBVIOUS
<1> HIDE DEF u
<1>3. ASSUME NEW i \in 1..(Len(s) + Len(t))
      PROVE  \/ i \in 1..Len(s) /\ u[i] = s[i]
             \/ i - Len(s) \in 1..Len(t) /\ u[i] = t[i - Len(s)]
  <2>1. CASE i \in 1..Len(s)
    BY <1>2, <2>1
  <2>2. CASE i \notin 1..Len(s)
    <3>1. i - Len(s) \in 1..Len(t) /\ Len(s) + (i - Len(s)) = i
      BY <1>1, <2>2
    <3> QED BY <1>2, <3>1
  <2> QED BY <2>1, <2>2
<1>4. Range(u) = Range(s) \cup Range(t)
  <2>1. \A i \in DOMAIN u : u[i] \in Range(s) \cup Range(t)
    BY <1>1, <1>3 DEF Range
  <2>2. \A i \in DOMAIN s : s[i] \in Range(u)
    <3>1. \A i \in 1..Len(s) : i \in DOMAIN u
      BY <1>1
    <3> QED BY <1>1, <1>2, <3>1 DEF Range
  <2>3. \A i \in DOMAIN t : t[i] \in Range(u)
    <3>1. \A i \in 1..Len(t) : Len(s) + i \in DOMAIN u
      BY <1>1
    <3> QED BY <1>1, <1>2, <3>1 DEF Range
  <2> QED BY <2>1, <2>2, <2>3 DEF Range
<1>5. ASSUME InTurn(s), InTurn(t),
             \A x \in Range(s), y \in Range(t) : Ahead(x, y)
      PROVE  InTurn(u)
  <2>1. ASSUME NEW i \in 1..(Len(s) + Len(t)), NEW j \in 1..(Len(s) + Len(t)),
               i < j, u[i][1] = u[j][1]
        PROVE  u[i][2] < u[j][2]
    <3>1. CASE i \in 1..Len(s) /\ u[i] = s[i] /\ j \in 1..Len(s) /\ u[j] = s[j]
      BY <1>1, <1>5, <2>1, <3>1 DEF InTurn
    <3>2. CASE /\ i \in 1..Len(s) /\ u[i] = s[i]
               /\ j - Len(s) \in 1..Len(t) /\ u[j] = t[j - Len(s)]
      <4>1. u[i] \in Range(s) /\ u[j] \in Range(t)
        BY <1>1, <3>2 DEF Range
      <4> QED BY <1>5, <2>1, <4>1 DEF Ahead
    <3>3. CASE /\ i - Len(s) \in 1..Len(t) /\ u[i] = t[i - Len(s)]
               /\ j - Len(s) \in 1..Len(t) /\ u[j] = t[j - Len(s)]
      <4>1. i - Len(s) < j - Len(s)
        BY <1>1, <2>1
      <4> QED BY <1>1, <1>5, <2>1, <3>3, <4>1 DEF InTurn
    <3>4. CASE i - Len(s) \in 1..Len(t) /\ j \in 1..Len(s)
      BY <1>1, <2>1, <3>4
    <3> QED BY <1>3, <3>1, <3>2, <3>3, <3>4
  <2> QED BY <1>1, <2>1 DEF InTurn
<1> QED BY <1>1, <1>4, <1>5 DEF u

-----------------------------------------------------------------------------
(* Lines on their way *)

\* Number of lines of a client that were read, or given up.
Read(c) == sent[c] - Len(socket[c])

Works == forwarder \in {"getting", "pushing"}

\* The line in the hand of the forwarder, and the lines past the handlers.
Held == {pushing} \cap Line
Taken == Range(redis) \cup Held \cup Range(buffer)

\* Tasks hold an event exactly at the awaits that need one, and a collector
\* that goes down has no forwarder.
HandsInv ==
  /\ \A c \in Clients : handler[c] # "putting" => inHand[c] = Nothing
  /\ forwarder # "pushing" => pushing = Nothing
  /\ runtime \notin {"running", "stopping"} => ~Works

\* The socket has the last lines that were sent, and a handler that puts has
\* the one before them.
SocketInv ==
  \A c \in Clients :
    /\ Len(socket[c]) <= sent[c]
    /\ \A i \in 1..Len(socket[c]) : socket[c][i] = <<c, Read(c) + i>>
    /\ handler[c] = "putting" =>
         inHand[c] = <<c, Read(c)>> /\ kind[<<c, Read(c)>>] = "fits"

\* What is past a handler has been read and fits.
PassedInv ==
  \A x \in Taken :
    /\ x[2] <= Read(x[1])
    /\ handler[x[1]] = "putting" => x[2] < Read(x[1])
    /\ kind[x] = "fits"

\* Redis, forwarder and buffer hold the lines of a client in its order.
OrderInv ==
  /\ InTurn(redis) /\ InTurn(buffer)
  /\ \A x \in Range(redis), y \in Held \cup Range(buffer) : Ahead(x, y)
  /\ \A x \in Held, y \in Range(buffer) : Ahead(x, y)

\* No line that fits is missing before one that is there.
NoGap(lines) ==
  \A x \in lines : \A n \in Fitting(x[1]) : n < x[2] => <<x[1], n>> \in lines

\* Every line that a living handler has read is on its way.
NoneMissing ==
  \A c \in Clients : handler[c] # "closed" =>
    \A n \in Fitting(c) :
      n <= Read(c) => <<c, n>> \in Taken \/ inHand[c] = <<c, n>>

\* Redis has no gap, nor has the way to it while the forwarder works.
GapInv ==
  /\ NoGap(Range(redis))
  /\ Works => NoGap(Taken)
  /\ Works => NoneMissing

\* A client that never connected has no handler.
AwayInv == \A c \in Clients : client[c] = "away" => handler[c] = "none"

LineUpInv == CollectorInv /\ HandsInv /\ SocketInv /\ PassedInv /\ OrderInv /\ GapInv

\* Sizes of socket and history.
LEMMA SocketSizes ==
  ASSUME TypeOK, SocketInv, NEW c \in Clients
  PROVE  /\ Len(socket[c]) \in Nat /\ sent[c] \in Nat /\ sent[c] \in 0..MaxLines
         /\ socket[c] \in Seq(Line)
         /\ Read(c) \in Nat /\ Read(c) <= sent[c]
<1>1. socket[c] \in Seq(Line) /\ sent[c] \in 0..MaxLines
  BY DEF TypeOK
<1>2. Len(socket[c]) <= sent[c]
  BY DEF SocketInv
<1> QED BY <1>1, <1>2, BufferAssumption DEF Read

\* What is past the handlers are lines.
LEMMA TakenLines ==
  ASSUME TypeOK
  PROVE  /\ Range(redis) \subseteq Line /\ Range(buffer) \subseteq Line
         /\ Held \subseteq Line /\ Taken \subseteq Line
BY DEF TypeOK, Range, Held, Taken

\* What a step that leaves lines past the handlers alone has to keep.
LEMMA FrontStep ==
  ASSUME LineUpInv, CollectorInv', SocketInv',
         Range(redis)' = Range(redis), Held' = Held, Range(buffer)' = Range(buffer),
         redis' = redis, buffer' = buffer, forwarder' = forwarder,
         \A x \in Taken : /\ Read(x[1])' >= Read(x[1])
                          /\ (handler'[x[1]] = "putting" /\ handler[x[1]] # "putting")
                             => Read(x[1])' > Read(x[1])
                          /\ kind'[x] = kind[x],
         \A x \in Taken : \A n \in Fitting(x[1])' : n < x[2] => n \in Fitting(x[1])
  PROVE  PassedInv' /\ OrderInv' /\ (NoGap(Range(redis)))' /\ (Works => NoGap(Taken))'
<1>1. Taken' = Taken
  BY DEF Taken
<1>2. Taken \subseteq Line /\ Range(redis) \subseteq Taken
  BY TakenLines DEF LineUpInv, CollectorInv, Taken
<1>3. PassedInv'
  <2>1. ASSUME NEW x \in Taken
        PROVE  /\ x[2] <= Read(x[1])'
               /\ handler'[x[1]] = "putting" => x[2] < Read(x[1])'
               /\ kind'[x] = "fits"
    <3>1. x[1] \in Clients /\ x[2] \in Int
      BY <1>2, <2>1, LineParts
    <3>2. Read(x[1]) \in Int /\ Read(x[1])' \in Int
      <4>1. Read(x[1]) \in Int
        BY <3>1, SocketSizes DEF LineUpInv, CollectorInv
      <4>2. /\ socket'[x[1]] \in Seq(Line) /\ sent'[x[1]] \in 0..MaxLines
        BY <3>1 DEF CollectorInv, TypeOK
      <4>3. Read(x[1])' \in Int
        BY <4>2, BufferAssumption DEF Read
      <4> QED BY <4>1, <4>3
    <3>3. /\ x[2] <= Read(x[1])
          /\ handler[x[1]] = "putting" => x[2] < Read(x[1])
          /\ kind[x] = "fits"
      BY <2>1 DEF LineUpInv, PassedInv
    <3>4. /\ Read(x[1])' >= Read(x[1])
          /\ (handler'[x[1]] = "putting" /\ handler[x[1]] # "putting")
             => Read(x[1])' > Read(x[1])
          /\ kind'[x] = kind[x]
      BY <2>1
    <3> QED BY <3>1, <3>2, <3>3, <3>4
  <2> QED BY <1>1, <2>1 DEF PassedInv
<1>4. OrderInv'
  BY DEF LineUpInv, OrderInv, InTurn, Ahead
<1>5. (NoGap(Range(redis)))'
  BY <1>2 DEF LineUpInv, GapInv, NoGap
<1>6. (Works => NoGap(Taken))'
  BY <1>1 DEF LineUpInv, GapInv, NoGap, Works
<1> QED BY <1>3, <1>4, <1>5, <1>6

\* A line that a client sends goes to the end of its socket.
LEMMA SendStep ==
  ASSUME LineUpInv, CollectorInv', NEW c \in Clients, NEW k \in LineKind, Send(c, k)
  PROVE  LineUpInv'
<1> DEFINE line == <<c, sent[c] + 1>>
<1>1. /\ sent' = [sent EXCEPT ![c] = sent[c] + 1]
      /\ socket' = [socket EXCEPT ![c] = Append(socket[c], line)]
      /\ kind' = [kind EXCEPT ![line] = k]
      /\ UNCHANGED <<client, handler, inHand, buffer, forwarder, pushing, redis,
                     runtime, faults>>
  BY DEF Send
<1>2. /\ sent[c] \in Nat /\ line \in Line /\ socket[c] \in Seq(Line)
      /\ sent \in [Clients -> 0..MaxLines] /\ socket \in [Clients -> Seq(Line)]
      /\ kind \in [Line -> LineKind]
  BY NextLine, SocketSizes DEF LineUpInv, CollectorInv, TypeOK, Send
<1> HIDE DEF line
<1>3. \A d \in Clients : Read(d)' = Read(d)
  <2>1. Len(Append(socket[c], line)) = Len(socket[c]) + 1 /\ Len(socket[c]) \in Nat
    BY <1>2
  <2>2. Read(c)' = Read(c)
    <3>1. sent'[c] = sent[c] + 1 /\ Len(socket'[c]) = Len(socket[c]) + 1
      BY <1>1, <1>2, <2>1
    <3> QED BY <1>2, <2>1, <3>1 DEF Read
  <2>3. ASSUME NEW d \in Clients, d # c PROVE Read(d)' = Read(d)
    BY <1>1, <1>2, <2>3 DEF Read
  <2> QED BY <2>2, <2>3
<1>4. \A x \in Line : x[2] <= sent[x[1]] => kind'[x] = kind[x]
  <2> SUFFICES ASSUME NEW x \in Line, x[2] <= sent[x[1]]
               PROVE  kind'[x] = kind[x]
    OBVIOUS
  <2>1. x # line
    BY <1>2 DEF line
  <2> QED BY <1>1, <1>2, <2>1
<1>5. \A d \in Clients, n \in Nat :
        n \in Fitting(d)' /\ n <= sent[d] => n \in Fitting(d)
  <2> SUFFICES ASSUME NEW d \in Clients, NEW n \in Nat, n \in Fitting(d)', n <= sent[d]
               PROVE  n \in Fitting(d)
    OBVIOUS
  <2>1. /\ n \in 1..sent'[d] /\ kind'[<<d, n>>] = "fits"
        /\ sent'[d] \in 0..MaxLines /\ sent[d] \in 0..MaxLines
    BY <1>2 DEF Fitting, CollectorInv, TypeOK
  <2>2. n \in 1..sent[d] /\ <<d, n>> \in Line
    BY <2>1, BufferAssumption DEF Line
  <2>3. kind'[<<d, n>>] = kind[<<d, n>>]
    BY <1>4, <2>2
  <2> QED BY <2>1, <2>2, <2>3 DEF Fitting
<1>6. SocketInv'
  <2> SUFFICES ASSUME NEW d \in Clients
               PROVE  /\ Len(socket'[d]) <= sent'[d]
                      /\ \A i \in 1..Len(socket'[d]) : socket'[d][i] = <<d, Read(d) + i>>
                      /\ handler[d] = "putting" =>
                           inHand[d] = <<d, Read(d)>> /\ kind'[<<d, Read(d)>>] = "fits"
    BY <1>1, <1>3 DEF SocketInv
  <2>1. /\ Len(socket[d]) <= sent[d]
        /\ \A i \in 1..Len(socket[d]) : socket[d][i] = <<d, Read(d) + i>>
        /\ handler[d] = "putting" =>
             inHand[d] = <<d, Read(d)>> /\ kind[<<d, Read(d)>>] = "fits"
    BY DEF LineUpInv, SocketInv
  <2>2. handler[d] = "putting" => kind'[<<d, Read(d)>>] = "fits"
    <3>1. handler[d] = "putting" => <<d, Read(d)>> \in Line
      BY <2>1 DEF LineUpInv, CollectorInv, HoldsEvent
    <3>2. Read(d) <= sent[d]
      BY SocketSizes DEF LineUpInv, CollectorInv
    <3> QED BY <1>4, <2>1, <3>1, <3>2
  <2>3. CASE d # c
    BY <1>1, <1>2, <2>1, <2>2, <2>3
  <2>4. CASE d = c
    <3>1. /\ socket'[c] = Append(socket[c], line) /\ sent'[c] = sent[c] + 1
          /\ Len(socket'[c]) = Len(socket[c]) + 1 /\ Len(socket[c]) \in Nat
      BY <1>1, <1>2
    <3>2. \A i \in 1..Len(socket[c]) : socket'[c][i] = socket[c][i]
      BY <1>2, <3>1
    <3>3. socket'[c][Len(socket[c]) + 1] = <<c, Read(c) + (Len(socket[c]) + 1)>>
      <4>1. Read(c) + (Len(socket[c]) + 1) = sent[c] + 1
        BY <1>2, <3>1 DEF Read
      <4> QED BY <1>2, <3>1, <4>1 DEF line
    <3>4. ASSUME NEW i \in 1..Len(socket'[c])
          PROVE  socket'[c][i] = <<c, Read(c) + i>>
      <4>1. i \in 1..Len(socket[c]) \/ i = Len(socket[c]) + 1
        BY <3>1
      <4> QED BY <2>1, <2>4, <3>2, <3>3, <4>1
    <3>5. Len(socket'[c]) <= sent'[c]
      BY <1>2, <2>1, <2>4, <3>1
    <3> QED BY <2>1, <2>2, <2>4, <3>4, <3>5
  <2> QED BY <2>3, <2>4
<1>7. \A x \in Taken : x \in Line /\ x[1] \in Clients /\ x[2] \in Int /\ x[2] <= sent[x[1]]
  <2> SUFFICES ASSUME NEW x \in Taken
               PROVE  x \in Line /\ x[1] \in Clients /\ x[2] \in Int /\ x[2] <= sent[x[1]]
    OBVIOUS
  <2>1. x \in Line
    BY TakenLines DEF LineUpInv, CollectorInv
  <2>2. x[1] \in Clients /\ x[2] \in Int
    BY <2>1, LineParts
  <2>3. x[2] <= Read(x[1]) /\ Read(x[1]) <= sent[x[1]] /\ Read(x[1]) \in Nat
        /\ sent[x[1]] \in Nat
    BY <2>2, SocketSizes DEF LineUpInv, CollectorInv, PassedInv
  <2> QED BY <2>1, <2>2, <2>3
<1>8. PassedInv' /\ OrderInv' /\ (NoGap(Range(redis)))' /\ (Works => NoGap(Taken))'
  <2>1. \A x \in Taken : Read(x[1])' >= Read(x[1])
    <3>1. \A d \in Clients : Read(d) \in Int
      BY SocketSizes DEF LineUpInv, CollectorInv
    <3> QED BY <1>3, <1>7, <3>1
  <2>2. \A x \in Taken : \A n \in Fitting(x[1])' : n < x[2] => n \in Fitting(x[1])
    <3> SUFFICES ASSUME NEW x \in Taken, NEW n \in Fitting(x[1])', n < x[2]
                 PROVE  n \in Fitting(x[1])
      OBVIOUS
    <3>1. n \in Nat
      BY DEF Fitting
    <3>2. sent[x[1]] \in Nat /\ x[1] \in Clients /\ x[2] \in Int /\ x[2] <= sent[x[1]]
      BY <1>7, SocketSizes DEF LineUpInv, CollectorInv
    <3>3. n <= sent[x[1]]
      BY <3>1, <3>2
    <3> QED BY <1>5, <3>1, <3>2, <3>3
  <2>3. /\ Range(redis)' = Range(redis) /\ Held' = Held /\ Range(buffer)' = Range(buffer)
        /\ handler' = handler
    BY <1>1 DEF Held
  <2> QED BY <1>1, <1>4, <1>6, <1>7, <2>1, <2>2, <2>3, FrontStep
<1>9. (Works => NoneMissing)'
  <2>1. Taken' = Taken /\ handler' = handler /\ inHand' = inHand /\ Works' = Works
    BY <1>1 DEF Taken, Held, Works
  <2>2. ASSUME Works, NEW d \in Clients, handler[d] # "closed", NEW n \in Fitting(d)',
               n <= Read(d)
        PROVE  <<d, n>> \in Taken \/ inHand[d] = <<d, n>>
    <3>1. n \in Nat /\ Read(d) \in Nat /\ Read(d) <= sent[d] /\ sent[d] \in Nat
      BY SocketSizes DEF LineUpInv, CollectorInv, Fitting
    <3>2. n \in Fitting(d)
      BY <1>5, <2>2, <3>1
    <3> QED BY <2>2, <3>2 DEF LineUpInv, GapInv, NoneMissing
  <2> QED BY <1>3, <2>1, <2>2 DEF NoneMissing
<1>10. HandsInv'
  BY <1>1 DEF LineUpInv, HandsInv, Works
<1> QED BY <1>6, <1>8, <1>9, <1>10 DEF LineUpInv, GapInv

\* A step that leaves lines, sockets and hands alone.
LEMMA IdleStep ==
  ASSUME LineUpInv, CollectorInv', HandsInv',
         UNCHANGED <<sent, kind, socket, inHand, buffer, pushing, redis>>,
         forwarder' = forwarder,
         \A c \in Clients : handler'[c] # handler[c] => handler'[c] = "reading"
                                                        /\ handler[c] = "none"
  PROVE  LineUpInv'
<1>1. /\ Taken' = Taken /\ Held' = Held /\ Works' = Works
      /\ \A c : Read(c)' = Read(c)
      /\ \A c : Fitting(c)' = Fitting(c)
  BY DEF Taken, Held, Works, Read, Fitting
<1>2. SocketInv'
  BY DEF LineUpInv, SocketInv, Read
<1>3. PassedInv' /\ OrderInv' /\ (NoGap(Range(redis)))' /\ (Works => NoGap(Taken))'
  <2>1. \A x \in Taken : x[1] \in Clients /\ Read(x[1]) \in Int
    <3> SUFFICES ASSUME NEW x \in Taken
                 PROVE  x[1] \in Clients /\ Read(x[1]) \in Int
      OBVIOUS
    <3>1. x[1] \in Clients
      BY TakenLines, LineParts DEF LineUpInv, CollectorInv
    <3> QED BY <3>1, SocketSizes DEF LineUpInv, CollectorInv
  <2> QED BY <1>1, <1>2, <2>1, FrontStep
<1>4. (Works => NoneMissing)'
  BY <1>1 DEF LineUpInv, GapInv, NoneMissing
<1> QED BY <1>2, <1>3, <1>4 DEF LineUpInv, GapInv

\* A handler takes the next line of its socket, or gives up all that is left.
LEMMA ReadStep ==
  ASSUME LineUpInv, CollectorInv', NEW c \in Clients, ReadLine(c) \/ ReadEnd(c)
  PROVE  LineUpInv'
<1>1. /\ UNCHANGED <<sent, kind, buffer, pushing, redis, forwarder, runtime>>
      /\ handler[c] = "reading"
      /\ \/ /\ handler' = [handler EXCEPT ![c] = "closed"]
            /\ socket' = [socket EXCEPT ![c] = <<>>]
            /\ inHand' = inHand
         \/ /\ socket[c] # <<>>
            /\ socket' = [socket EXCEPT ![c] = Tail(socket[c])]
            /\ \/ handler' = handler /\ inHand' = inHand
                  /\ kind[Head(socket[c])] = "skipped"
               \/ /\ handler' = [handler EXCEPT ![c] = "putting"]
                  /\ inHand' = [inHand EXCEPT ![c] = Head(socket[c])]
                  /\ kind[Head(socket[c])] = "fits"
  BY DEF ReadLine, ReadEnd, clientVars
<1>2. /\ sent[c] \in Nat /\ socket[c] \in Seq(Line) /\ Read(c) \in Nat /\ Read(c) <= sent[c]
      /\ socket \in [Clients -> Seq(Line)]
      /\ handler \in [Clients -> {"none", "reading", "putting", "closed"}]
      /\ inHand \in [Clients -> Line \cup {Nothing}]
  BY SocketSizes DEF LineUpInv, CollectorInv, TypeOK
<1>3. \A d \in Clients : d # c =>
        /\ Read(d)' = Read(d) /\ socket'[d] = socket[d] /\ handler'[d] = handler[d]
        /\ inHand'[d] = inHand[d]
  BY <1>1, <1>2 DEF Read
<1>4. /\ Taken' = Taken /\ Held' = Held /\ Works' = Works
      /\ \A d : Fitting(d)' = Fitting(d)
  BY <1>1 DEF Taken, Held, Works, Fitting
<1>5. CASE /\ handler'[c] = "closed" /\ socket'[c] = <<>> /\ inHand' = inHand
  <2>1. Read(c)' = sent[c]
    BY <1>1, <1>2, <1>5 DEF Read
  <2>2. SocketInv'
    <3> SUFFICES ASSUME NEW d \in Clients
                 PROVE  (/\ Len(socket[d]) <= sent[d]
                         /\ \A i \in 1..Len(socket[d]) : socket[d][i] = <<d, Read(d) + i>>
                         /\ handler[d] = "putting" =>
                              inHand[d] = <<d, Read(d)>> /\ kind[<<d, Read(d)>>] = "fits")'
      BY DEF SocketInv
    <3>1. CASE d = c
      BY <1>1, <1>2, <1>5, <2>1, <3>1
    <3>2. CASE d # c
      BY <1>1, <1>3, <3>2 DEF LineUpInv, SocketInv
    <3> QED BY <3>1, <3>2
  <2>3. \A x \in Taken : /\ Read(x[1])' >= Read(x[1])
                         /\ (handler'[x[1]] = "putting" => handler[x[1]] = "putting")
    <3> SUFFICES ASSUME NEW x \in Taken
                 PROVE  /\ Read(x[1])' >= Read(x[1])
                        /\ (handler'[x[1]] = "putting" => handler[x[1]] = "putting")
      OBVIOUS
    <3>1. x[1] \in Clients
      BY TakenLines, LineParts DEF LineUpInv, CollectorInv
    <3>2. Read(x[1]) \in Int
      BY <3>1, SocketSizes DEF LineUpInv, CollectorInv
    <3> QED BY <1>2, <1>3, <1>5, <2>1, <3>1, <3>2
  <2>4. PassedInv' /\ OrderInv' /\ (NoGap(Range(redis)))' /\ (Works => NoGap(Taken))'
    BY <1>1, <1>4, <2>2, <2>3, FrontStep
  <2>5. (Works => NoneMissing)'
    <3>1. \A d \in Clients : handler'[d] # "closed" =>
            d # c /\ handler[d] # "closed"
      BY <1>3, <1>5
    <3> QED BY <1>3, <1>4, <1>5, <3>1 DEF LineUpInv, GapInv, NoneMissing
  <2>6. HandsInv'
    <3>1. inHand[c] = Nothing
      BY <1>1 DEF LineUpInv, HandsInv
    <3>2. \A d \in Clients : handler'[d] # "putting" => inHand'[d] = Nothing
      BY <1>3, <1>5, <3>1 DEF LineUpInv, HandsInv
    <3> QED BY <1>1, <1>4, <3>2 DEF LineUpInv, HandsInv
  <2> QED BY <2>2, <2>4, <2>5, <2>6 DEF LineUpInv, GapInv
<1>6. CASE /\ socket[c] # <<>>
           /\ socket' = [socket EXCEPT ![c] = Tail(socket[c])]
           /\ \/ handler' = handler /\ inHand' = inHand
                 /\ kind[Head(socket[c])] = "skipped"
              \/ /\ handler' = [handler EXCEPT ![c] = "putting"]
                 /\ inHand' = [inHand EXCEPT ![c] = Head(socket[c])]
                 /\ kind[Head(socket[c])] = "fits"
  <2> DEFINE rest == Tail(socket[c])
  <2>1. /\ socket'[c] = rest /\ Len(socket[c]) \in Nat /\ Len(socket[c]) >= 1
        /\ Len(rest) = Len(socket[c]) - 1
        /\ \A i \in 1..Len(rest) : rest[i] = socket[c][i + 1]
        /\ Head(socket[c]) = socket[c][1]
    BY <1>2, <1>6
  <2> HIDE DEF rest
  <2>2. Read(c)' = Read(c) + 1
    BY <1>1, <1>2, <2>1 DEF Read
  <2>3. Head(socket[c]) = <<c, Read(c) + 1>>
    <3>1. 1 \in 1..Len(socket[c])
      BY <2>1
    <3> QED BY <2>1, <3>1 DEF LineUpInv, SocketInv
  <2>4. SocketInv'
    <3> SUFFICES ASSUME NEW d \in Clients
                 PROVE  (/\ Len(socket[d]) <= sent[d]
                         /\ \A i \in 1..Len(socket[d]) : socket[d][i] = <<d, Read(d) + i>>
                         /\ handler[d] = "putting" =>
                              inHand[d] = <<d, Read(d)>> /\ kind[<<d, Read(d)>>] = "fits")'
      BY DEF SocketInv
    <3>1. CASE d = c
      <4>1. Len(socket'[c]) <= sent'[c]
        <5>1. Len(socket[c]) <= sent[c]
          BY DEF LineUpInv, SocketInv
        <5> QED BY <1>1, <1>2, <2>1, <5>1
      <4>2. ASSUME NEW i \in 1..Len(rest)
            PROVE  rest[i] = <<c, Read(c) + 1 + i>>
        <5>1. i + 1 \in 1..Len(socket[c])
          BY <2>1
        <5>2. socket[c][i + 1] = <<c, Read(c) + (i + 1)>>
          BY <5>1 DEF LineUpInv, SocketInv
        <5>3. Read(c) + (i + 1) = Read(c) + 1 + i
          BY <1>2
        <5> QED BY <2>1, <5>2, <5>3
      <4>3. handler'[c] = "putting" =>
              inHand'[c] = <<c, Read(c) + 1>> /\ kind[<<c, Read(c) + 1>>] = "fits"
        <5>1. handler'[c] = "putting" =>
                inHand' = [inHand EXCEPT ![c] = Head(socket[c])]
                /\ kind[Head(socket[c])] = "fits"
          BY <1>1, <1>6
        <5> QED BY <1>2, <2>3, <5>1
      <4> QED BY <1>1, <2>1, <2>2, <3>1, <4>1, <4>2, <4>3
    <3>2. CASE d # c
      BY <1>1, <1>3, <3>2 DEF LineUpInv, SocketInv
    <3> QED BY <3>1, <3>2
  <2>5. \A x \in Taken : /\ Read(x[1])' >= Read(x[1])
                         /\ (handler'[x[1]] = "putting" /\ handler[x[1]] # "putting")
                            => Read(x[1])' > Read(x[1])
    <3> SUFFICES ASSUME NEW x \in Taken
                 PROVE  /\ Read(x[1])' >= Read(x[1])
                        /\ (handler'[x[1]] = "putting" /\ handler[x[1]] # "putting")
                           => Read(x[1])' > Read(x[1])
      OBVIOUS
    <3>1. x[1] \in Clients
      BY TakenLines, LineParts DEF LineUpInv, CollectorInv
    <3>2. Read(x[1]) \in Int
      BY <3>1, SocketSizes DEF LineUpInv, CollectorInv
    <3> QED BY <1>2, <1>3, <2>2, <3>1, <3>2
  <2>6. PassedInv' /\ OrderInv' /\ (NoGap(Range(redis)))' /\ (Works => NoGap(Taken))'
    BY <1>1, <1>4, <2>4, <2>5, FrontStep
  <2>7. (Works => NoneMissing)'
    <3> SUFFICES ASSUME Works, NEW d \in Clients, handler'[d] # "closed",
                        NEW n \in Fitting(d), n <= Read(d)'
                 PROVE  <<d, n>> \in Taken \/ inHand'[d] = <<d, n>>
      BY <1>4 DEF NoneMissing
    <3>1. CASE d # c
      BY <1>3, <3>1 DEF LineUpInv, GapInv, NoneMissing
    <3>2. CASE d = c
      <4>1. inHand[c] = Nothing /\ <<c, n>> # Nothing
        <5>1. <<c, n>> \in Line
          BY <1>2, BufferAssumption, <3>2, SocketSizes DEF Line, Fitting, LineUpInv, CollectorInv
        <5> QED BY <1>1, <5>1, NothingAssumption DEF LineUpInv, HandsInv
      <4>2. n \in Nat /\ (n <= Read(c) \/ n = Read(c) + 1)
        BY <1>2, <2>2, <3>2 DEF Fitting
      <4>3. CASE n <= Read(c)
        BY <1>1, <3>2, <4>1, <4>3 DEF LineUpInv, GapInv, NoneMissing
      <4>4. CASE n = Read(c) + 1
        <5>1. kind[<<c, n>>] = "fits"
          BY <3>2 DEF Fitting
        <5>2. inHand' = [inHand EXCEPT ![c] = Head(socket[c])]
          BY <1>6, <2>3, <4>4, <5>1
        <5> QED BY <1>2, <2>3, <3>2, <4>4, <5>2
      <4> QED BY <4>2, <4>3, <4>4
    <3> QED BY <3>1, <3>2
  <2>8. HandsInv'
    <3>1. \A d \in Clients : handler'[d] # "putting" => inHand'[d] = Nothing
      BY <1>2, <1>6 DEF LineUpInv, HandsInv
    <3> QED BY <1>1, <1>4, <3>1 DEF LineUpInv, HandsInv
  <2> QED BY <2>4, <2>6, <2>7, <2>8 DEF LineUpInv, GapInv
<1> QED BY <1>1, <1>2, <1>5, <1>6

\* A handler puts its event at the end of the buffer.
LEMMA BufferStep ==
  ASSUME LineUpInv, CollectorInv', NEW c \in Clients, Buffer(c)
  PROVE  LineUpInv'
<1> DEFINE line == inHand[c]
<1>1. /\ UNCHANGED <<sent, kind, socket, forwarder, pushing, redis, runtime>>
      /\ handler[c] = "putting"
      /\ buffer' = Append(buffer, line)
      /\ handler' = [handler EXCEPT ![c] = "reading"]
      /\ inHand' = [inHand EXCEPT ![c] = Nothing]
  BY DEF Buffer, clientVars
<1>2. /\ line \in Line /\ buffer \in Seq(Line) /\ Read(c) \in Nat
      /\ line = <<c, Read(c)>> /\ kind[line] = "fits"
      /\ handler \in [Clients -> {"none", "reading", "putting", "closed"}]
      /\ inHand \in [Clients -> Line \cup {Nothing}]
  BY <1>1, SocketSizes DEF LineUpInv, CollectorInv, TypeOK, HoldsEvent, SocketInv
<1> HIDE DEF line
<1>3. /\ Range(buffer)' = Range(buffer) \cup {line}
      /\ Taken' = Taken \cup {line} /\ Held' = Held /\ Range(redis)' = Range(redis)
      /\ Works' = Works
      /\ \A d : Read(d)' = Read(d) /\ Fitting(d)' = Fitting(d)
  <2>1. Range(buffer') = Range(buffer) \cup {line}
    BY <1>1, <1>2, AppendInTurn
  <2> QED BY <1>1, <2>1 DEF Taken, Held, Works, Read, Fitting
<1>4. \A x \in Taken : Ahead(x, line)
  BY <1>1, <1>2 DEF LineUpInv, PassedInv, Ahead
<1>5. SocketInv'
  BY <1>1, <1>2, <1>3 DEF LineUpInv, SocketInv
<1>6. PassedInv'
  <2>1. ASSUME NEW x \in Taken
        PROVE  /\ x[2] <= Read(x[1])
               /\ handler'[x[1]] = "putting" => x[2] < Read(x[1])
               /\ kind[x] = "fits"
    <3>1. x[1] \in Clients
      BY TakenLines, LineParts DEF LineUpInv, CollectorInv
    <3>2. handler'[x[1]] = "putting" => handler[x[1]] = "putting"
      BY <1>1, <1>2, <3>1
    <3> QED BY <3>2 DEF LineUpInv, PassedInv
  <2>2. /\ line[2] <= Read(line[1])
        /\ handler'[line[1]] # "putting"
        /\ kind[line] = "fits"
    BY <1>1, <1>2
  <2> QED BY <1>1, <1>3, <2>1, <2>2 DEF PassedInv
<1>7. OrderInv'
  <2>1. InTurn(buffer')
    <3>1. \A y \in Range(buffer) : Ahead(y, line)
      BY <1>4 DEF Taken
    <3> QED BY <1>1, <1>2, <3>1, AppendInTurn DEF LineUpInv, OrderInv
  <2>2. /\ \A x \in Range(redis), y \in Held \cup Range(buffer) \cup {line} : Ahead(x, y)
        /\ \A x \in Held, y \in Range(buffer) \cup {line} : Ahead(x, y)
    BY <1>4 DEF LineUpInv, OrderInv, Taken
  <2>3. InTurn(redis')
    BY <1>1 DEF LineUpInv, OrderInv
  <2> QED BY <1>1, <1>3, <2>1, <2>2, <2>3 DEF OrderInv, Ahead
<1>8. GapInv'
  <2>1. (NoGap(Range(redis)))'
    BY <1>3 DEF LineUpInv, GapInv, NoGap
  <2>2. (Works => NoGap(Taken))'
    <3>1. ASSUME Works, NEW x \in Taken \cup {line}, NEW n \in Fitting(x[1]), n < x[2]
          PROVE  <<x[1], n>> \in Taken \cup {line}
      <4>1. CASE x \in Taken
        BY <3>1, <4>1 DEF LineUpInv, GapInv, NoGap
      <4>2. CASE x = line
        <5>1. x[1] = c /\ x[2] = Read(c) /\ n \in Nat /\ n < Read(c)
          BY <1>2, <3>1, <4>2 DEF Fitting
        <5>2. inHand[c] # <<c, n>>
          BY <1>2, <5>1 DEF line
        <5> QED BY <1>1, <1>2, <3>1, <5>1, <5>2 DEF LineUpInv, GapInv, NoneMissing
      <4> QED BY <4>1, <4>2
    <3> QED BY <1>3, <3>1 DEF NoGap
  <2>3. (Works => NoneMissing)'
    <3>1. ASSUME Works, NEW d \in Clients, handler'[d] # "closed", NEW n \in Fitting(d),
                 n <= Read(d)
          PROVE  <<d, n>> \in Taken \cup {line} \/ inHand'[d] = <<d, n>>
      <4>1. handler[d] # "closed"
        BY <1>1, <1>2, <3>1
      <4>2. <<d, n>> \in Taken \/ inHand[d] = <<d, n>>
        BY <3>1, <4>1 DEF LineUpInv, GapInv, NoneMissing
      <4> QED BY <1>1, <1>2, <4>2 DEF line
    <3> QED BY <1>3, <3>1 DEF NoneMissing
  <2> QED BY <2>1, <2>2, <2>3 DEF GapInv
<1>9. HandsInv'
  BY <1>1, <1>2, <1>3 DEF LineUpInv, HandsInv
<1> QED BY <1>5, <1>6, <1>7, <1>8, <1>9 DEF LineUpInv

\* A step past the handlers that loses no line while the forwarder works.
LEMMA BackStep ==
  ASSUME LineUpInv, CollectorInv', HandsInv', OrderInv', (NoGap(Range(redis)))',
         UNCHANGED <<sent, kind, socket, handler, inHand>>,
         Taken' \subseteq Taken, Works' => (Works /\ Taken' = Taken)
  PROVE  LineUpInv'
<1>1. \A d : Read(d)' = Read(d) /\ Fitting(d)' = Fitting(d)
  BY DEF Read, Fitting
<1>2. SocketInv' /\ PassedInv'
  BY <1>1 DEF LineUpInv, SocketInv, PassedInv
<1>3. (Works => NoGap(Taken))' /\ (Works => NoneMissing)'
  BY <1>1 DEF LineUpInv, GapInv, NoGap, NoneMissing
<1> QED BY <1>2, <1>3 DEF LineUpInv, GapInv

\* The forwarder takes the first event of the buffer.
LEMMA TakeStep ==
  ASSUME LineUpInv, CollectorInv', Take
  PROVE  LineUpInv'
<1>1. /\ buffer \in Seq(Line) /\ buffer # <<>> /\ forwarder = "getting"
      /\ pushing' = Head(buffer) /\ buffer' = Tail(buffer) /\ forwarder' = "pushing"
      /\ UNCHANGED <<sent, kind, socket, handler, inHand, redis, runtime>>
  BY DEF Take, clientVars, LineUpInv, CollectorInv, TypeOK
<1>2. /\ Head(buffer) \in Line
      /\ Range(buffer) = {Head(buffer)} \cup Range(buffer)'
      /\ InTurn(buffer) => /\ InTurn(buffer')
                           /\ \A y \in Range(buffer') : Ahead(Head(buffer), y)
  BY <1>1, HeadInTurn
<1>3. Held = {} /\ Held' = {Head(buffer)} /\ Range(redis)' = Range(redis)
  BY <1>1, <1>2, NothingAssumption DEF LineUpInv, HandsInv, Held
<1>4. Taken' = Taken /\ Works /\ Works'
  BY <1>1, <1>2, <1>3 DEF Taken, Works
<1>5. OrderInv'
  BY <1>1, <1>2, <1>3 DEF LineUpInv, OrderInv, InTurn, Ahead
<1>6. (NoGap(Range(redis)))'
  BY <1>1, <1>3 DEF LineUpInv, GapInv, NoGap, Fitting
<1>7. HandsInv'
  BY <1>1, <1>4 DEF LineUpInv, HandsInv, Works
<1> QED BY <1>1, <1>4, <1>5, <1>6, <1>7, BackStep

\* The line in hand reaches Redis: no line of its client is missing before it.
LEMMA Landing ==
  ASSUME LineUpInv, forwarder = "pushing", redis' = Append(redis, pushing),
         pushing' = Nothing,
         UNCHANGED <<sent, kind, socket, handler, inHand, buffer>>
  PROVE  OrderInv' /\ (NoGap(Range(redis)))' /\ Taken' = Taken
<1>1. /\ pushing \in Line /\ redis \in Seq(Line) /\ Held = {pushing} /\ Held' = {}
  BY NothingAssumption DEF LineUpInv, CollectorInv, TypeOK, HoldsEvent, Held
<1>2. /\ Range(redis)' = Range(redis) \cup {pushing}
      /\ InTurn(redis')
  <2>1. \A y \in Range(redis) : Ahead(y, pushing)
    BY <1>1 DEF LineUpInv, OrderInv
  <2> QED BY <1>1, <2>1, AppendInTurn DEF LineUpInv, OrderInv
<1>3. Taken' = Taken
  BY <1>1, <1>2 DEF Taken
<1>4. OrderInv'
  <2>1. /\ InTurn(buffer')
        /\ \A x \in Range(redis) \cup {pushing}, y \in Range(buffer) : Ahead(x, y)
    BY <1>1 DEF LineUpInv, OrderInv
  <2> QED BY <1>1, <1>2, <2>1 DEF OrderInv, Ahead
<1>5. (NoGap(Range(redis)))'
  <2>1. \A d : Fitting(d)' = Fitting(d)
    BY DEF Fitting
  <2>2. ASSUME NEW x \in Range(redis) \cup {pushing}, NEW n \in Fitting(x[1]), n < x[2]
        PROVE  <<x[1], n>> \in Range(redis) \cup {pushing}
    <3>1. CASE x \in Range(redis)
      BY <2>2, <3>1 DEF LineUpInv, GapInv, NoGap
    <3>2. CASE x = pushing
      <4>1. <<x[1], n>> \in Taken
        BY <1>1, <2>2, <3>2 DEF LineUpInv, GapInv, NoGap, Works, Taken
      <4>2. <<x[1], n>> \notin Range(buffer)
        <5>1. ~Ahead(pushing, <<x[1], n>>)
          <6>1. n \in Int /\ x[2] \in Int
            BY <1>1, <3>2, LineParts DEF Fitting
          <6> QED BY <2>2, <3>2, <6>1 DEF Ahead
        <5> QED BY <1>1, <5>1 DEF LineUpInv, OrderInv
      <4> QED BY <1>1, <4>1, <4>2 DEF Taken
    <3> QED BY <3>1, <3>2
  <2> QED BY <1>2, <2>1, <2>2 DEF NoGap
<1> QED BY <1>3, <1>4, <1>5

\* A push that Redis answers.
LEMMA PushStep ==
  ASSUME LineUpInv, CollectorInv', Push
  PROVE  LineUpInv'
<1>1. /\ forwarder = "pushing" /\ redis' = Append(redis, pushing)
      /\ pushing' = Nothing /\ forwarder' = "getting"
      /\ UNCHANGED <<sent, kind, socket, handler, inHand, buffer, runtime>>
  BY DEF Push, clientVars
<1>2. OrderInv' /\ (NoGap(Range(redis)))' /\ Taken' = Taken
  BY <1>1, Landing
<1>3. HandsInv' /\ Works /\ Works'
  BY <1>1 DEF LineUpInv, HandsInv, Works
<1> QED BY <1>1, <1>2, <1>3, BackStep

\* A push that fails, or one that Redis may not receive: the line in hand is lost.
LEMMA DropStep ==
  ASSUME LineUpInv, CollectorInv', HandsInv', ~Works', pushing' = Nothing,
         UNCHANGED <<sent, kind, socket, handler, inHand, buffer, redis>>
  PROVE  LineUpInv'
<1>1. /\ Held' = {} /\ Range(redis)' = Range(redis) /\ Range(buffer)' = Range(buffer)
  BY NothingAssumption DEF Held
<1>2. Taken' \subseteq Taken
  BY <1>1 DEF Taken
<1>3. OrderInv'
  BY <1>1 DEF LineUpInv, OrderInv, InTurn, Ahead
<1>4. (NoGap(Range(redis)))'
  BY <1>1 DEF LineUpInv, GapInv, NoGap, Fitting
<1> QED BY <1>2, <1>3, <1>4, BackStep

\* The end of the forwarder.
LEMMA StopStep ==
  ASSUME LineUpInv, CollectorInv', PushFails \/ CancelForwarder
  PROVE  LineUpInv'
<1>1. /\ pushing' = Nothing /\ forwarder' \in {"failed", "cancelled"}
      /\ UNCHANGED <<sent, kind, socket, handler, inHand, buffer>>
      /\ \/ redis' = redis
         \/ forwarder = "pushing" /\ redis' = Append(redis, pushing)
  BY DEF PushFails, CancelForwarder, clientVars
<1>2. HandsInv' /\ ~Works'
  BY <1>1 DEF LineUpInv, HandsInv, Works
<1>3. CASE redis' = redis
  BY <1>1, <1>2, <1>3, DropStep
<1>4. CASE forwarder = "pushing" /\ redis' = Append(redis, pushing)
  <2>1. OrderInv' /\ (NoGap(Range(redis)))' /\ Taken' = Taken
    BY <1>1, <1>4, Landing
  <2> QED BY <1>1, <1>2, <2>1, BackStep
<1> QED BY <1>1, <1>3, <1>4

\* The close that finds no connection: what handlers and sockets hold is gone,
\* and no forwarder is left.
LEMMA FinishStep ==
  ASSUME LineUpInv, CollectorInv', FinishClose
  PROVE  LineUpInv'
<1>1. /\ runtime = "waiting" /\ runtime' = "closed"
      /\ handler' = [c \in Clients |-> IF handler[c] = "none" THEN "none" ELSE "closed"]
      /\ socket' = [c \in Clients |-> <<>>]
      /\ inHand' = [c \in Clients |-> Nothing]
      /\ UNCHANGED <<sent, kind, buffer, forwarder, pushing, redis>>
  BY DEF FinishClose, clientVars
<1>2. ~Works /\ ~Works'
  BY <1>1 DEF LineUpInv, HandsInv, Works
<1>3. HandsInv'
  BY <1>1, <1>2 DEF LineUpInv, HandsInv
<1>4. \A c \in Clients : Read(c)' = sent[c] /\ Read(c) <= sent[c] /\ Read(c) \in Int
                         /\ sent[c] \in Int
  BY <1>1, SocketSizes DEF LineUpInv, CollectorInv, Read
<1>5. SocketInv'
  <2>1. ASSUME NEW c \in Clients
        PROVE  /\ Len(socket'[c]) = 0 /\ sent'[c] \in Nat
               /\ handler'[c] # "putting"
    BY <1>1 DEF CollectorInv, TypeOK
  <2> QED BY <2>1 DEF SocketInv
<1>6. \A x \in Taken : x[1] \in Clients
  BY TakenLines, LineParts DEF LineUpInv, CollectorInv
<1>7. /\ Held' = Held /\ Range(redis)' = Range(redis) /\ Range(buffer)' = Range(buffer)
      /\ \A d : Fitting(d)' = Fitting(d)
  BY <1>1 DEF Held, Fitting
<1>8. PassedInv' /\ OrderInv' /\ (NoGap(Range(redis)))' /\ (Works => NoGap(Taken))'
  <2>1. \A x \in Taken : Read(x[1])' >= Read(x[1]) /\ handler'[x[1]] # "putting"
    BY <1>1, <1>4, <1>6
  <2> QED BY <1>1, <1>5, <1>7, <2>1, FrontStep
<1> QED BY <1>2, <1>3, <1>5, <1>8 DEF LineUpInv, GapInv

\* A handler comes with a connection.
LEMMA AwayStep ==
  ASSUME CollectorInv, AwayInv, [Next]_vars
  PROVE  AwayInv'
<1>1. /\ client \in [Clients -> {"away", "connected", "gone", "reset"}]
      /\ handler \in [Clients -> {"none", "reading", "putting", "closed"}]
  BY DEF CollectorInv, TypeOK
<1>2. ASSUME NEW c \in Clients,
             \/ Connect(c)
             \/ \E how \in {"gone", "reset"} : Disconnect(c, how)
      PROVE  AwayInv'
  BY <1>1, <1>2 DEF AwayInv, Connect, Disconnect
<1>3. ASSUME NEW c \in Clients, ReadLine(c) \/ ReadEnd(c) \/ Buffer(c)
      PROVE  AwayInv'
  <2>1. /\ client' = client /\ handler[c] \in {"reading", "putting"}
        /\ \A d \in Clients : d # c => handler'[d] = handler[d]
    BY <1>1, <1>3 DEF ReadLine, ReadEnd, Buffer, clientVars
  <2> QED BY <2>1 DEF AwayInv
<1>4. CASE FinishClose
  BY <1>1, <1>4 DEF AwayInv, FinishClose, clientVars
<1>5. CASE client' = client /\ handler' = handler
  BY <1>5 DEF AwayInv
<1>6. ASSUME NEW c \in Clients, NEW k \in LineKind, Send(c, k)
      PROVE  client' = client /\ handler' = handler
  BY <1>6 DEF Send
<1>7. (UNCHANGED vars \/ Take \/ Push \/ PushFails \/ RequestStop \/ CancelForwarder
       \/ CloseServer) => (client' = client /\ handler' = handler)
  BY DEF vars, clientVars, Take, Push, PushFails, RequestStop, CancelForwarder, CloseServer
<1> QED BY <1>2, <1>3, <1>4, <1>5, <1>6, <1>7 DEF Next, Process

\* Every step keeps the line-up.
LEMMA LineUpStep ==
  ASSUME LineUpInv, AwayInv, [Next]_vars
  PROVE  LineUpInv'
<1>1. CollectorInv'
  BY CollectorStep DEF LineUpInv
<1>2. CASE UNCHANGED vars \/ RequestStop \/ CloseServer
  <2>1. UNCHANGED <<sent, kind, socket, inHand, buffer, pushing, redis, forwarder, handler>>
    BY <1>2 DEF vars, clientVars, RequestStop, CloseServer
  <2>2. HandsInv'
    BY <1>2, <2>1 DEF LineUpInv, HandsInv, Works, vars, RequestStop, CloseServer
  <2> QED BY <1>1, <2>1, <2>2, IdleStep
<1>3. ASSUME NEW c \in Clients, Connect(c)
      PROVE  LineUpInv'
  <2>1. UNCHANGED <<sent, kind, socket, inHand, buffer, pushing, redis, forwarder, runtime>>
    BY <1>3 DEF Connect
  <2>2. handler' = [handler EXCEPT ![c] = "reading"] /\ handler[c] = "none"
    BY <1>3 DEF Connect, AwayInv
  <2>3. \A d \in Clients :
          handler'[d] # handler[d] => handler'[d] = "reading" /\ handler[d] = "none"
    BY <2>2 DEF LineUpInv, CollectorInv, TypeOK
  <2>4. HandsInv'
    <3>1. \A d \in Clients : handler'[d] # "putting" => inHand'[d] = Nothing
      BY <2>1, <2>3 DEF LineUpInv, HandsInv
    <3> QED BY <2>1, <3>1 DEF LineUpInv, HandsInv, Works
  <2> QED BY <1>1, <2>1, <2>3, <2>4, IdleStep
<1>4. ASSUME NEW c \in Clients, NEW how \in {"gone", "reset"}, Disconnect(c, how)
      PROVE  LineUpInv'
  <2>1. UNCHANGED <<sent, kind, socket, inHand, buffer, pushing, redis, forwarder,
                    runtime, handler>>
    BY <1>4 DEF Disconnect
  <2>2. HandsInv'
    BY <2>1 DEF LineUpInv, HandsInv, Works
  <2> QED BY <1>1, <2>1, <2>2, IdleStep
<1> QED
  BY <1>1, <1>2, <1>3, <1>4, SendStep, ReadStep, BufferStep, TakeStep, PushStep,
     StopStep, FinishStep
  DEF Next, Process

\* The parts of a client's pipeline, in order, make one sequence in order.
LEMMA PipelineInTurn ==
  ASSUME LineUpInv, NEW c \in Clients, handler[c] # "closed"
  PROVE  /\ InTurn(Pipeline(c))
         /\ Range(Pipeline(c)) = Taken \cup ({inHand[c]} \cap Line) \cup Range(socket[c])
<1> DEFINE hand == OneOrNone(inHand[c])
           push == OneOrNone(pushing)
<1>1. /\ redis \in Seq(Line) /\ buffer \in Seq(Line) /\ socket[c] \in Seq(Line)
      /\ pushing \in Line \cup {Nothing} /\ inHand[c] \in Line \cup {Nothing}
      /\ Read(c) \in Nat
  BY SocketSizes DEF LineUpInv, CollectorInv, TypeOK
<1>2. ASSUME NEW x \in Line \cup {Nothing}
      PROVE  /\ OneOrNone(x) \in Seq(Line) /\ Range(OneOrNone(x)) = {x} \cap Line
             /\ InTurn(OneOrNone(x))
  <2>1. CASE x = Nothing
    BY <2>1, NothingAssumption DEF OneOrNone, Range, InTurn
  <2>2. CASE x # Nothing
    BY <1>2, <2>2 DEF OneOrNone, Range, InTurn
  <2> QED BY <2>1, <2>2
<1>3. /\ push \in Seq(Line) /\ Range(push) = Held /\ InTurn(push)
      /\ hand \in Seq(Line) /\ Range(hand) = {inHand[c]} \cap Line /\ InTurn(hand)
  BY <1>1, <1>2 DEF Held
<1>4. /\ InTurn(socket[c])
      /\ \A y \in Range(socket[c]) : y[1] = c /\ y[2] \in Int /\ y[2] > Read(c)
  <2>1. \A i \in 1..Len(socket[c]) : socket[c][i] = <<c, Read(c) + i>>
    BY DEF LineUpInv, SocketInv
  <2>2. DOMAIN socket[c] = 1..Len(socket[c]) /\ Len(socket[c]) \in Nat
    BY <1>1
  <2>3. InTurn(socket[c])
    BY <1>1, <2>1, <2>2 DEF InTurn
  <2>4. \A y \in Range(socket[c]) : y[1] = c /\ y[2] \in Int /\ y[2] > Read(c)
    BY <1>1, <2>1, <2>2 DEF Range
  <2> QED BY <2>3, <2>4
<1>5. /\ \A x \in Taken, y \in Range(hand) : Ahead(x, y)
      /\ \A x \in Taken \cup Range(hand), y \in Range(socket[c]) : Ahead(x, y)
  <2>1. \A y \in Range(hand) :
          handler[c] = "putting" /\ y = <<c, Read(c)>>
    BY <1>3, NothingAssumption DEF LineUpInv, HandsInv, SocketInv
  <2>2. \A x \in Taken : x[2] \in Int /\ (x[1] = c => x[2] <= Read(c))
    BY TakenLines, LineParts DEF LineUpInv, CollectorInv, PassedInv
  <2>3. \A x \in Taken, y \in Range(hand) : Ahead(x, y)
    BY <2>1 DEF LineUpInv, PassedInv, Ahead
  <2>4. ASSUME NEW x \in Taken \cup Range(hand), NEW y \in Range(socket[c])
        PROVE  Ahead(x, y)
    <3>1. x[2] \in Int /\ (x[1] = c => x[2] <= Read(c))
      BY <1>1, <2>1, <2>2
    <3> QED BY <1>1, <1>4, <3>1 DEF Ahead
  <2> QED BY <2>3, <2>4
<1> HIDE DEF hand, push
<1>6. /\ redis \o push \in Seq(Line)
      /\ Range(redis \o push) = Range(redis) \cup Held
      /\ InTurn(redis \o push)
  <2>1. InTurn(redis) /\ \A x \in Range(redis), y \in Range(push) : Ahead(x, y)
    BY <1>3 DEF LineUpInv, OrderInv
  <2> QED BY <1>1, <1>3, <2>1, ConcatInTurn
<1>7. /\ redis \o push \o buffer \in Seq(Line)
      /\ Range(redis \o push \o buffer) = Taken
      /\ InTurn(redis \o push \o buffer)
  <2>1. InTurn(buffer) /\ \A x \in Range(redis \o push), y \in Range(buffer) : Ahead(x, y)
    BY <1>6 DEF LineUpInv, OrderInv
  <2> QED BY <1>1, <1>6, <2>1, ConcatInTurn DEF Taken
<1>8. /\ redis \o push \o buffer \o hand \in Seq(Line)
      /\ Range(redis \o push \o buffer \o hand) = Taken \cup Range(hand)
      /\ InTurn(redis \o push \o buffer \o hand)
  BY <1>3, <1>5, <1>7, ConcatInTurn
<1>9. /\ Range(redis \o push \o buffer \o hand \o socket[c])
           = Taken \cup Range(hand) \cup Range(socket[c])
      /\ InTurn(redis \o push \o buffer \o hand \o socket[c])
  BY <1>1, <1>4, <1>5, <1>8, ConcatInTurn
<1> QED BY <1>3, <1>9 DEF Pipeline, hand, push

\* Where every line is gives what reaches Redis.
LEMMA LineUpReachesRedis ==
  ASSUME LineUpInv
  PROVE  PrefixReachesRedis
<1>1. InTurn(redis)
  BY DEF LineUpInv, OrderInv
<1>2. ASSUME NEW x \in Range(redis)
      PROVE  /\ x[2] \in Fitting(x[1])
             /\ \A n \in Fitting(x[1]) : n < x[2] => <<x[1], n>> \in Range(redis)
  <2>1. x \in Line /\ x[1] \in Clients /\ x[2] \in Int /\ x[2] >= 1 /\ x = <<x[1], x[2]>>
        /\ x \in Taken
    BY <1>2, TakenLines, LineParts, BufferAssumption DEF LineUpInv, CollectorInv, Taken
  <2>2. x[2] <= Read(x[1]) /\ kind[x] = "fits"
    BY <2>1 DEF LineUpInv, PassedInv
  <2>3. x[2] <= sent[x[1]] /\ sent[x[1]] \in Nat
    BY <2>1, <2>2, SocketSizes DEF LineUpInv, CollectorInv
  <2> QED BY <1>2, <2>1, <2>2, <2>3 DEF Fitting, LineUpInv, GapInv, NoGap
<1>3. ASSUME NEW c \in Clients, Works, handler[c] # "closed"
      PROVE  /\ InTurn(Pipeline(c))
             /\ \A n \in Fitting(c) : <<c, n>> \in Range(Pipeline(c))
  <2>1. ASSUME NEW n \in Fitting(c)
        PROVE  <<c, n>> \in Taken \cup ({inHand[c]} \cap Line) \cup Range(socket[c])
    <3>1. /\ socket[c] \in Seq(Line) /\ Len(socket[c]) \in Nat /\ sent[c] \in 0..MaxLines
          /\ n \in Int /\ 1 <= n /\ n <= sent[c] /\ Read(c) = sent[c] - Len(socket[c])
      BY <2>1, SocketSizes DEF LineUpInv, CollectorInv, Fitting, Read
    <3>2. <<c, n>> \in Line
      BY <3>1, BufferAssumption DEF Line
    <3>3. CASE n <= Read(c)
      BY <1>3, <2>1, <3>2, <3>3 DEF LineUpInv, GapInv, NoneMissing
    <3>4. CASE n > Read(c)
      <4>1. n - Read(c) \in 1..Len(socket[c]) /\ Read(c) + (n - Read(c)) = n
        BY <3>1, <3>4, BufferAssumption
      <4>2. socket[c][n - Read(c)] = <<c, n>>
        BY <4>1 DEF LineUpInv, SocketInv
      <4>3. n - Read(c) \in DOMAIN socket[c]
        BY <3>1, <4>1
      <4>4. <<c, n>> \in Range(socket[c])
        BY <4>2, <4>3 DEF Range
      <4> QED BY <4>4
    <3> QED BY <3>1, <3>3, <3>4, BufferAssumption
  <2> QED BY <1>3, <2>1, PipelineInTurn
<1> QED BY <1>1, <1>2, <1>3 DEF PrefixReachesRedis, Works

\* What Redis has of each client is a prefix of what the client sent and the
\* handler passes on, and while nothing failed the rest is on its way in its
\* turn: for any number of clients and lines, any size of the buffer, and
\* however failures and shutdown interleave.
THEOREM PrefixInTurn == Spec => []PrefixReachesRedis
<1>1. Init => CollectorInv
  BY BufferAssumption, NothingAssumption
  DEF Init, CollectorInv, TypeOK, HoldsEvent, LineKind
<1>2. Init => LineUpInv /\ AwayInv
  <2> SUFFICES ASSUME Init PROVE LineUpInv /\ AwayInv
    OBVIOUS
  <2>1. Range(redis) = {} /\ Range(buffer) = {} /\ Held = {} /\ InTurn(redis) /\ InTurn(buffer)
    BY NothingAssumption DEF Init, Range, Held, InTurn
  <2>2. Taken = {}
    BY <2>1 DEF Taken
  <2>3. \A c \in Clients : Len(socket[c]) = 0 /\ sent[c] = 0 /\ Fitting(c) = {}
    BY DEF Init, Fitting
  <2>4. HandsInv /\ AwayInv
    BY DEF Init, HandsInv, AwayInv, Works
  <2>5. SocketInv
    BY <2>3 DEF Init, SocketInv
  <2>6. PassedInv /\ OrderInv /\ GapInv
    BY <2>1, <2>2, <2>3 DEF PassedInv, OrderInv, GapInv, NoGap, NoneMissing
  <2> QED BY <1>1, <2>4, <2>5, <2>6 DEF LineUpInv
<1>3. LineUpInv /\ AwayInv /\ [Next]_vars => LineUpInv' /\ AwayInv'
  BY LineUpStep, AwayStep DEF LineUpInv
<1>4. LineUpInv => PrefixReachesRedis
  BY LineUpReachesRedis
<1> QED BY <1>2, <1>3, <1>4, PTL DEF Spec
=============================================================================
