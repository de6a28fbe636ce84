--------------------------- MODULE DeliveryProofs ---------------------------
(***************************************************************************)
(* Proofs that Session implements Delivery, for any number of nodes,       *)
(* connections and commands, and (in the second part) that messages arrive *)
(* in the order and with the numbers they were sent with.                  *)
(*                                                                         *)
(* A step of the server that removes a request must have sent or discarded *)
(* all of its commands, and a node that runs a command must be its target; *)
(* so the invariant says where sendQueuedMessages is in its walk, that the *)
(* queue files every command under its target, that the walk serves the    *)
(* device at the other end of its connection, and what is in flight.       *)
(***************************************************************************)
EXTENDS SessionProofs

\* Every queued command is filed under the device it was requested for.
QueueFiled ==
    \A i \in DOMAIN commandsQueue :
        \A k \in DOMAIN commandsQueue[i].commands :
            target[commandsQueue[i].commands[k]] = commandsQueue[i].devId

\* Past the first command of a request, the walk is in a request of the device
\* it serves, and has dealt with the commands before the current one.
WalkInStep ==
    epoll.j > 1 =>
        /\ ~Idle /\ Matches
        /\ \A k \in DOMAIN Current.commands :
              k < epoll.j => Current.commands[k] \in everSent \cup dropped

\* The walk serves the node that holds the connection.
ServesHolder ==
    \A n \in Nodes : (conn[n] # None /\ conn[n] = epoll.conn) => epoll.dev = n

\* Whatever follows the server's nonce on its way to a node is a command sent
\* to it.
SentTo(n, cmd) == cmd \in everSent /\ target[cmd] = n
InFlight ==
    \A n \in Nodes, c \in Conns : conn[n] = c =>
        \A k \in DOMAIN down[c] :
            (k > 1 \/ info[n].sessionId # 0) => SentTo(n, down[c][k].body)

DeliveryInv == QueueFiled /\ WalkInStep /\ ServesHolder /\ InFlight

-----------------------------------------------------------------------------
(***************************************************************************)
(* The commands in a queue, and what the operations on it do to them.      *)
(***************************************************************************)
InQueue(q, cmd) ==
    \E i \in DOMAIN q : \E k \in DOMAIN q[i].commands : q[i].commands[k] = cmd

\* The fields of a queued request.
LEMMA RequestFields ==
  ASSUME NEW q \in Seq(Request(Nodes, Commands))
  PROVE  /\ DOMAIN q = 1 .. Len(q) /\ Len(q) \in Nat
         /\ \A i \in DOMAIN q : /\ q[i].devId \in Nodes
                              /\ q[i].commands \in Seq(Commands)
                              /\ q[i] \in [devId : Nodes, commands : Seq(Commands)]
  <1>1. DOMAIN q = 1 .. Len(q) /\ Len(q) \in Nat
      OBVIOUS
  <1>2. ASSUME NEW i \in DOMAIN q
        PROVE  /\ q[i].devId \in Nodes
               /\ q[i].commands \in Seq(Commands)
               /\ q[i] \in [devId : Nodes, commands : Seq(Commands)]
      <2>1. q[i] \in Request(Nodes, Commands)
          OBVIOUS
      <2> QED BY <2>1 DEF Request
  <1> QED BY <1>1, <1>2

\* What appending does to the elements of a sequence.
LEMMA AppendElements ==
  ASSUME NEW S, NEW s \in Seq(S), NEW e \in S
  PROVE  /\ DOMAIN s = 1 .. Len(s) /\ Len(s) \in Nat
         /\ Append(s, e) \in Seq(S)
         /\ DOMAIN Append(s, e) = 1 .. (Len(s) + 1)
         /\ Append(s, e)[Len(s) + 1] = e
         /\ \A k \in DOMAIN s : Append(s, e)[k] = s[k]
  OBVIOUS

\* The commands queued for a device are those of its requests.
LEMMA QueuedForMember ==
  ASSUME NEW q, NEW dev, NEW cmd
  PROVE  cmd \in QueuedFor(q, dev) <=>
            \E i \in DOMAIN q : /\ q[i].devId = dev
                                /\ \E k \in DOMAIN q[i].commands :
                                      q[i].commands[k] = cmd
  BY DEF QueuedFor

\* If commands are filed under their targets, the waiting ones are those in
\* the queue.
LEMMA WaitingMember ==
  ASSUME NEW q \in Seq(Request(Nodes, Commands)), NEW t, NEW cmd,
         \A i \in DOMAIN q : \A k \in DOMAIN q[i].commands :
            t[q[i].commands[k]] = q[i].devId
  PROVE  (t[cmd] # None /\ cmd \in QueuedFor(q, t[cmd])) <=> InQueue(q, cmd)
  <1>1. \A i \in DOMAIN q : q[i].devId # None
      BY RequestFields, NoneAssumption
  <1>2. ASSUME InQueue(q, cmd) PROVE t[cmd] # None /\ cmd \in QueuedFor(q, t[cmd])
      <2>1. PICK i \in DOMAIN q : \E k \in DOMAIN q[i].commands : q[i].commands[k] = cmd
          BY <1>2 DEF InQueue
      <2>2. t[cmd] = q[i].devId
          BY <2>1
      <2> QED BY <1>1, <2>1, <2>2, QueuedForMember
  <1> QED BY <1>2, QueuedForMember DEF InQueue

\* What addToCommandQueue puts into the queue: the old requests, some of them
\* longer by the new command, and one more.
LEMMA AddedRequests ==
  ASSUME NEW q \in Seq(Request(Nodes, Commands)), NEW n \in Nodes,
         NEW cmd \in Commands
  PROVE  LET r == addToCommandQueue(q, n, cmd)
         IN  /\ DOMAIN r = 1 .. (Len(q) + 1)
             /\ r[Len(q) + 1] = NewRequest(n, cmd)
             /\ \A i \in DOMAIN q :
                   /\ r[i].devId = q[i].devId
                   /\ q[i].devId # n => r[i].commands = q[i].commands
                   /\ q[i].devId = n => r[i].commands = Append(q[i].commands, cmd)
  <1> DEFINE a == AppendToMatching(q, n, cmd)
  <1>1. /\ DOMAIN q = 1 .. Len(q) /\ Len(q) \in Nat
        /\ \A i \in DOMAIN q : q[i] \in [devId : Nodes, commands : Seq(Commands)]
      BY RequestFields
  <1>2. \A i \in DOMAIN q :
           /\ a[i].devId = q[i].devId
           /\ q[i].devId # n => a[i].commands = q[i].commands
           /\ q[i].devId = n => a[i].commands = Append(q[i].commands, cmd)
      BY <1>1 DEF AppendToMatching
  <1>3. a \in Seq(Request(Nodes, Commands)) /\ Len(a) = Len(q)
      <2>1. a = [i \in 1 .. Len(q) |-> a[i]]
          BY <1>1 DEF AppendToMatching
      <2>2. \A i \in 1 .. Len(q) : a[i] \in Request(Nodes, Commands)
          <3> SUFFICES ASSUME NEW i \in 1 .. Len(q)
                       PROVE  a[i] \in Request(Nodes, Commands)
              OBVIOUS
          <3>1. q[i] \in [devId : Nodes, commands : Seq(Commands)]
              BY <1>1
          <3>2. a[i] = IF q[i].devId = n
                       THEN [q[i] EXCEPT !.commands = Append(@, cmd)] ELSE q[i]
              BY <1>1 DEF AppendToMatching
          <3>3. Append(q[i].commands, cmd) \in Seq(Commands)
              BY <3>1
          <3> QED BY <3>1, <3>2, <3>3 DEF Request
      <2> HIDE DEF a
      <2> QED BY <1>1, <2>1, <2>2
  <1> HIDE DEF a
  <1>4. addToCommandQueue(q, n, cmd) = Append(a, NewRequest(n, cmd))
      BY DEF addToCommandQueue, a
  <1>5. NewRequest(n, cmd) \in Request(Nodes, Commands)
      BY DEF NewRequest, Request
  <1> DEFINE r == Append(a, NewRequest(n, cmd))
  <1>6. /\ DOMAIN r = 1 .. (Len(q) + 1)
        /\ r[Len(q) + 1] = NewRequest(n, cmd)
        /\ \A i \in DOMAIN q : r[i] = a[i]
      BY <1>1, <1>3, <1>5
  <1> HIDE DEF r
  <1>7. r = addToCommandQueue(q, n, cmd)
      BY <1>4 DEF r
  <1> QED BY <1>2, <1>6, <1>7

\* Requesting a command adds it to the commands in the queue.
LEMMA AddedCommands ==
  ASSUME NEW q \in Seq(Request(Nodes, Commands)), NEW n \in Nodes,
         NEW cmd \in Commands, NEW x \in Commands
  PROVE  InQueue(addToCommandQueue(q, n, cmd), x) <=> InQueue(q, x) \/ x = cmd
  <1> DEFINE r == addToCommandQueue(q, n, cmd)
  <1>0. /\ DOMAIN r = 1 .. (Len(q) + 1)
        /\ r[Len(q) + 1] = NewRequest(n, cmd)
        /\ \A i \in DOMAIN q :
              /\ r[i].devId = q[i].devId
              /\ q[i].devId # n => r[i].commands = q[i].commands
              /\ q[i].devId = n => r[i].commands = Append(q[i].commands, cmd)
      BY AddedRequests
  <1> HIDE DEF r
  <1>1. /\ DOMAIN q = 1 .. Len(q) /\ Len(q) \in Nat
        /\ \A i \in DOMAIN q : q[i].commands \in Seq(Commands)
      BY RequestFields
  <1>2. NewRequest(n, cmd).commands = <<cmd>>
      BY DEF NewRequest
  <1>3. ASSUME InQueue(r, x) PROVE InQueue(q, x) \/ x = cmd
      <2>1. PICK i \in DOMAIN r : \E k \in DOMAIN r[i].commands : r[i].commands[k] = x
          BY <1>3 DEF InQueue
      <2>2. PICK k \in DOMAIN r[i].commands : r[i].commands[k] = x
          BY <2>1
      <2>3. CASE i = Len(q) + 1
          BY <1>0, <1>2, <2>2, <2>3
      <2>4. CASE i \in DOMAIN q
          <3>1. CASE q[i].devId = n
              <4>1. q[i].commands \in Seq(Commands)
                    /\ r[i].commands = Append(q[i].commands, cmd)
                  BY <1>0, <1>1, <2>4, <3>1
              <4>2. x = cmd \/ (k \in DOMAIN q[i].commands /\ q[i].commands[k] = x)
                  BY <2>2, <4>1
              <4> QED BY <2>4, <4>2 DEF InQueue
          <3>2. CASE q[i].devId # n
              BY <1>0, <2>2, <2>4, <3>2 DEF InQueue
          <3> QED BY <3>1, <3>2
      <2> QED BY <1>0, <1>1, <2>3, <2>4
  <1>4. ASSUME x = cmd PROVE InQueue(r, x)
      <2>1. Len(q) + 1 \in DOMAIN r
          BY <1>0, <1>1
      <2>2. 1 \in DOMAIN r[Len(q) + 1].commands /\ r[Len(q) + 1].commands[1] = x
          BY <1>0, <1>2, <1>4
      <2> QED BY <2>1, <2>2 DEF InQueue
  <1>5. ASSUME InQueue(q, x) PROVE InQueue(r, x)
      <2>1. PICK i \in DOMAIN q : \E k \in DOMAIN q[i].commands : q[i].commands[k] = x
          BY <1>5 DEF InQueue
      <2>2. PICK k \in DOMAIN q[i].commands : q[i].commands[k] = x
          BY <2>1
      <2>3. i \in DOMAIN r
          BY <1>0, <1>1
      <2>4. q[i].commands \in Seq(Commands)
          BY <1>1
      <2>5. k \in DOMAIN r[i].commands /\ r[i].commands[k] = x
          <3>1. \/ r[i].commands = q[i].commands
                \/ r[i].commands = Append(q[i].commands, cmd)
              BY <1>0
          <3>2. /\ DOMAIN q[i].commands \subseteq DOMAIN Append(q[i].commands, cmd)
                /\ Append(q[i].commands, cmd)[k] = q[i].commands[k]
              BY <2>4, AppendElements
          <3> QED BY <2>2, <3>1, <3>2
      <2> QED BY <2>3, <2>5 DEF InQueue
  <1> QED BY <1>3, <1>4, <1>5 DEF r

\* Removing a request takes away none but its own commands.
LEMMA RemovedCommands ==
  ASSUME NEW q \in Seq(Request(Nodes, Commands)), NEW i \in 1 .. Len(q)
  PROVE  LET r == removeFromList(q, i)
         IN  /\ \A k \in DOMAIN r : \E m \in DOMAIN q : r[k] = q[m]
             /\ \A m \in DOMAIN q : m # i => \E k \in DOMAIN r : r[k] = q[m]
  <1> DEFINE r == removeFromList(q, i)
  <1>1. /\ DOMAIN q = 1 .. Len(q) /\ Len(q) \in Nat
        /\ DOMAIN r = 1 .. (Len(q) - 1)
        /\ \A k \in DOMAIN r : r[k] = IF k < i THEN q[k] ELSE q[k + 1]
      BY DEF removeFromList
  <1> HIDE DEF r
  <1>2. ASSUME NEW k \in DOMAIN r PROVE \E m \in DOMAIN q : r[k] = q[m]
      <2>1. k \in DOMAIN q /\ k + 1 \in DOMAIN q
          BY <1>1
      <2> QED BY <1>1, <2>1
  <1>3. ASSUME NEW m \in DOMAIN q, m # i PROVE \E k \in DOMAIN r : r[k] = q[m]
      <2>1. CASE m < i
          <3>1. m \in DOMAIN r /\ r[m] = q[m]
              BY <1>1, <2>1
          <3> QED BY <3>1
      <2>2. CASE m > i
          <3>1. m - 1 \in DOMAIN r /\ ~(m - 1 < i) /\ (m - 1) + 1 = m
              BY <1>1, <2>2
          <3>2. r[m - 1] = q[m]
              BY <1>1, <3>1
          <3> QED BY <3>1, <3>2
      <2> QED BY <1>1, <1>3, <2>1, <2>2
  <1> QED BY <1>2, <1>3 DEF r

-----------------------------------------------------------------------------
(***************************************************************************)
(* The parts of the invariant, one by one.                                 *)
(***************************************************************************)

\* Initially they hold.
LEMMA DeliveryInit == Init => DeliveryInv
  BY NoneAssumption
     DEF Init, DeliveryInv, QueueFiled, WalkInStep, ServesHolder, InFlight

\* The steps that change neither the queue, the walk nor the books.
NodeStep == \E n \in Nodes : SocketThread(n) \/ MainLoop(n)
ConnStepOnly == \E c \in Conns : ServerAccept(c) \/ ServerRecvBeacon(c) \/ ServerClose(c)

\* Steps of nodes and of connections leave the server's queue and walk alone.
LEMMA QuietSteps ==
  ASSUME NodeStep \/ ConnStepOnly \/ UNCHANGED vars
  PROVE  UNCHANGED <<epoll, commandsQueue, target, everSent, dropped>>
  BY DEF NodeStep, ConnStepOnly, SocketThread, MainLoop, NodeConnect, NodeRecvNonce,
         NodeExecute, NodeStartSending, NodeSend, NodeClose, MainLoopCheck,
         MainLoopAdd, ServerAccept, ServerRecvBeacon, ServerClose, vars,
         nodeVars, chanVars, serverVars, histVars

\* A queue keeps its commands filed under their targets.
LEMMA QueueFiledRequest ==
  ASSUME TypeInv, QueueFiled, NEW n \in Nodes, NEW cmd \in Commands,
         RequestCommand(n, cmd)
  PROVE  QueueFiled'
  <1> DEFINE q == commandsQueue
  <1> DEFINE r == addToCommandQueue(q, n, cmd)
  <1>1. /\ target[cmd] = None /\ target' = [target EXCEPT ![cmd] = n]
        /\ commandsQueue' = r /\ q \in Seq(Request(Nodes, Commands))
        /\ target \in [Commands -> Nodes \cup {None}]
      BY DEF RequestCommand, TypeInv, TypeOK
  <1>2. /\ DOMAIN r = 1 .. (Len(q) + 1)
        /\ r[Len(q) + 1] = NewRequest(n, cmd)
        /\ \A i \in DOMAIN q :
              /\ r[i].devId = q[i].devId
              /\ q[i].devId # n => r[i].commands = q[i].commands
              /\ q[i].devId = n => r[i].commands = Append(q[i].commands, cmd)
      BY <1>1, AddedRequests
  <1>3. /\ DOMAIN q = 1 .. Len(q) /\ Len(q) \in Nat
        /\ \A i \in DOMAIN q : q[i].devId \in Nodes /\ q[i].commands \in Seq(Commands)
      BY <1>1, RequestFields
  <1> HIDE DEF r
  <1> SUFFICES ASSUME NEW i \in DOMAIN r, NEW k \in DOMAIN r[i].commands
               PROVE  target'[r[i].commands[k]] = r[i].devId
      BY <1>1 DEF QueueFiled
  <1>4. CASE i = Len(q) + 1
      <2>1. NewRequest(n, cmd).commands = <<cmd>> /\ NewRequest(n, cmd).devId = n
          BY DEF NewRequest
      <2> QED BY <1>1, <1>2, <1>4, <2>1
  <1>5. CASE i \in DOMAIN q
      <2>1. \A m \in DOMAIN q[i].commands : target'[q[i].commands[m]] = q[i].devId
          <3> SUFFICES ASSUME NEW m \in DOMAIN q[i].commands
                       PROVE  target'[q[i].commands[m]] = q[i].devId
              OBVIOUS
          <3>1. /\ q[i].commands[m] \in Commands
                /\ target[q[i].commands[m]] = q[i].devId /\ q[i].devId # None
              BY <1>3, <1>5, NoneAssumption DEF QueueFiled
          <3> QED BY <1>1, <3>1
      <2>2. CASE q[i].devId # n
          BY <1>2, <1>5, <2>1, <2>2
      <2>3. CASE q[i].devId = n
          <3>1. r[i].commands = Append(q[i].commands, cmd)
                /\ q[i].commands \in Seq(Commands)
              BY <1>2, <1>3, <1>5, <2>3
          <3>2. r[i].commands[k] = cmd
                \/ (k \in DOMAIN q[i].commands /\ r[i].commands[k] = q[i].commands[k])
              BY <3>1, AppendElements
          <3> QED BY <1>1, <1>2, <1>5, <2>1, <2>3, <3>2
      <2> QED BY <2>2, <2>3
  <1> QED BY <1>2, <1>3, <1>4, <1>5

\* Removing a request keeps the others filed.
LEMMA QueueFiledRemove ==
  ASSUME TypeInv, QueueFiled, RemoveRequest
  PROVE  QueueFiled'
  <1>1. /\ commandsQueue' = removeFromList(commandsQueue, epoll.i) /\ target' = target
        /\ commandsQueue \in Seq(Request(Nodes, Commands))
        /\ epoll.i \in 1 .. Len(commandsQueue)
      BY DEF RemoveRequest, histVars, TypeInv, TypeOK, EpollPosition, Matches
  <1>2. \A k \in DOMAIN commandsQueue' :
           \E m \in DOMAIN commandsQueue : commandsQueue'[k] = commandsQueue[m]
      BY <1>1, RemovedCommands
  <1> QED BY <1>1, <1>2 DEF QueueFiled

\* The walk deals with the commands of a request in order; nothing changes the
\* queue meanwhile, because a request waits for the lock.
LEMMA WalkKept ==
  ASSUME TypeInv, WalkInStep, SendQueuedMessages \/ WebSocketThread
  PROVE  WalkInStep'
  <1>t. /\ epoll \in EpollPosition /\ epoll.j \in Nat \ {0} /\ epoll.i \in Nat
        /\ epoll = [conn |-> epoll.conn, dev |-> epoll.dev, i |-> epoll.i, j |-> epoll.j]
      BY DEF TypeInv, TypeOK, EpollPosition
  <1>1. CASE SkipRequest
      <2>1. epoll.j = 1
          BY <1>1, <1>t DEF SkipRequest, WalkInStep
      <2>2. epoll'.j = epoll.j
          BY <1>1, <1>t DEF SkipRequest
      <2> QED BY <2>1, <2>2 DEF WalkInStep
  <1>2. CASE SendCommand
      <2> DEFINE cmd == Current.commands[epoll.j]
      <2>1. /\ ~Idle /\ Matches /\ epoll.j <= Len(Current.commands)
            /\ commandsQueue' = commandsQueue
            /\ epoll' = [epoll EXCEPT !.j = @ + 1]
          BY <1>2 DEF SendCommand
      <2>2. /\ epoll'.conn = epoll.conn /\ epoll'.dev = epoll.dev
            /\ epoll'.i = epoll.i /\ epoll'.j = epoll.j + 1
          BY <1>t, <2>1
      <2>3. Current' = Current /\ Matches' /\ ~Idle'
          BY <2>1, <2>2 DEF Current, Matches, Idle
      <2>4. /\ everSent \cup dropped \subseteq everSent' \cup dropped'
            /\ cmd \in everSent' \cup dropped'
          BY <1>2 DEF SendCommand
      <2>5. Current.commands \in Seq(Commands)
          <3>1. commandsQueue \in Seq(Request(Nodes, Commands))
                /\ epoll.i \in DOMAIN commandsQueue
              BY <1>t, <2>1 DEF TypeInv, TypeOK, Matches, EpollPosition
          <3> QED BY <3>1, RequestFields DEF Current
      <2>6. ASSUME NEW k \in DOMAIN Current.commands, k < epoll.j + 1
            PROVE  Current.commands[k] \in everSent' \cup dropped'
          <3>1. CASE k = epoll.j
              BY <2>4, <3>1
          <3>2. CASE k < epoll.j
              <4>1. k \in Nat /\ k >= 1
                  BY <2>5
              <4> QED BY <1>t, <2>4, <3>2, <4>1 DEF WalkInStep
          <3>3. k \in Nat
              BY <2>5
          <3> QED BY <1>t, <2>6, <3>1, <3>2, <3>3
      <2> QED BY <2>2, <2>3, <2>6 DEF WalkInStep
  <1>3. CASE RemoveRequest
      <2>1. epoll'.j = 1
          <3>1. epoll' = [epoll EXCEPT !.i = @ + 1, !.j = 1]
              BY <1>3 DEF RemoveRequest
          <3>2. DOMAIN epoll = {"conn", "dev", "i", "j"}
              BY <1>t
          <3> QED BY <3>1, <3>2
      <2> QED BY <2>1 DEF WalkInStep
  <1>4. CASE EndSendQueued
      <2>1. epoll'.j = 1
          BY <1>4 DEF EndSendQueued
      <2> QED BY <2>1 DEF WalkInStep
  <1>5. CASE WebSocketThread
      <2>1. epoll' = epoll /\ Idle
          BY <1>5 DEF WebSocketThread, RequestCommand
      <2> QED BY <2>1 DEF WalkInStep
  <1> QED BY <1>1, <1>2, <1>3, <1>4, <1>5 DEF SendQueuedMessages

\* The walk keeps the connection and the device it began with, and the slot of
\* that connection is not free.
LEMMA ServesHolderKept ==
  ASSUME TypeInv, ConnInv, ServesHolder, [Next]_vars
  PROVE  ServesHolder'
  <1>t. /\ conn \in [Nodes -> Conns \cup {None}]
        /\ epoll = [conn |-> epoll.conn, dev |-> epoll.dev, i |-> epoll.i, j |-> epoll.j]
        /\ DOMAIN epoll = {"conn", "dev", "i", "j"}
      BY DEF TypeInv, TypeOK, EpollPosition
  <1>1. CASE \E n \in Nodes : NodeConnect(n)
      <2>1. PICK n \in Nodes : NodeConnect(n)
          BY <1>1
      <2>2. PICK c \in Conns : status[c] = "free" /\ conn' = [conn EXCEPT ![n] = c]
          BY <2>1 DEF NodeConnect
      <2>3. epoll.conn # c /\ epoll' = epoll
          BY <2>1, <2>2 DEF ConnInv, ServerSides, ServerSide, Answered, NodeConnect,
                            serverVars
      <2> QED BY <1>t, <2>2, <2>3 DEF ServesHolder
  <1>2. CASE \E n \in Nodes : NodeClose(n)
      <2>1. PICK n \in Nodes : conn' = [conn EXCEPT ![n] = None] /\ epoll' = epoll
          BY <1>2 DEF NodeClose, serverVars
      <2> QED BY <1>t, <2>1 DEF ServesHolder
  <1>3. CASE \E c \in Conns : ServerRecvNonce(c)
      <2>1. PICK c \in Conns : ServerRecvNonce(c)
          BY <1>3
      <2>2. /\ epoll'.conn = c /\ epoll'.dev = Head(up[c]).dev /\ conn' = conn
            /\ status[c] = "open" /\ sinfo[c].localNonce = 0
          BY <2>1 DEF ServerRecvNonce, nodeVars
      <2>3. ASSUME NEW n \in Nodes, conn[n] = c PROVE epoll'.dev = n
          <3>1. up[c] = <<NonceMessage(info[n].localNonce, n)>>
              BY <2>2, <2>3 DEF ConnInv, NodeSides, NodeSide, Fresh
          <3>2. Head(up[c]).dev = n
              BY <3>1 DEF NonceMessage, encryptPckData
          <3> QED BY <2>2, <3>2
      <2> QED BY <2>2, <2>3 DEF ServesHolder
  <1>4. CASE SkipRequest \/ SendCommand
      <2>1. conn' = conn /\ epoll'.conn = epoll.conn /\ epoll'.dev = epoll.dev
          BY <1>4, <1>t DEF SkipRequest, SendCommand, nodeVars
      <2> QED BY <2>1 DEF ServesHolder
  <1>5. CASE RemoveRequest
      <2>1. epoll' = [epoll EXCEPT !.i = @ + 1, !.j = 1] /\ conn' = conn
          BY <1>5 DEF RemoveRequest, nodeVars
      <2>2. epoll'.conn = epoll.conn /\ epoll'.dev = epoll.dev
          BY <1>t, <2>1
      <2> QED BY <2>1, <2>2 DEF ServesHolder
  <1>6. CASE EndSendQueued \/ ServerRestart
      <2>1. conn' = conn /\ epoll'.conn = None
          BY <1>6 DEF EndSendQueued, ServerRestart, nodeVars
      <2> QED BY <2>1 DEF ServesHolder
  <1>7. ASSUME UNCHANGED <<conn, epoll>> PROVE ServesHolder'
      BY <1>7 DEF ServesHolder
  <1>8. CASE \E n \in Nodes : \/ NodeRecvNonce(n) \/ NodeExecute(n) \/ NodeSend(n)
                             \/ NodeStartSending(n) \/ MainLoop(n)
      BY <1>7, <1>8 DEF NodeRecvNonce, NodeExecute, NodeSend, NodeStartSending,
         MainLoop, MainLoopCheck, MainLoopAdd, nodeVars, serverVars
  <1>9. CASE ConnStepOnly \/ WebSocketThread \/ UNCHANGED vars
      BY <1>7, <1>9 DEF ConnStepOnly, ServerAccept, ServerRecvBeacon, ServerClose,
         WebSocketThread, RequestCommand, vars, nodeVars, serverVars
  <1> QED BY <1>1, <1>2, <1>3, <1>4, <1>5, <1>6, <1>8, <1>9
          DEF Next, SocketThread, EpollThread, SendQueuedMessages, ConnStepOnly

\* What a node has in flight after a step, if nobody else's changes.
Flying(n, c) ==
    \A k \in DOMAIN down[c] :
        (k > 1 \/ info[n].sessionId # 0) => SentTo(n, down[c][k].body)

\* What a step does not touch stays in flight as it was.
LEMMA FlyingFrame ==
  ASSUME NEW n, NEW c, Flying(n, c), down'[c] = down[c],
         info'[n].sessionId = info[n].sessionId, everSent \subseteq everSent',
         target' = target
  PROVE  Flying(n, c)'
  BY DEF Flying, SentTo

\* The socket thread of a node: it takes messages off its own connection only.
LEMMA InFlightNode ==
  ASSUME TypeInv, ConnInv, InFlight, NEW n \in Nodes, SocketThread(n) \/ MainLoop(n)
  PROVE  InFlight'
  <1>t. /\ conn \in [Nodes -> Conns \cup {None}]
        /\ info \in [Nodes -> ConnInfo]
        /\ down \in [Conns -> Seq(Messages)]
      BY DEF TypeInv, TypeOK
  <1>b. everSent' = everSent /\ target' = target
      BY QuietSteps DEF NodeStep
  <1> SUFFICES ASSUME NEW m \in Nodes, NEW c \in Conns, conn'[m] = c
               PROVE  Flying(m, c)'
      BY DEF InFlight, Flying
  <1>f. ASSUME conn[m] = c PROVE Flying(m, c)
      BY <1>f DEF InFlight, Flying
  <1>1. CASE NodeConnect(n)
      <2>1. PICK d \in Conns, r \in Nonce :
               /\ status[d] = "free" /\ conn' = [conn EXCEPT ![n] = d]
               /\ info' = [info EXCEPT ![n] = [InitConnInfo EXCEPT !.localNonce = r]]
          BY <1>1 DEF NodeConnect
      <2>2. down' = down /\ down[d] = <<>>
          BY <1>1, <2>1 DEF NodeConnect, ConnInv, ServerSides, ServerSide
      <2>3. CASE m = n
          <3>1. c = d
              BY <1>t, <2>1, <2>3
          <3> QED BY <2>2, <3>1 DEF Flying
      <2>4. CASE m # n
          BY <1>b, <1>f, <1>t, <2>1, <2>2, <2>4, FlyingFrame
      <2> QED BY <2>3, <2>4
  <1>2. CASE NodeRecvNonce(n) \/ NodeExecute(n)
      <2>1. PICK d \in Conns : d = conn[n]
          BY <1>2, HoldsConn DEF NodeRecvNonce, NodeExecute
      <2>2. /\ conn' = conn /\ down' = [down EXCEPT ![d] = Tail(@)] /\ down[d] # <<>>
            /\ \A x \in Nodes : x # n => info'[x] = info[x]
            /\ NodeExecute(n) => info[n].sessionId # 0
          BY <1>2, <1>t, <2>1 DEF NodeRecvNonce, NodeExecute, nodeVars
      <2>3. CASE m = n
          <3>1. /\ c = d /\ down'[c] = Tail(down[c]) /\ down[c] \in Seq(Messages)
                /\ down[c] # <<>>
              BY <1>t, <2>1, <2>2, <2>3
          <3>2. \A k \in DOMAIN down'[c] :
                   k + 1 \in DOMAIN down[c] /\ k + 1 > 1 /\ down'[c][k] = down[c][k + 1]
              BY <3>1
          <3>3. Flying(m, c)
              BY <1>f, <2>2
          <3>4. \A k \in DOMAIN down'[c] : SentTo(m, down'[c][k].body)
              BY <3>2, <3>3 DEF Flying
          <3>5. \A b : SentTo(m, b) => SentTo(m, b)'
              BY <1>b DEF SentTo
          <3> QED BY <3>4, <3>5 DEF Flying
      <2>4. CASE m # n
          <3>1. c # d
              BY <2>1, <2>2, <2>4, NoneAssumption DEF ConnInv, OneHolder
          <3>2. down'[c] = down[c]
              BY <1>t, <2>2, <3>1
          <3> QED BY <1>b, <1>f, <2>2, <2>4, <3>2, FlyingFrame
      <2> QED BY <2>3, <2>4
  <1>3. CASE NodeStartSending(n) \/ NodeSend(n) \/ MainLoop(n)
      <2>1. conn' = conn /\ down' = down
          BY <1>3 DEF NodeStartSending, NodeSend, MainLoop, MainLoopCheck, MainLoopAdd,
                      chanVars
      <2>2. info' = info \/ info' = [info EXCEPT ![n] = SendInfo(@)]
          BY <1>3 DEF NodeStartSending, NodeSend, MainLoop, MainLoopCheck, MainLoopAdd
      <2>3. info'[m].sessionId = info[m].sessionId
          <3>1. CASE info' = info
              BY <3>1
          <3>2. CASE info' = [info EXCEPT ![n] = SendInfo(@)]
              <4>1. SendInfo(info[n]).sessionId = info[n].sessionId
                  BY <1>t DEF SendInfo, ConnInfo
              <4> QED BY <1>t, <3>2, <4>1
          <3> QED BY <2>2, <3>1, <3>2
      <2> QED BY <1>b, <1>f, <2>1, <2>3, FlyingFrame
  <1>4. CASE NodeClose(n)
      <2>1. PICK d \in Conns : d = conn[n]
          BY <1>4, HoldsConn DEF NodeClose, CanClose
      <2>2. /\ conn' = [conn EXCEPT ![n] = None]
            /\ info' = [info EXCEPT ![n] = InitConnInfo]
            /\ down' = [down EXCEPT ![d] = <<>>]
          BY <1>4, <2>1 DEF NodeClose
      <2>3. m # n /\ conn[m] = c /\ info'[m] = info[m]
          BY <1>t, <2>2, NoneAssumption
      <2>4. CASE c = d
          BY <1>t, <2>2, <2>4 DEF Flying
      <2>5. CASE c # d
          <3>1. down'[c] = down[c]
              BY <1>t, <2>2, <2>5
          <3> QED BY <1>b, <1>f, <2>3, <3>1, FlyingFrame
      <2> QED BY <2>4, <2>5
  <1> QED BY <1>1, <1>2, <1>3, <1>4 DEF SocketThread

\* The server's nonce goes out on a connection with nothing in flight; the
\* commands that follow are those of the node at its other end.
LEMMA InFlightServer ==
  ASSUME TypeInv, ConnInv, DeliveryInv,
         \/ EpollThread \/ WebSocketThread \/ ServerRestart \/ UNCHANGED vars
  PROVE  InFlight'
  <1>t. /\ conn \in [Nodes -> Conns \cup {None}]
        /\ down \in [Conns -> Seq(Messages)]
        /\ target \in [Commands -> Nodes \cup {None}]
        /\ everSent \subseteq Commands
        /\ epoll \in EpollPosition
        /\ sinfo \in [Conns -> ConnInfo]
        /\ commandsQueue \in Seq(Request(Nodes, Commands))
      BY DEF TypeInv, TypeOK
  <1>c. conn' = conn /\ info' = info
      BY DEF EpollThread, ServerAccept, ServerRecvNonce, ServerRecvBeacon, ServerClose,
             SendQueuedMessages, SkipRequest, SendCommand, RemoveRequest,
             EndSendQueued, WebSocketThread, RequestCommand, ServerRestart, vars,
             nodeVars
  <1> SUFFICES ASSUME NEW n \in Nodes, NEW c \in Conns, conn[n] = c
               PROVE  Flying(n, c)'
      BY <1>c DEF InFlight, Flying
  <1>f. Flying(n, c)
      BY DEF DeliveryInv, InFlight, Flying
  <1>1. CASE \E d \in Conns : ServerRecvNonce(d)
      <2>1. PICK d \in Conns : ServerRecvNonce(d)
          BY <1>1
      <2>2. /\ status[d] = "open" /\ sinfo[d].localNonce = 0
            /\ everSent' = everSent /\ target' = target
          BY <2>1 DEF ServerRecvNonce, histVars
      <2>3. PICK msg : down' = [down EXCEPT ![d] = IF peerClosed[d] THEN @
                                                   ELSE Append(@, msg)]
          BY <2>1 DEF ServerRecvNonce, SendDown
      <2>4. CASE c = d
          <3>1. down[c] = <<>> /\ info[n].sessionId = 0
              BY <2>2, <2>4 DEF ConnInv, NodeSides, NodeSide, Fresh
          <3>2. down'[c] = <<>> \/ down'[c] = <<msg>>
              BY <1>t, <2>3, <2>4, <3>1
          <3>3. \A k \in DOMAIN down'[c] : ~(k > 1)
              BY <3>2
          <3> QED BY <1>c, <3>1, <3>3 DEF Flying
      <2>5. CASE c # d
          BY <1>c, <1>f, <1>t, <2>2, <2>3, <2>5, FlyingFrame
      <2> QED BY <2>4, <2>5
  <1>2. CASE SendCommand
      <2> DEFINE cmd == Current.commands[epoll.j]
                 msg == SessionMessage(sinfo[c], None, cmd)
      <2>1. target' = target /\ everSent \subseteq everSent'
          BY <1>2 DEF SendCommand
      <2>2. CASE c = epoll.conn /\ sinfo[c].sessionId # 0 /\ ~peerClosed[c]
          <3>1. down'[c] = Append(down[c], msg) /\ cmd \in everSent'
              BY <1>2, <1>t, <2>2 DEF SendCommand, SendDown
          <3>2. /\ epoll.i \in DOMAIN commandsQueue /\ epoll.dev = Current.devId
                /\ epoll.j \in Nat \ {0} /\ epoll.j <= Len(Current.commands)
              BY <1>2, <1>t DEF SendCommand, Matches, EpollPosition
          <3>3. Current.commands \in Seq(Commands)
              BY <1>t, <3>2, RequestFields DEF Current
          <3>4. cmd \in Commands /\ epoll.j \in DOMAIN Current.commands
              BY <3>2, <3>3
          <3>5. target[cmd] = Current.devId
              BY <3>2, <3>4 DEF DeliveryInv, QueueFiled, Current
          <3>6. epoll.dev = n
              BY <2>2, NoneAssumption DEF DeliveryInv, ServesHolder
          <3>7. msg \in Messages /\ msg.body = cmd
              <4>1. sinfo[c] \in ConnInfo
                  BY <1>t
              <4>2. msg \in Messages
                  BY <3>4, <4>1, SendType DEF Bodies
              <4> QED BY <4>2 DEF SessionMessage, encryptPckData
          <3> HIDE DEF msg, cmd
          <3>8. /\ DOMAIN down[c] = 1 .. Len(down[c]) /\ Len(down[c]) \in Nat
                /\ DOMAIN down'[c] = 1 .. (Len(down[c]) + 1)
                /\ down'[c][Len(down[c]) + 1] = msg
                /\ \A k \in DOMAIN down[c] : down'[c][k] = down[c][k]
              BY <1>t, <3>1, <3>7, AppendElements
          <3> SUFFICES ASSUME NEW k \in DOMAIN down'[c], k > 1 \/ info[n].sessionId # 0
                       PROVE  SentTo(n, down[c][k].body)'
              BY <1>c DEF Flying
          <3>9. CASE k = Len(down[c]) + 1
              BY <2>1, <3>1, <3>2, <3>5, <3>6, <3>7, <3>8, <3>9 DEF SentTo
          <3>10. CASE k \in DOMAIN down[c]
              <4>1. SentTo(n, down[c][k].body)
                  BY <1>f, <3>10 DEF Flying
              <4> QED BY <2>1, <3>8, <3>10, <4>1 DEF SentTo
          <3> QED BY <3>8, <3>9, <3>10
      <2>3. CASE ~(c = epoll.conn /\ sinfo[c].sessionId # 0 /\ ~peerClosed[c])
          <3>1. down'[c] = down[c]
              BY <1>2, <1>t, <2>3 DEF SendCommand, SendDown
          <3> QED BY <1>c, <1>f, <2>1, <3>1, FlyingFrame
      <2> QED BY <2>2, <2>3
  <1>3. CASE WebSocketThread
      <2>1. PICK d \in Nodes, cmd \in Commands : RequestCommand(d, cmd)
          BY <1>3 DEF WebSocketThread
      <2>2. /\ target[cmd] = None /\ target' = [target EXCEPT ![cmd] = d]
            /\ everSent' = everSent /\ down' = down
          BY <2>1 DEF RequestCommand, chanVars
      <2>3. \A b : SentTo(n, b) => SentTo(n, b)'
          BY <1>t, <2>2, NoneAssumption DEF SentTo
      <2> QED BY <1>c, <1>f, <2>2, <2>3 DEF Flying
  <1>4. CASE \/ ConnStepOnly \/ SkipRequest \/ RemoveRequest \/ EndSendQueued
             \/ ServerRestart \/ UNCHANGED vars
      <2>1. down' = down /\ target' = target /\ everSent' = everSent
          BY <1>4 DEF ConnStepOnly, ServerAccept, ServerRecvBeacon, ServerClose,
             SkipRequest, RemoveRequest, EndSendQueued, ServerRestart, vars, chanVars,
             histVars
      <2> QED BY <1>c, <1>f, <2>1, FlyingFrame
  <1> QED BY <1>1, <1>2, <1>3, <1>4 DEF EpollThread, SendQueuedMessages, ConnStepOnly

\* Every step preserves the invariant.
LEMMA DeliveryStep == TypeInv /\ ConnInv /\ DeliveryInv /\ [Next]_vars => DeliveryInv'
  <1> SUFFICES ASSUME TypeInv, ConnInv, DeliveryInv, [Next]_vars PROVE DeliveryInv'
      OBVIOUS
  <1>1. QueueFiled /\ WalkInStep /\ ServesHolder /\ InFlight
      BY DEF DeliveryInv
  <1>2. ServesHolder'
      BY <1>1, ServesHolderKept
  <1>3. InFlight'
      BY <1>1, InFlightNode, InFlightServer DEF Next
  <1>4. CASE NodeStep \/ ConnStepOnly \/ UNCHANGED vars
      <2>1. UNCHANGED <<epoll, commandsQueue, target, everSent, dropped>>
          BY <1>4, QuietSteps
      <2>2. QueueFiled' /\ WalkInStep'
          BY <1>1, <2>1 DEF QueueFiled, WalkInStep, Idle, Matches, Current
      <2> QED BY <1>2, <1>3, <2>2 DEF DeliveryInv
  <1>5. CASE \E c \in Conns : ServerRecvNonce(c)
      <2>1. epoll'.j = 1 /\ commandsQueue' = commandsQueue /\ target' = target
          BY <1>5 DEF ServerRecvNonce, histVars
      <2>2. QueueFiled' /\ WalkInStep'
          BY <1>1, <2>1 DEF QueueFiled, WalkInStep
      <2> QED BY <1>2, <1>3, <2>2 DEF DeliveryInv
  <1>6. CASE SendQueuedMessages \/ WebSocketThread
      <2>1. WalkInStep'
          BY <1>1, <1>6, WalkKept
      <2>2. CASE SkipRequest \/ SendCommand \/ EndSendQueued
          <3>1. commandsQueue' = commandsQueue /\ target' = target
              BY <2>2 DEF SkipRequest, SendCommand, EndSendQueued, histVars
          <3> QED BY <1>1, <1>2, <1>3, <2>1, <3>1 DEF DeliveryInv, QueueFiled
      <2>3. CASE RemoveRequest \/ WebSocketThread
          <3>1. QueueFiled'
              BY <1>1, <2>3, QueueFiledRemove, QueueFiledRequest DEF WebSocketThread
          <3> QED BY <1>2, <1>3, <2>1, <3>1 DEF DeliveryInv
      <2> QED BY <1>6, <2>2, <2>3 DEF SendQueuedMessages
  <1>7. CASE ServerRestart
      <2>1. commandsQueue' = <<>> /\ epoll'.j = 1
          BY <1>7 DEF ServerRestart
      <2>2. QueueFiled' /\ WalkInStep'
          BY <2>1 DEF QueueFiled, WalkInStep
      <2> QED BY <1>2, <1>3, <2>2 DEF DeliveryInv
  <1> QED BY <1>4, <1>5, <1>6, <1>7 DEF Next, NodeStep, EpollThread, ConnStepOnly

-----------------------------------------------------------------------------
(***************************************************************************)
(* The refinement.                                                         *)
(***************************************************************************)

\* Session's initial states are initial states of Delivery.
LEMMA RefinesInit == Init => Abstract!Init
  <1> SUFFICES ASSUME Init PROVE Abstract!Init
      OBVIOUS
  <1>1. commandsQueue = <<>> /\ target = [m \in Commands |-> None]
      BY DEF Init
  <1>2. Waiting = {}
      BY <1>1 DEF Waiting, QueuedFor
  <1> QED BY <1>1, <1>2 DEF Init, Abstract!Init

\* A step of a node that runs nothing and hangs up on nobody, and a step of the
\* server that touches neither the queue nor the books, is invisible.
LEMMA RefinesQuiet ==
  ASSUME UNCHANGED <<commandsQueue, target, everSent, dropped, executed>>
  PROVE  UNCHANGED Abstract!vars
  BY DEF Abstract!vars, Waiting

\* A step of a node runs a command, hangs up, or changes nothing that
\* Delivery sees.
LEMMA RefinesNode ==
  ASSUME TypeInv, DeliveryInv, NEW n \in Nodes, SocketThread(n) \/ MainLoop(n)
  PROVE  [Abstract!Next]_(Abstract!vars)
  <1>1. UNCHANGED <<commandsQueue, target, everSent, dropped>>
      BY QuietSteps DEF NodeStep
  <1>w. Waiting' = Waiting
      BY <1>1 DEF Waiting
  <1>2. CASE NodeExecute(n)
      <2>1. PICK c \in Conns : c = conn[n]
          BY <1>2, HoldsConn DEF NodeExecute
      <2> DEFINE cmd == Head(down[c]).body
      <2>2. /\ info[n].sessionId # 0 /\ down[c] # <<>>
            /\ executed' = [executed EXCEPT ![n] = Append(@, cmd)]
          BY <1>2, <2>1 DEF NodeExecute
      <2>3. down[c] \in Seq(Messages) /\ everSent \subseteq Commands
          BY DEF TypeInv, TypeOK
      <2>4. 1 \in DOMAIN down[c] /\ Head(down[c]) = down[c][1]
          BY <2>2, <2>3
      <2>5. SentTo(n, cmd)
          BY <2>1, <2>2, <2>4 DEF DeliveryInv, InFlight
      <2> HIDE DEF cmd
      <2>6. cmd \in Commands /\ Abstract!Execute(n, cmd)
          BY <1>1, <1>w, <2>2, <2>3, <2>5 DEF SentTo, Abstract!Execute
      <2> QED BY <2>6 DEF Abstract!Next
  <1>3. CASE NodeClose(n)
      <2>1. Abstract!HangUp(n)
          BY <1>1, <1>3, <1>w DEF NodeClose, Abstract!HangUp
      <2> QED BY <2>1 DEF Abstract!Next
  <1>4. CASE ~NodeExecute(n) /\ ~NodeClose(n)
      <2>1. executed' = executed
          BY <1>4 DEF SocketThread, MainLoop, NodeConnect, NodeRecvNonce,
             NodeStartSending, NodeSend, MainLoopCheck, MainLoopAdd, histVars
      <2> QED BY <1>1, <2>1, RefinesQuiet
  <1> QED BY <1>2, <1>3, <1>4

\* Sending takes a command out of the waiting ones; the request that is
\* removed holds only commands that were sent or discarded.
LEMMA RefinesWalk ==
  ASSUME TypeInv, TypeInv', DeliveryInv, DeliveryInv', SendQueuedMessages
  PROVE  [Abstract!Next]_(Abstract!vars)
  <1>t. /\ commandsQueue \in Seq(Request(Nodes, Commands))
        /\ epoll \in EpollPosition
      BY DEF TypeInv, TypeOK
  <1>q. QueueFiled /\ QueueFiled' /\ WalkInStep
      BY DEF DeliveryInv
  <1>1. CASE SkipRequest \/ EndSendQueued
      BY <1>1, RefinesQuiet DEF SkipRequest, EndSendQueued, histVars
  <1>c. ASSUME Matches
        PROVE  /\ epoll.i \in DOMAIN commandsQueue /\ epoll.i \in 1 .. Len(commandsQueue)
               /\ Current.commands \in Seq(Commands)
      <2>1. epoll.i \in DOMAIN commandsQueue /\ epoll.i \in 1 .. Len(commandsQueue)
          BY <1>c, <1>t DEF Matches, EpollPosition
      <2> QED BY <1>t, <2>1, RequestFields DEF Current
  <1>2. CASE SendCommand
      <2> DEFINE cmd == Current.commands[epoll.j]
      <2>1. /\ Matches /\ epoll.j <= Len(Current.commands)
            /\ UNCHANGED <<commandsQueue, target, executed>>
            /\ \/ everSent' = everSent \cup {cmd} /\ dropped' = dropped
               \/ dropped' = dropped \cup {cmd} /\ everSent' = everSent
          BY <1>2 DEF SendCommand
      <2>2. epoll.j \in DOMAIN Current.commands /\ cmd \in Commands
          <3>1. epoll.j \in Nat \ {0}
              BY <1>t DEF EpollPosition
          <3> QED BY <1>c, <2>1, <3>1
      <2>3. InQueue(commandsQueue, cmd)
          BY <1>c, <2>1, <2>2 DEF InQueue, Current
      <2>4. cmd \in Waiting /\ Waiting' = Waiting
          <3>1. cmd \in Waiting
              BY <1>q, <1>t, <2>2, <2>3, WaitingMember DEF QueueFiled, Waiting
          <3>2. Waiting' = Waiting
              BY <2>1 DEF Waiting
          <3> QED BY <3>1, <3>2
      <2> HIDE DEF cmd
      <2>5. Abstract!Send(cmd) \/ Abstract!Discard(cmd)
          BY <2>1, <2>4 DEF Abstract!Send, Abstract!Discard
      <2> QED BY <2>2, <2>5 DEF Abstract!Next
  <1>3. CASE RemoveRequest
      <2>1. /\ Matches /\ epoll.j > Len(Current.commands)
            /\ commandsQueue' = removeFromList(commandsQueue, epoll.i)
            /\ UNCHANGED <<target, executed, everSent, dropped>>
          BY <1>3 DEF RemoveRequest, histVars
      <2>2. /\ \A k \in DOMAIN commandsQueue' :
                  \E m \in DOMAIN commandsQueue : commandsQueue'[k] = commandsQueue[m]
            /\ \A m \in DOMAIN commandsQueue : m # epoll.i =>
                  \E k \in DOMAIN commandsQueue' : commandsQueue'[k] = commandsQueue[m]
          BY <1>c, <1>t, <2>1, RemovedCommands
      <2> DEFINE done == Waiting \ Waiting'
      <2>3. \A x \in Commands : (x \in Waiting' <=> InQueue(commandsQueue', x))
          <3>1. commandsQueue' \in Seq(Request(Nodes, Commands))
              BY DEF TypeInv, TypeOK
          <3> QED BY <1>q, <3>1, WaitingMember DEF QueueFiled, Waiting
      <2>4. \A x \in Commands : (x \in Waiting <=> InQueue(commandsQueue, x))
          BY <1>q, <1>t, WaitingMember DEF QueueFiled, Waiting
      <2>5. Waiting \subseteq Commands /\ Waiting' \subseteq Commands
          BY DEF Waiting
      <2>6. Waiting' \subseteq Waiting
          <3>1. \A x : InQueue(commandsQueue', x) => InQueue(commandsQueue, x)
              BY <2>2 DEF InQueue
          <3> QED BY <2>3, <2>4, <2>5, <3>1
      <2>7. ASSUME NEW x \in done PROVE x \in everSent \cup dropped
          <3>1. InQueue(commandsQueue, x) /\ ~InQueue(commandsQueue', x)
              BY <2>3, <2>4, <2>5
          <3>2. PICK m \in DOMAIN commandsQueue :
                   \E k \in DOMAIN commandsQueue[m].commands :
                      commandsQueue[m].commands[k] = x
              BY <3>1 DEF InQueue
          <3>3. m = epoll.i
              BY <2>2, <3>1, <3>2 DEF InQueue
          <3>4. PICK k \in DOMAIN Current.commands : Current.commands[k] = x
              BY <3>2, <3>3 DEF Current
          <3>5. k < epoll.j /\ epoll.j > 1
              <4>1. k \in Nat /\ k >= 1 /\ k <= Len(Current.commands)
                  BY <1>c, <2>1
              <4>2. epoll.j \in Nat /\ Len(Current.commands) \in Nat
                  BY <1>c, <1>t, <2>1 DEF EpollPosition
              <4> QED BY <2>1, <4>1, <4>2
          <3> QED BY <1>q, <3>4, <3>5 DEF WalkInStep
      <2>8. Waiting' = Waiting \ done /\ done \in SUBSET Commands
          BY <2>5, <2>6
      <2> HIDE DEF done
      <2>9. Abstract!Remove(done)
          BY <2>1, <2>7, <2>8 DEF Abstract!Remove
      <2> QED BY <2>8, <2>9 DEF Abstract!Next
  <1> QED BY <1>1, <1>2, <1>3 DEF SendQueuedMessages

\* A request adds one command to the waiting ones; a restart empties the queue.
LEMMA RefinesRequest ==
  ASSUME TypeInv, TypeInv', DeliveryInv, DeliveryInv', WebSocketThread
  PROVE  [Abstract!Next]_(Abstract!vars)
  <1>1. PICK n \in Nodes, cmd \in Commands : RequestCommand(n, cmd)
      BY DEF WebSocketThread
  <1>2. /\ target[cmd] = None /\ target' = [target EXCEPT ![cmd] = n]
        /\ commandsQueue' = addToCommandQueue(commandsQueue, n, cmd)
        /\ UNCHANGED <<everSent, dropped, executed>>
      BY <1>1 DEF RequestCommand
  <1>t. /\ commandsQueue \in Seq(Request(Nodes, Commands))
        /\ commandsQueue' \in Seq(Request(Nodes, Commands))
      BY DEF TypeInv, TypeOK
  <1>q. QueueFiled /\ QueueFiled'
      BY DEF DeliveryInv
  <1>3. \A x \in Commands : x \in Waiting <=> InQueue(commandsQueue, x)
      BY <1>q, <1>t, WaitingMember DEF QueueFiled, Waiting
  <1>4. \A x \in Commands : x \in Waiting' <=> InQueue(commandsQueue', x)
      BY <1>q, <1>t, WaitingMember DEF QueueFiled, Waiting
  <1>5. \A x \in Commands :
           InQueue(commandsQueue', x) <=> InQueue(commandsQueue, x) \/ x = cmd
      BY <1>2, <1>t, AddedCommands
  <1>6. Waiting \subseteq Commands /\ Waiting' \subseteq Commands
      BY DEF Waiting
  <1>7. Waiting' = Waiting \cup {cmd}
      BY <1>3, <1>4, <1>5, <1>6
  <1>8. Abstract!Request(n, cmd)
      BY <1>2, <1>7 DEF Abstract!Request
  <1> QED BY <1>8 DEF Abstract!Next

\* A restart of the server is a Restart of Delivery.
LEMMA RefinesRestart ==
  ASSUME TypeInv, DeliveryInv, ServerRestart
  PROVE  [Abstract!Next]_(Abstract!vars)
  <1> DEFINE lost == {cmd \in Commands :
                        \E n \in Nodes : cmd \in QueuedFor(commandsQueue, n)}
  <1>1. /\ commandsQueue' = <<>> /\ dropped' = dropped \cup lost
        /\ UNCHANGED <<target, executed, everSent>>
      BY DEF ServerRestart
  <1>2. Waiting' = {}
      BY <1>1 DEF Waiting, QueuedFor
  <1>3. commandsQueue \in Seq(Request(Nodes, Commands))
      BY DEF TypeInv, TypeOK
  <1>4. \A x \in Commands : x \in Waiting <=> InQueue(commandsQueue, x)
      BY <1>3, WaitingMember DEF DeliveryInv, QueueFiled, Waiting
  <1>5. \A x \in Commands : x \in lost <=> InQueue(commandsQueue, x)
      <2>1. \A i \in DOMAIN commandsQueue : commandsQueue[i].devId \in Nodes
          BY <1>3, RequestFields
      <2> QED BY <2>1, QueuedForMember DEF InQueue
  <1>6. lost = Waiting
      BY <1>4, <1>5 DEF Waiting
  <1> HIDE DEF lost
  <1>7. Abstract!Restart
      BY <1>1, <1>2, <1>6 DEF Abstract!Restart
  <1> QED BY <1>7 DEF Abstract!Next

\* Every step of Session is a step of Delivery or changes nothing it sees.
LEMMA RefinesStep ==
  ASSUME TypeInv, TypeInv', DeliveryInv, DeliveryInv', [Next]_vars
  PROVE  [Abstract!Next]_(Abstract!vars)
  <1>1. CASE \E c \in Conns : ServerAccept(c) \/ ServerRecvNonce(c)
                              \/ ServerRecvBeacon(c) \/ ServerClose(c)
      BY <1>1, RefinesQuiet DEF ServerAccept, ServerRecvNonce, ServerRecvBeacon,
         ServerClose, histVars
  <1>2. CASE UNCHANGED vars
      BY <1>2, RefinesQuiet DEF vars, serverVars, histVars
  <1> QED BY <1>1, <1>2, RefinesNode, RefinesWalk, RefinesRequest, RefinesRestart
          DEF Next, EpollThread

\* Session implements Delivery, whatever the number of nodes, connection slots
\* and commands: see ImplementsDelivery.
THEOREM DeliveryRefined == Spec => ImplementsDelivery
  <1> DEFINE Inv == TypeInv /\ ConnInv /\ DeliveryInv
  <1>1. Init => Inv
      BY TypeInit, ConnInit, DeliveryInit
  <1>2. Inv /\ [Next]_vars => Inv'
      BY TypeStep, ConnStep, DeliveryStep
  <1>3. Inv /\ Inv' /\ [Next]_vars => [Abstract!Next]_(Abstract!vars)
      BY RefinesStep
  <1> HIDE DEF Inv
  <1> QED BY <1>1, <1>2, <1>3, RefinesInit, PTL
          DEF Spec, ImplementsDelivery, Abstract!Spec

\* A requested command has been sent, was discarded, or is still queued for its
\* device: see SentOrQueued.
THEOREM NoCommandLost == Spec => []SentOrQueued
  <1> DEFINE Safe == \A cmd \in Commands : target[cmd] # None =>
                        cmd \in everSent \cup dropped \cup Waiting
  <1>1. Init => Safe
      BY DEF Init
  <1>2. TypeInv /\ Safe /\ [Abstract!Next]_(Abstract!vars) => Safe'
      <2> SUFFICES ASSUME TypeInv, Safe, [Abstract!Next]_(Abstract!vars),
                          NEW cmd \in Commands, target'[cmd] # None
                   PROVE  cmd \in everSent' \cup dropped' \cup Waiting'
          OBVIOUS
      <2>1. target \in [Commands -> Nodes \cup {None}]
          BY DEF TypeInv, TypeOK
      <2> QED BY <2>1 DEF Abstract!Next, Abstract!vars, Abstract!Request, Abstract!Execute,
                 Abstract!Send, Abstract!Discard, Abstract!Remove, Abstract!HangUp,
                 Abstract!Restart
  <1>3. Safe => SentOrQueued
      BY DEF SentOrQueued, Waiting
  <1> HIDE DEF Safe
  <1> QED BY <1>1, <1>2, <1>3, DeliveryRefined, TypeInvariant, PTL
          DEF Spec, ImplementsDelivery, Abstract!Spec

-----------------------------------------------------------------------------
(***************************************************************************)
(* Order: messages arrive in the order and with the numbers they were sent *)
(* with, for any modulus, and the queue of requests keeps that order.      *)
(*                                                                         *)
(* What a node has run is a prefix of what was sent on its connection only *)
(* because everything between them is still on its way, in order; and a    *)
(* message has the right number because the counter of its sender counts   *)
(* what was sent, also while the node does not know the sessionId yet.  So *)
(* the invariant relates four things: what was sent, what is in flight,    *)
(* what was run, and the counters modulo 2^32.                             *)
(***************************************************************************)
USE DEF Word

\* Every request holds a command.
RequestsHold == \A i \in DOMAIN commandsQueue : Len(commandsQueue[i].commands) > 0
QueueInv == RequestsHold /\ QueueSuffixes

\* The books of connection c: nothing has been sent or taken on it before the
\* server's answer, and then the counter counts what has been sent.
ServerBooks(c) ==
    /\ ~Answered(c) => served[c] = 0
    /\ (status[c] = "free" \/ Fresh(c)) => sent[c] = <<>>
    /\ Answered(c) => sinfo[c].sendSessionIncrements = Len(sent[c]) % Modulus

\* The sessionId that node n will compute from the first message on connection c.
Sum(n, c) == Add(Swap[info[n].localNonce], NonceOf(Head(down[c])))

\* What node n, which holds connection c, has run and what is on its way to it
\* are the commands that were sent, in order and numbered: before the server's
\* nonce was sent, with the nonce on its way, and after it was taken.
Unanswered(n, c) == sent[c] = <<>> /\ executed[n] = <<>> /\ info[n].sessionId = 0
Offered(n, c) ==
    /\ executed[n] = <<>> /\ info[n].sessionId = 0
    /\ NonceOf(Head(down[c])) # 0
    /\ Len(down[c]) = Len(sent[c]) + 1
    /\ Sum(n, c) = 0 => sent[c] = <<>>
    /\ \A k \in DOMAIN sent[c] : /\ down[c][k + 1].body = sent[c][k]
                                 /\ down[c][k + 1].nonce = Add(Sum(n, c), k)
Taken(n, c) ==
    /\ info[n].sessionId = 0 => sent[c] = <<>>
    /\ Len(sent[c]) = Len(executed[n]) + Len(down[c])
    /\ \A k \in DOMAIN down[c] :
          /\ down[c][k].body = sent[c][Len(executed[n]) + k]
          /\ down[c][k].nonce = Add(info[n].sessionId, Len(executed[n]) + k)
Ran(n, c) ==
    \A k \in DOMAIN executed[n] : /\ executed[n][k] = sent[c][k]
                                  /\ executed[n][k] \in Commands
                                  /\ target[executed[n][k]] = n
DownInOrder(n, c) ==
    /\ info[n].remoteNonce = 0 => IF down[c] = <<>> THEN Unanswered(n, c) ELSE Offered(n, c)
    /\ info[n].remoteNonce # 0 => Taken(n, c)
    /\ Ran(n, c)

\* The same for what is on its way from the node, whose counter counts what it
\* has sent in the session.
UpInOrder(n, c) ==
    /\ info[n].sessionId = 0 => info[n].sendSessionIncrements = 0
    /\ (Answered(c) /\ info[n].sessionId = 0) => up[c] = <<>> /\ served[c] = 0
    /\ (Answered(c) /\ info[n].sessionId # 0) =>
          /\ info[n].sendSessionIncrements = (served[c] + Len(up[c])) % Modulus
          /\ \A k \in DOMAIN up[c] :
                up[c][k].nonce = Add(info[n].sessionId, served[c] + k)

Books == \A c \in Conns : ServerBooks(c)
Resting == \A n \in Nodes : conn[n] = None => executed[n] = <<>>
NodesInOrder == \A n \in Nodes, c \in Conns : conn[n] = c => DownInOrder(n, c) /\ UpInOrder(n, c)
OrderInv == Books /\ Resting /\ NodesInOrder

-----------------------------------------------------------------------------
(***************************************************************************)
(* The requests of one device.                                             *)
(***************************************************************************)

\* t holds the last elements of s, but not all of them.
Ends(t, s) ==
    /\ Len(t) < Len(s)
    /\ \A k \in 1 .. Len(t) : t[k] = s[(Len(s) - Len(t)) + k]

\* Ends says what QueueSuffixes says with SubSeq.
LEMMA EndsSubSeq ==
  ASSUME NEW S, NEW s \in Seq(S), NEW t \in Seq(S)
  PROVE  Ends(t, s) <=> (Len(t) < Len(s) /\ t = SubSeq(s, Len(s) - Len(t) + 1, Len(s)))
  <1> SUFFICES ASSUME Len(t) < Len(s)
               PROVE  (\A k \in 1 .. Len(t) : t[k] = s[(Len(s) - Len(t)) + k])
                      <=> t = SubSeq(s, Len(s) - Len(t) + 1, Len(s))
      BY DEF Ends
  <1> DEFINE a == Len(s) - Len(t) + 1
             u == SubSeq(s, a, Len(s))
  <1>1. Len(s) \in Nat /\ Len(t) \in Nat /\ a \in 1 .. (Len(s) + 1)
      OBVIOUS
  <1>2. u \in Seq(S) /\ Len(u) = Len(t) /\ \A k \in 1 .. Len(t) : u[k] = s[(Len(s) - Len(t)) + k]
      <2>1. u = [k \in 1 .. ((Len(s) - a) + 1) |-> s[(a + k) - 1]]
          BY <1>1
      <2>2. (Len(s) - a) + 1 = Len(t)
          BY <1>1
      <2>3. \A k \in 1 .. Len(t) : (a + k) - 1 = (Len(s) - Len(t)) + k
                                   /\ (Len(s) - Len(t)) + k \in 1 .. Len(s)
          BY <1>1
      <2>4. u = [k \in 1 .. Len(t) |-> s[(a + k) - 1]]
          BY <2>1, <2>2
      <2>5. \A k \in 1 .. Len(t) : u[k] = s[(Len(s) - Len(t)) + k]
          BY <2>3, <2>4
      <2>6. u \in Seq(S)
          BY <1>1
      <2>7. Len(u) = Len(t)
          BY <1>1, <2>4, <2>6
      <2> QED BY <2>5, <2>6, <2>7
  <1> HIDE DEF u
  <1>3. (\A k \in 1 .. Len(t) : t[k] = u[k]) <=> t = u
      BY <1>1, <1>2, SeqEqual
  <1> QED BY <1>2, <1>3 DEF u

\* A queue in which a later request of a device holds the last commands of an
\* earlier one.
Suffixes(q) ==
    /\ \A i \in DOMAIN q : Len(q[i].commands) > 0
    /\ \A i, j \in DOMAIN q :
          i < j /\ q[i].devId = q[j].devId => Ends(q[j].commands, q[i].commands)

\* The invariant of the queue, in terms of Ends.
LEMMA SuffixesQueue ==
  ASSUME TypeInv
  PROVE  QueueInv <=> Suffixes(commandsQueue)
  <1>1. \A i \in DOMAIN commandsQueue : commandsQueue[i].commands \in Seq(Commands)
      BY RequestFields DEF TypeInv, TypeOK
  <1>2. \A i, j \in DOMAIN commandsQueue :
           Ends(commandsQueue[j].commands, commandsQueue[i].commands) <=>
             LET s == commandsQueue[i].commands
                 t == commandsQueue[j].commands
             IN  Len(t) < Len(s) /\ t = SubSeq(s, Len(s) - Len(t) + 1, Len(s))
      BY <1>1, EndsSubSeq
  <1> QED BY <1>2 DEF QueueInv, RequestsHold, QueueSuffixes, Suffixes

\* Both requests get the command.
LEMMA EndsAppend ==
  ASSUME NEW S, NEW s \in Seq(S), NEW t \in Seq(S), NEW e \in S, Ends(t, s)
  PROVE  Ends(Append(t, e), Append(s, e))
  <1>1. /\ Len(s) \in Nat /\ Len(t) \in Nat /\ Len(t) < Len(s)
        /\ DOMAIN s = 1 .. Len(s) /\ DOMAIN t = 1 .. Len(t)
        /\ \A k \in 1 .. Len(t) : t[k] = s[(Len(s) - Len(t)) + k]
        /\ Len(Append(s, e)) = Len(s) + 1 /\ Len(Append(t, e)) = Len(t) + 1
        /\ Append(s, e)[Len(s) + 1] = e /\ Append(t, e)[Len(t) + 1] = e
        /\ \A k \in 1 .. Len(s) : Append(s, e)[k] = s[k]
        /\ \A k \in 1 .. Len(t) : Append(t, e)[k] = t[k]
      BY DEF Ends
  <1>2. ASSUME NEW k \in 1 .. (Len(t) + 1)
        PROVE  Append(t, e)[k] = Append(s, e)[((Len(s) + 1) - (Len(t) + 1)) + k]
      <2>1. ((Len(s) + 1) - (Len(t) + 1)) + k = (Len(s) - Len(t)) + k
          BY <1>1
      <2>2. CASE k = Len(t) + 1
          <3>1. (Len(s) - Len(t)) + k = Len(s) + 1
              BY <1>1, <2>2
          <3> QED BY <1>1, <2>1, <2>2, <3>1
      <2>3. CASE k \in 1 .. Len(t)
          <3>1. (Len(s) - Len(t)) + k \in 1 .. Len(s)
              BY <1>1, <2>3
          <3> QED BY <1>1, <2>1, <2>3, <3>1
      <2>4. k = Len(t) + 1 \/ k \in 1 .. Len(t)
          OBVIOUS
      <2> QED BY <2>2, <2>3, <2>4
  <1>3. Len(Append(t, e)) < Len(Append(s, e))
      BY <1>1
  <1>4. \A k \in 1 .. Len(Append(t, e)) :
           Append(t, e)[k] = Append(s, e)[(Len(Append(s, e)) - Len(Append(t, e))) + k]
      <2>1. Len(Append(s, e)) = Len(s) + 1 /\ Len(Append(t, e)) = Len(t) + 1
          BY <1>1
      <2> QED BY <1>2, <2>1
  <1> QED BY <1>3, <1>4 DEF Ends

\* The new request holds the last command of the others.
LEMMA EndsNew ==
  ASSUME NEW S, NEW s \in Seq(S), NEW e \in S, Len(s) > 0
  PROVE  Ends(<<e>>, Append(s, e))
  <1>1. /\ Len(s) \in Nat /\ Len(Append(s, e)) = Len(s) + 1 /\ Append(s, e)[Len(s) + 1] = e
        /\ Len(<<e>>) = 1 /\ <<e>>[1] = e
      OBVIOUS
  <1>2. ((Len(s) + 1) - 1) + 1 = Len(s) + 1
      BY <1>1
  <1>3. \A k \in 1 .. 1 : <<e>>[k] = Append(s, e)[((Len(s) + 1) - 1) + k]
      BY <1>1, <1>2
  <1> QED BY <1>1, <1>3 DEF Ends

\* addToCommandQueue.
LEMMA SuffixesAdd ==
  ASSUME NEW q \in Seq(Request(Nodes, Commands)), NEW n \in Nodes, NEW cmd \in Commands,
         Suffixes(q)
  PROVE  Suffixes(addToCommandQueue(q, n, cmd))
  <1> DEFINE r == addToCommandQueue(q, n, cmd)
  <1>1. /\ DOMAIN r = 1 .. (Len(q) + 1)
        /\ r[Len(q) + 1] = NewRequest(n, cmd)
        /\ \A i \in DOMAIN q :
              /\ r[i].devId = q[i].devId
              /\ q[i].devId # n => r[i].commands = q[i].commands
              /\ q[i].devId = n => r[i].commands = Append(q[i].commands, cmd)
      BY AddedRequests
  <1> HIDE DEF r
  <1>2. /\ DOMAIN q = 1 .. Len(q) /\ Len(q) \in Nat
        /\ \A i \in DOMAIN q : q[i].devId \in Nodes /\ q[i].commands \in Seq(Commands)
      BY RequestFields
  <1>3. r[Len(q) + 1].commands = <<cmd>> /\ r[Len(q) + 1].devId = n
      BY <1>1 DEF NewRequest
  <1>4. ASSUME NEW i \in DOMAIN r PROVE Len(r[i].commands) > 0
      <2>1. CASE i = Len(q) + 1
          <3>1. r[i].commands = <<cmd>> /\ Len(<<cmd>>) = 1
              BY <1>3, <2>1
          <3> QED BY <3>1
      <2>2. CASE i \in DOMAIN q
          <3>1. q[i].commands \in Seq(Commands) /\ Len(q[i].commands) > 0
              BY <1>2, <2>2 DEF Suffixes
          <3>2. Len(Append(q[i].commands, cmd)) = Len(q[i].commands) + 1
                /\ Len(q[i].commands) \in Nat
              BY <3>1
          <3> QED BY <1>1, <2>2, <3>1, <3>2
      <2> QED BY <1>1, <1>2, <2>1, <2>2
  <1>5. ASSUME NEW i \in DOMAIN r, NEW j \in DOMAIN r, i < j, r[i].devId = r[j].devId
        PROVE  Ends(r[j].commands, r[i].commands)
      <2>0. i \in DOMAIN q /\ q[i].commands \in Seq(Commands) /\ Len(q[i].commands) > 0
          <3>1. i \in DOMAIN q
              BY <1>1, <1>2, <1>5
          <3> QED BY <1>2, <3>1 DEF Suffixes
      <2>1. CASE j = Len(q) + 1
          <3>1. r[i].commands = Append(q[i].commands, cmd)
              BY <1>1, <1>3, <1>5, <2>0, <2>1
          <3> QED BY <1>3, <2>0, <2>1, <3>1, EndsNew
      <2>2. CASE j \in DOMAIN q
          <3>1. /\ q[j].commands \in Seq(Commands) /\ q[i].devId = q[j].devId
                /\ Ends(q[j].commands, q[i].commands)
              BY <1>1, <1>2, <1>5, <2>0, <2>2 DEF Suffixes
          <3>2. CASE q[i].devId # n
              BY <1>1, <2>0, <2>2, <3>1, <3>2
          <3>3. CASE q[i].devId = n
              <4>1. Ends(Append(q[j].commands, cmd), Append(q[i].commands, cmd))
                  BY <2>0, <3>1, EndsAppend
              <4> QED BY <1>1, <2>0, <2>2, <3>1, <3>3, <4>1
          <3> QED BY <3>2, <3>3
      <2> QED BY <1>1, <1>2, <2>1, <2>2
  <1> QED BY <1>4, <1>5 DEF Suffixes, r

\* removeFromList keeps the order of the others.
LEMMA SuffixesRemove ==
  ASSUME NEW q \in Seq(Request(Nodes, Commands)), NEW i \in 1 .. Len(q), Suffixes(q)
  PROVE  Suffixes(removeFromList(q, i))
  <1> DEFINE r == removeFromList(q, i)
             old(k) == IF k < i THEN k ELSE k + 1
  <1>1. /\ DOMAIN q = 1 .. Len(q) /\ Len(q) \in Nat
        /\ DOMAIN r = 1 .. (Len(q) - 1)
        /\ \A k \in DOMAIN r : r[k] = q[old(k)]
      BY DEF removeFromList
  <1> HIDE DEF r
  <1>2. \A k \in DOMAIN r : old(k) \in DOMAIN q
      BY <1>1
  <1>3. \A k, m \in DOMAIN r : k < m => old(k) < old(m)
      BY <1>1
  <1> HIDE DEF old
  <1>4. \A k \in DOMAIN r : Len(r[k].commands) > 0
      BY <1>1, <1>2 DEF Suffixes
  <1>5. ASSUME NEW k \in DOMAIN r, NEW m \in DOMAIN r, k < m, r[k].devId = r[m].devId
        PROVE  Ends(r[m].commands, r[k].commands)
      BY <1>1, <1>2, <1>3, <1>5 DEF Suffixes
  <1> QED BY <1>4, <1>5 DEF Suffixes, r

\* Only requesting, removing and restarting change the queue.
LEMMA QueueStep == TypeInv /\ QueueInv /\ [Next]_vars => QueueInv'
  <1> SUFFICES ASSUME TypeInv, QueueInv, [Next]_vars PROVE QueueInv'
      OBVIOUS
  <1>1. TypeInv' /\ commandsQueue \in Seq(Request(Nodes, Commands)) /\ Suffixes(commandsQueue)
      BY TypeStep, SuffixesQueue DEF TypeInv, TypeOK
  <1>2. (QueueInv <=> Suffixes(commandsQueue))'
      BY <1>1, SuffixesQueue, PTL
  <1>3. CASE commandsQueue' = commandsQueue
      BY <1>3 DEF QueueInv, RequestsHold, QueueSuffixes
  <1>4. CASE WebSocketThread
      BY <1>1, <1>2, <1>4, SuffixesAdd DEF WebSocketThread, RequestCommand, Suffixes
  <1>5. CASE RemoveRequest
      <2>1. commandsQueue' = removeFromList(commandsQueue, epoll.i)
            /\ epoll.i \in 1 .. Len(commandsQueue)
          BY <1>5 DEF RemoveRequest, TypeInv, TypeOK, EpollPosition, Matches
      <2> QED BY <1>1, <1>2, <2>1, SuffixesRemove DEF Suffixes
  <1>6. CASE ServerRestart
      <2>1. commandsQueue' = <<>>
          BY <1>6 DEF ServerRestart
      <2> QED BY <2>1 DEF QueueInv, RequestsHold, QueueSuffixes
  <1>7. CASE \/ NodeStep \/ ConnStepOnly \/ UNCHANGED vars
             \/ \E c \in Conns : ServerRecvNonce(c)
             \/ SkipRequest \/ SendCommand \/ EndSendQueued
      <2>1. commandsQueue' = commandsQueue
          BY <1>7, QuietSteps DEF ServerRecvNonce, SkipRequest, SendCommand, EndSendQueued
      <2> QED BY <1>3, <2>1
  <1> QED BY <1>4, <1>5, <1>6, <1>7
          DEF Next, NodeStep, EpollThread, ConnStepOnly, SendQueuedMessages

\* Requests that are queued twice are sent in the order of the requests.
THEOREM QueueInOrder == Spec => []QueueSuffixes
  <1>1. Init => QueueInv
      BY DEF Init, QueueInv, RequestsHold, QueueSuffixes
  <1>2. TypeInv /\ QueueInv /\ [Next]_vars => QueueInv'
      BY QueueStep
  <1>3. QueueInv => QueueSuffixes
      BY DEF QueueInv
  <1> QED BY <1>1, <1>2, <1>3, TypeInvariant, PTL DEF Spec

-----------------------------------------------------------------------------
(***************************************************************************)
(* Counting messages modulo 2^32.                                          *)
(***************************************************************************)

\* A multiple of the modulus below it is 0.
LEMMA SmallMultiple ==
  ASSUME NEW d \in Int, NEW m \in Nat, m > 0, d * m < m, -m < d * m
  PROVE  d = 0
  <1>1. CASE d >= 1
      <2>1. (d - 1) * m >= 0
          BY <1>1
      <2>2. (d - 1) * m = d * m - m
          OBVIOUS
      <2> QED BY <2>1, <2>2
  <1>2. CASE d <= -1
      <2>1. (-1 - d) * m >= 0
          BY <1>2
      <2>2. (-1 - d) * m = -m - d * m
          OBVIOUS
      <2> QED BY <2>1, <2>2
  <1> QED BY <1>1, <1>2

\* Division with remainder is unique.
LEMMA ModUnique ==
  ASSUME NEW x \in Int, NEW q \in Int, NEW r \in 0 .. (Modulus - 1), x = q * Modulus + r
  PROVE  x % Modulus = r
  <1> DEFINE p == x \div Modulus
             s == x % Modulus
  <1>1. Modulus \in Int /\ Modulus > 0 /\ Modulus \in Nat
      BY ModulusAssumption
  <1>2. p \in Int /\ s \in 0 .. (Modulus - 1) /\ x = Modulus * p + s
      BY <1>1
  <1> HIDE DEF p, s
  <1>3. (p - q) * Modulus = r - s
      BY <1>1, <1>2
  <1>4. p - q \in Int /\ (p - q) * Modulus < Modulus /\ -Modulus < (p - q) * Modulus
      BY <1>1, <1>2, <1>3
  <1>5. p - q = 0
      BY <1>1, <1>4, SmallMultiple
  <1>6. r - s = 0
      BY <1>1, <1>2, <1>3, <1>5
  <1> QED BY <1>1, <1>2, <1>6 DEF s

\* A summand may be reduced before the sum is.
LEMMA AddMod ==
  ASSUME NEW a \in Int, NEW b \in Int
  PROVE  (a + (b % Modulus)) % Modulus = (a + b) % Modulus
  <1> DEFINE p == b \div Modulus
             s == b % Modulus
             u == (a + s) \div Modulus
             v == (a + s) % Modulus
  <1>1. Modulus \in Int /\ Modulus > 0
      BY ModulusAssumption
  <1>2. p \in Int /\ s \in Int /\ b = Modulus * p + s
      BY <1>1
  <1> HIDE DEF p, s
  <1>3. u \in Int /\ v \in 0 .. (Modulus - 1) /\ a + s = Modulus * u + v
      BY <1>1, <1>2
  <1> HIDE DEF u, v
  <1>4. a + b = (u + p) * Modulus + v
      BY <1>1, <1>2, <1>3
  <1>5. (a + b) % Modulus = v
      BY <1>2, <1>3, <1>4, ModUnique
  <1> QED BY <1>5 DEF v, s

\* 0 is its own remainder.
LEMMA ZeroMod == 0 % Modulus = 0
  <1>1. Modulus \in Nat /\ 0 \in 0 .. (Modulus - 1) /\ 0 = 0 * Modulus + 0
      BY ModulusAssumption
  <1> QED BY <1>1, ModUnique

\* encryptAndSendAll after L messages: the message has number L + 1.
LEMMA Numbered ==
  ASSUME NEW ci \in ConnInfo, NEW dev, NEW body, NEW L \in Nat,
         ci.sendSessionIncrements = L % Modulus
  PROVE  /\ SessionMessage(ci, dev, body).nonce = Add(ci.sessionId, L + 1)
         /\ SessionMessage(ci, dev, body).body = body
         /\ SendInfo(ci).sendSessionIncrements = (L + 1) % Modulus
         /\ SendInfo(ci).sessionId = ci.sessionId
         /\ SendInfo(ci).localNonce = ci.localNonce
         /\ SendInfo(ci).remoteNonce = ci.remoteNonce
  <1>0. Modulus \in Int /\ Modulus > 1 /\ L + 1 \in Int
      BY ModulusAssumption
  <1>1. /\ ci.sessionId \in Word /\ ci.sendSessionIncrements \in Word
        /\ ci.sessionId \in Int
      BY <1>0 DEF ConnInfo
  <1>2. Add(ci.sendSessionIncrements, 1) = (L + 1) % Modulus
      <2>1. (1 + (L % Modulus)) % Modulus = (1 + L) % Modulus
          BY AddMod
      <2>2. L % Modulus \in Int /\ 1 + (L % Modulus) = (L % Modulus) + 1 /\ 1 + L = L + 1
          BY <1>0
      <2> QED BY <2>1, <2>2 DEF Add
  <1>3. /\ SendInfo(ci).sendSessionIncrements = (L + 1) % Modulus
        /\ SendInfo(ci).sessionId = ci.sessionId
        /\ SendInfo(ci).localNonce = ci.localNonce
        /\ SendInfo(ci).remoteNonce = ci.remoteNonce
      BY <1>2 DEF SendInfo, ConnInfo
  <1>4. Add(ci.sessionId, (L + 1) % Modulus) = Add(ci.sessionId, L + 1)
      BY <1>0, <1>1, AddMod DEF Add
  <1>5. Add(ci.sessionId, (L + 1) % Modulus) \in Word
      <2>1. (L + 1) % Modulus \in Word
          BY <1>0
      <2> QED BY <1>1, <2>1, AddWord
  <1> QED BY <1>3, <1>4, <1>5, SwapWord DEF SessionMessage, encryptPckData

-----------------------------------------------------------------------------
(***************************************************************************)
(* What a step does not touch stays in order.                              *)
(***************************************************************************)
LEMMA BooksFrame ==
  ASSUME NEW c \in Conns, ServerBooks(c), status'[c] = status[c], sinfo'[c] = sinfo[c],
         served'[c] = served[c], sent'[c] = sent[c]
  PROVE  ServerBooks(c)'
  BY DEF ServerBooks, Answered, Fresh

\* What is on its way to a node stays in order; targets, once set, stay.
LEMMA DownFrame ==
  ASSUME NEW n \in Nodes, NEW c \in Conns, DownInOrder(n, c),
         info'[n].localNonce = info[n].localNonce,
         info'[n].remoteNonce = info[n].remoteNonce,
         info'[n].sessionId = info[n].sessionId,
         down'[c] = down[c], sent'[c] = sent[c], executed'[n] = executed[n],
         \A cmd \in Commands : target[cmd] = n => target'[cmd] = n
  PROVE  DownInOrder(n, c)'
  <1>1. Sum(n, c)' = Sum(n, c)
      BY DEF Sum, NonceOf
  <1>2. (Unanswered(n, c) => Unanswered(n, c)') /\ (Taken(n, c) => Taken(n, c)')
      BY DEF Unanswered, Taken
  <1>3. Offered(n, c) => Offered(n, c)'
      BY <1>1 DEF Offered, NonceOf
  <1>4. Ran(n, c) => Ran(n, c)'
      BY DEF Ran
  <1> QED BY <1>2, <1>3, <1>4 DEF DownInOrder

\* What is on its way from a node stays in order, or is not counted any more.
LEMMA UpFrame ==
  ASSUME NEW n \in Nodes, NEW c \in Conns, UpInOrder(n, c), info'[n] = info[n],
         Answered(c)' => Answered(c) /\ up'[c] = up[c] /\ served'[c] = served[c]
  PROVE  UpInOrder(n, c)'
  BY DEF UpInOrder

\* What is in order for a node before a step.
LEMMA InOrder ==
  ASSUME OrderInv, NEW n \in Nodes, NEW c \in Conns, conn[n] = c
  PROVE  DownInOrder(n, c) /\ UpInOrder(n, c)
  BY DEF OrderInv, NodesInOrder

\* A connection has one holder.
LEMMA OtherConn ==
  ASSUME ConnInv, NEW m \in Nodes, NEW n \in Nodes, NEW c \in Conns, NEW d \in Conns,
         conn[m] = d, conn[n] = c, m # n
  PROVE  d # c
  BY NoneAssumption DEF ConnInv, OneHolder

\* Steps that touch nothing that is counted.
LEMMA OrderSame ==
  ASSUME OrderInv, UNCHANGED <<conn, info, status, up, down, sinfo, sent, executed, served>>,
         \A cmd \in Commands, n \in Nodes : target[cmd] = n => target'[cmd] = n
  PROVE  OrderInv'
  <1>1. Books'
      BY BooksFrame DEF OrderInv, Books
  <1>2. Resting'
      BY DEF OrderInv, Resting
  <1>3. ASSUME NEW n \in Nodes, NEW c \in Conns, conn'[n] = c
        PROVE  DownInOrder(n, c)' /\ UpInOrder(n, c)'
      <2>1. DownInOrder(n, c) /\ UpInOrder(n, c)
          BY <1>3, InOrder
      <2>2. DownInOrder(n, c)'
          BY <2>1, DownFrame
      <2>3. Answered(c)' => Answered(c)
          BY DEF Answered
      <2> QED BY <2>1, <2>2, <2>3, UpFrame
  <1> QED BY <1>1, <1>2, <1>3 DEF OrderInv, NodesInOrder

-----------------------------------------------------------------------------
(***************************************************************************)
(* The steps of a node.                                                    *)
(***************************************************************************)

\* A node takes a slot on which nothing has been sent.
LEMMA OrderNodeConnect ==
  ASSUME TypeInv, ConnInv, OrderInv, NEW n \in Nodes, NodeConnect(n)
  PROVE  OrderInv'
  <1>1. PICK c \in Conns, r \in Nonce :
           /\ status[c] = "free"
           /\ status' = [status EXCEPT ![c] = "backlog"]
           /\ conn' = [conn EXCEPT ![n] = c]
           /\ info' = [info EXCEPT ![n] = [InitConnInfo EXCEPT !.localNonce = r]]
           /\ up' = [up EXCEPT ![c] = <<NonceMessage(r, n)>>]
      BY DEF NodeConnect
  <1>2. /\ pc[n] = "sleep"
        /\ UNCHANGED <<down, sinfo, target, sent, executed, served>>
      BY DEF NodeConnect, serverVars, histVars
  <1>t. /\ conn \in [Nodes -> Conns \cup {None}]
        /\ info \in [Nodes -> ConnInfo]
        /\ status \in [Conns -> {"free", "backlog", "open", "gone"}]
        /\ up \in [Conns -> Seq(Messages)]
      BY DEF TypeInv, TypeOK
  <1>3. /\ down[c] = <<>> /\ sent[c] = <<>> /\ served[c] = 0
      BY <1>1 DEF ConnInv, ServerSides, ServerSide, OrderInv, Books, ServerBooks, Answered
  <1>4. executed[n] = <<>>
      BY <1>2 DEF TypeInv, SocketInv, OrderInv, Resting
  <1>5. /\ info'[n].remoteNonce = 0 /\ info'[n].sessionId = 0
        /\ info'[n].sendSessionIncrements = 0
        /\ \A m \in Nodes : m # n => info'[m] = info[m] /\ conn'[m] = conn[m]
        /\ conn'[n] = c /\ status'[c] = "backlog"
        /\ \A d \in Conns : d # c => status'[d] = status[d] /\ up'[d] = up[d]
      BY <1>1, <1>t DEF InitConnInfo
  <1>6. Books'
      <2> SUFFICES ASSUME NEW d \in Conns PROVE ServerBooks(d)'
          BY DEF Books
      <2>1. ServerBooks(d)
          BY DEF OrderInv, Books
      <2>2. CASE d # c
          BY <1>2, <1>5, <2>1, <2>2, BooksFrame
      <2>3. CASE d = c
          BY <1>2, <1>3, <1>5, <2>3 DEF ServerBooks, Answered
      <2> QED BY <2>2, <2>3
  <1>7. Resting'
      BY <1>2, <1>4, <1>5 DEF OrderInv, Resting
  <1>8. ASSUME NEW m \in Nodes, NEW d \in Conns, conn'[m] = d
        PROVE  DownInOrder(m, d)' /\ UpInOrder(m, d)'
      <2>1. CASE m = n
          <3>1. d = c
              BY <1>5, <1>8, <2>1
          <3>2. DOMAIN executed'[n] = {}
              BY <1>2, <1>4
          <3>3. Ran(n, c)' /\ Unanswered(n, c)'
              BY <1>2, <1>3, <1>4, <1>5, <3>2 DEF Ran, Unanswered
          <3>4. DownInOrder(n, c)'
              BY <1>2, <1>3, <1>5, <3>3 DEF DownInOrder
          <3>5. ~Answered(c)'
              BY <1>5 DEF Answered
          <3> QED BY <1>5, <2>1, <3>1, <3>4, <3>5 DEF UpInOrder
      <2>2. CASE m # n
          <3>1. conn[m] = d
              BY <1>5, <1>8, <2>2
          <3>2. d # c
              BY <1>1, <3>1 DEF ConnInv, NodeSides, NodeSide
          <3>3. DownInOrder(m, d) /\ UpInOrder(m, d)
              BY <3>1, InOrder
          <3>4. DownInOrder(m, d)'
              BY <1>2, <1>5, <2>2, <3>3, DownFrame
          <3>5. Answered(d)' => Answered(d)
              BY <1>2, <1>5, <3>2 DEF Answered
          <3> QED BY <1>2, <1>5, <2>2, <3>2, <3>3, <3>4, <3>5, UpFrame
      <2> QED BY <2>1, <2>2
  <1> QED BY <1>6, <1>7, <1>8 DEF OrderInv, NodesInOrder

\* A node takes the nonce: what follows it are the commands from the first on.
LEMMA OrderNodeRecvNonce ==
  ASSUME TypeInv, ConnInv, OrderInv, NEW n \in Nodes, NodeRecvNonce(n)
  PROVE  OrderInv'
  <1>0. PICK c \in Conns : c = conn[n]
      BY HoldsConn DEF NodeRecvNonce
  <1>t. /\ info \in [Nodes -> ConnInfo]
        /\ down \in [Conns -> Seq(Messages)]
        /\ sent \in [Conns -> Seq(Commands)]
      BY DEF TypeInv, TypeOK
  <1>1. /\ info[n].sessionId = 0 /\ down[c] # <<>>
        /\ info' = [info EXCEPT ![n] = Establish(@, Head(down[c]))]
        /\ down' = [down EXCEPT ![c] = Tail(@)]
        /\ UNCHANGED <<conn, status, up, sinfo, target, sent, executed, served>>
      BY <1>0 DEF NodeRecvNonce, serverVars, histVars
  <1>2. /\ info'[n] = Establish(info[n], Head(down[c])) /\ down'[c] = Tail(down[c])
        /\ \A m \in Nodes : m # n => info'[m] = info[m]
        /\ \A d \in Conns : d # c => down'[d] = down[d]
      BY <1>1, <1>t
  <1>3. /\ info'[n].remoteNonce = NonceOf(Head(down[c]))
        /\ info'[n].sessionId = Sum(n, c)
        /\ info'[n].sendSessionIncrements = info[n].sendSessionIncrements
      BY <1>2, <1>t DEF Establish, ConnInfo, Sum
  <1>4. /\ down[c] \in Seq(Messages) /\ sent[c] \in Seq(Commands)
        /\ Len(down[c]) \in Nat \ {0} /\ Len(sent[c]) \in Nat
        /\ Len(down'[c]) = Len(down[c]) - 1
        /\ DOMAIN sent[c] = 1 .. Len(sent[c])
        /\ DOMAIN down'[c] = 1 .. (Len(down[c]) - 1)
        /\ \A k \in DOMAIN down'[c] : down'[c][k] = down[c][k + 1]
      BY <1>1, <1>2, <1>t
  <1>5. DownInOrder(n, c) /\ UpInOrder(n, c)
      BY <1>0, InOrder
  <1>6. info[n].remoteNonce = 0
      <2>1. ASSUME info[n].remoteNonce # 0 PROVE FALSE
          <3>1. Taken(n, c) /\ sent[c] = <<>>
              BY <1>1, <1>5, <2>1 DEF DownInOrder, Taken
          <3>2. executed[n] \in Seq(Bodies)
              BY DEF TypeInv, TypeOK
          <3>3. Len(executed[n]) \in Nat /\ Len(sent[c]) = 0
              BY <3>1, <3>2
          <3>4. Len(sent[c]) = Len(executed[n]) + Len(down[c])
              BY <3>1 DEF Taken
          <3>5. Len(down[c]) \in Nat /\ Len(down[c]) # 0
              BY <1>4
          <3> DEFINE E == Len(executed[n])
                     D == Len(down[c])
          <3>6. E \in Nat /\ D \in Nat /\ D # 0 /\ 0 = E + D
              BY <3>3, <3>4, <3>5
          <3> HIDE DEF E, D
          <3> QED BY <3>6
      <2> QED BY <2>1
  <1>7. Offered(n, c)
      BY <1>1, <1>5, <1>6 DEF DownInOrder
  <1>8. executed[n] = <<>> /\ Len(executed[n]) = 0 /\ DOMAIN executed[n] = {}
      BY <1>7 DEF Offered
  <1>9. DownInOrder(n, c)'
      <2>1. info'[n].remoteNonce # 0
          BY <1>3, <1>7 DEF Offered
      <2>2. ASSUME NEW k \in DOMAIN down'[c]
            PROVE  /\ down'[c][k].body = sent[c][0 + k]
                   /\ down'[c][k].nonce = Add(Sum(n, c), 0 + k)
          <3>1. k \in DOMAIN sent[c] /\ 0 + k = k
              BY <1>4, <1>7 DEF Offered
          <3> QED BY <1>4, <1>7, <3>1 DEF Offered
      <2>3. Len(sent[c]) = 0 + Len(down'[c])
          BY <1>4, <1>7 DEF Offered
      <2>4. Sum(n, c) = 0 => sent[c] = <<>>
          BY <1>7 DEF Offered
      <2>5. Taken(n, c)'
          BY <1>1, <1>3, <1>8, <2>2, <2>3, <2>4 DEF Taken
      <2>6. Ran(n, c)'
          BY <1>1, <1>8 DEF Ran
      <2> QED BY <2>1, <2>5, <2>6 DEF DownInOrder
  <1>10. UpInOrder(n, c)'
      <2>1. info'[n].sendSessionIncrements = 0
          BY <1>1, <1>3, <1>5 DEF UpInOrder
      <2>2. ASSUME Answered(c)' PROVE up'[c] = <<>> /\ served'[c] = 0
          BY <1>1, <1>5, <2>2 DEF UpInOrder, Answered
      <2>3. ASSUME Answered(c)'
            PROVE  /\ info'[n].sendSessionIncrements = (served'[c] + Len(up'[c])) % Modulus
                   /\ DOMAIN up'[c] = {}
          <3>1. served'[c] + Len(up'[c]) = 0 /\ DOMAIN up'[c] = {}
              BY <2>2, <2>3
          <3> QED BY <2>1, <3>1, ZeroMod
      <2> QED BY <2>1, <2>2, <2>3 DEF UpInOrder
  <1>11. Books'
      BY <1>1, BooksFrame DEF OrderInv, Books
  <1>12. Resting'
      BY <1>1 DEF OrderInv, Resting
  <1>13. ASSUME NEW m \in Nodes, NEW d \in Conns, conn[m] = d, m # n
         PROVE  DownInOrder(m, d)' /\ UpInOrder(m, d)'
      <2>1. d # c
          BY <1>0, <1>13, OtherConn
      <2>2. DownInOrder(m, d) /\ UpInOrder(m, d)
          BY <1>13, InOrder
      <2>3. DownInOrder(m, d)'
          BY <1>1, <1>2, <1>13, <2>1, <2>2, DownFrame
      <2>4. Answered(d)' => Answered(d)
          BY <1>1 DEF Answered
      <2> QED BY <1>1, <1>2, <1>13, <2>2, <2>3, <2>4, UpFrame
  <1> QED BY <1>0, <1>1, <1>9, <1>10, <1>11, <1>12, <1>13 DEF OrderInv, NodesInOrder

\* A node runs the next command.
LEMMA OrderNodeExecute ==
  ASSUME TypeInv, ConnInv, DeliveryInv, OrderInv, NEW n \in Nodes, NodeExecute(n)
  PROVE  OrderInv'
  <1>0. PICK c \in Conns : c = conn[n]
      BY HoldsConn DEF NodeExecute
  <1>t. /\ down \in [Conns -> Seq(Messages)]
        /\ sent \in [Conns -> Seq(Commands)]
        /\ executed \in [Nodes -> Seq(Bodies)]
        /\ conn \in [Nodes -> Conns \cup {None}]
      BY DEF TypeInv, TypeOK
  <1> DEFINE b == Head(down[c]).body
             L == Len(executed[n])
  <1>1. /\ info[n].sessionId # 0 /\ down[c] # <<>>
        /\ executed' = [executed EXCEPT ![n] = Append(@, b)]
        /\ down' = [down EXCEPT ![c] = Tail(@)]
        /\ UNCHANGED <<conn, info, status, up, sinfo, target, sent, served>>
      BY <1>0 DEF NodeExecute, nodeVars, serverVars, histVars
  <1>2. /\ executed'[n] = Append(executed[n], b) /\ down'[c] = Tail(down[c])
        /\ \A m \in Nodes : m # n => executed'[m] = executed[m]
        /\ \A d \in Conns : d # c => down'[d] = down[d]
      BY <1>1, <1>t
  <1>3. DownInOrder(n, c) /\ UpInOrder(n, c)
      BY <1>0, InOrder
  <1>4. info[n].remoteNonce # 0 /\ Taken(n, c)
      BY <1>1, <1>3 DEF DownInOrder, Unanswered, Offered
  <1>5. /\ Head(down[c]) = down[c][1] /\ Head(down[c]) \in Messages /\ 1 \in DOMAIN down[c]
        /\ Len(down[c]) \in Nat \ {0}
        /\ DOMAIN down[c] = 1 .. Len(down[c])
        /\ DOMAIN down'[c] = 1 .. (Len(down[c]) - 1) /\ Len(down'[c]) = Len(down[c]) - 1
        /\ \A k \in DOMAIN down'[c] : k + 1 \in DOMAIN down[c] /\ down'[c][k] = down[c][k + 1]
      BY <1>1, <1>2, <1>t
  <1>6. b \in Bodies /\ L \in Nat /\ executed[n] \in Seq(Bodies)
      <2>1. b \in Bodies
          BY <1>5 DEF Messages
      <2>2. executed[n] \in Seq(Bodies)
          BY <1>t
      <2> QED BY <2>1, <2>2
  <1>e. /\ Len(sent[c]) = L + Len(down[c])
        /\ \A k \in DOMAIN down[c] : /\ down[c][k].body = sent[c][L + k]
                                     /\ down[c][k].nonce = Add(info[n].sessionId, L + k)
        /\ info[n].sessionId = 0 => sent[c] = <<>>
      BY <1>4 DEF Taken
  <1>7. b = sent[c][L + 1] /\ target[b] = n /\ b \in Commands
      <2>1. b = sent[c][L + 1]
          BY <1>5, <1>e
      <2>2. SentTo(n, down[c][1].body)
          BY <1>0, <1>1, <1>5 DEF DeliveryInv, InFlight
      <2>3. L + 1 \in 1 .. Len(sent[c])
          <3> DEFINE D == Len(down[c])
          <3>1. D \in Nat \ {0} /\ Len(sent[c]) = L + D
              BY <1>5, <1>e
          <3> HIDE DEF D, L
          <3> QED BY <1>6, <3>1
      <2>4. sent[c][L + 1] \in Commands
          BY <1>t, <2>3
      <2> QED BY <1>5, <2>1, <2>2, <2>4 DEF SentTo
  <1> HIDE DEF b
  <1>8. /\ Len(executed'[n]) = L + 1
        /\ DOMAIN executed'[n] = 1 .. (L + 1) /\ DOMAIN executed[n] = 1 .. L
        /\ executed'[n][L + 1] = b
        /\ \A k \in 1 .. L : executed'[n][k] = executed[n][k]
      BY <1>2, <1>6
  <1> HIDE DEF L
  <1>9. Taken(n, c)'
      <2>1. Len(sent[c]) = (L + 1) + Len(down'[c])
          <3> DEFINE D == Len(down[c])
          <3>1. D \in Nat /\ Len(down'[c]) = D - 1 /\ Len(sent[c]) = L + D
              BY <1>5, <1>e
          <3> HIDE DEF D
          <3>2. L + D = (L + 1) + (D - 1)
              BY <1>6, <3>1
          <3> QED BY <3>1, <3>2
      <2>2. ASSUME NEW k \in DOMAIN down'[c]
            PROVE  /\ down'[c][k].body = sent[c][(L + 1) + k]
                   /\ down'[c][k].nonce = Add(info[n].sessionId, (L + 1) + k)
          <3>1. L + (k + 1) = (L + 1) + k /\ k + 1 \in DOMAIN down[c]
                /\ down'[c][k] = down[c][k + 1]
              BY <1>5, <1>6
          <3>2. /\ down[c][k + 1].body = sent[c][L + (k + 1)]
                /\ down[c][k + 1].nonce = Add(info[n].sessionId, L + (k + 1))
              BY <1>e, <3>1
          <3> QED BY <3>1, <3>2
      <2> QED BY <1>1, <1>8, <1>e, <2>1, <2>2 DEF Taken
  <1>10. Ran(n, c)'
      <2> SUFFICES ASSUME NEW k \in DOMAIN executed'[n]
                   PROVE  /\ executed'[n][k] = sent[c][k]
                          /\ executed'[n][k] \in Commands
                          /\ target[executed'[n][k]] = n
          BY <1>1 DEF Ran
      <2>1. CASE k = L + 1
          BY <1>7, <1>8, <2>1
      <2>2. CASE k \in 1 .. L
          <3>1. /\ executed[n][k] = sent[c][k] /\ executed[n][k] \in Commands
                /\ target[executed[n][k]] = n
              BY <1>3, <1>8, <2>2 DEF DownInOrder, Ran
          <3> QED BY <1>8, <2>2, <3>1
      <2> QED BY <1>6, <1>8, <2>1, <2>2
  <1>11. DownInOrder(n, c)'
      BY <1>1, <1>4, <1>9, <1>10 DEF DownInOrder
  <1>12. UpInOrder(n, c)'
      <2>1. Answered(c)' => Answered(c)
          BY <1>1 DEF Answered
      <2> QED BY <1>1, <1>3, <2>1, UpFrame
  <1>13. Books'
      BY <1>1, BooksFrame DEF OrderInv, Books
  <1>14. Resting'
      BY <1>0, <1>1, <1>2, NoneAssumption DEF OrderInv, Resting
  <1>15. ASSUME NEW m \in Nodes, NEW d \in Conns, conn[m] = d, m # n
         PROVE  DownInOrder(m, d)' /\ UpInOrder(m, d)'
      <2>1. d # c
          BY <1>0, <1>15, OtherConn
      <2>2. DownInOrder(m, d) /\ UpInOrder(m, d)
          BY <1>15, InOrder
      <2>3. DownInOrder(m, d)'
          BY <1>1, <1>2, <1>15, <2>1, <2>2, DownFrame
      <2>4. Answered(d)' => Answered(d)
          BY <1>1 DEF Answered
      <2> QED BY <1>1, <2>2, <2>3, <2>4, UpFrame
  <1> QED BY <1>0, <1>1, <1>11, <1>12, <1>13, <1>14, <1>15 DEF OrderInv, NodesInOrder

\* A node and a connection that a step does not touch.
LEMMA PairFrame ==
  ASSUME NEW n \in Nodes, NEW c \in Conns, DownInOrder(n, c), UpInOrder(n, c),
         info'[n] = info[n], executed'[n] = executed[n],
         down'[c] = down[c], up'[c] = up[c], status'[c] = status[c],
         sinfo'[c] = sinfo[c], sent'[c] = sent[c], served'[c] = served[c],
         \A cmd \in Commands : target[cmd] = n => target'[cmd] = n
  PROVE  DownInOrder(n, c)' /\ UpInOrder(n, c)'
  <1>1. DownInOrder(n, c)'
      BY DownFrame
  <1>2. Answered(c)' => Answered(c)
      BY DEF Answered
  <1> QED BY <1>1, <1>2, UpFrame

\* A node sends a beacon: it has the next number, unless the server is gone.
LEMMA OrderNodeSend ==
  ASSUME TypeInv, ConnInv, OrderInv, NEW n \in Nodes, NodeSend(n)
  PROVE  OrderInv'
  <1>0. PICK c \in Conns : c = conn[n]
      BY HoldsConn DEF NodeSend
  <1>t. /\ info \in [Nodes -> ConnInfo]
        /\ up \in [Conns -> Seq(Messages)]
        /\ served \in [Conns -> Nat]
      BY DEF TypeInv, TypeOK
  <1> DEFINE msg == SessionMessage(info[n], n, Head(nodeQueue[n]))
             L == served[c] + Len(up[c])
  <1>1. /\ pc[n] = "send"
        /\ up' = [up EXCEPT ![c] = IF status[c] = "gone" THEN @ ELSE Append(@, msg)]
        /\ info' = [info EXCEPT ![n] = SendInfo(@)]
        /\ UNCHANGED <<conn, status, down, sinfo, target, sent, executed, served>>
      BY <1>0 DEF NodeSend, SendUp, serverVars, histVars
  <1>2. /\ info'[n] = SendInfo(info[n])
        /\ up'[c] = IF status[c] = "gone" THEN up[c] ELSE Append(up[c], msg)
        /\ \A m \in Nodes : m # n => info'[m] = info[m]
        /\ \A d \in Conns : d # c => up'[d] = up[d]
      BY <1>1, <1>t
  <1>3. info[n].sessionId # 0 /\ info[n] \in ConnInfo
      BY <1>1, <1>t DEF ConnInv, SendingInSession
  <1>4. DownInOrder(n, c) /\ UpInOrder(n, c)
      BY <1>0, InOrder
  <1>5. /\ info'[n].sessionId = info[n].sessionId
        /\ info'[n].localNonce = info[n].localNonce
        /\ info'[n].remoteNonce = info[n].remoteNonce
      BY <1>2, <1>3 DEF SendInfo, ConnInfo
  <1>6. DownInOrder(n, c)'
      BY <1>1, <1>4, <1>5, DownFrame
  <1>7. UpInOrder(n, c)'
      <2> SUFFICES ASSUME Answered(c)'
                   PROVE  /\ info'[n].sendSessionIncrements =
                                (served'[c] + Len(up'[c])) % Modulus
                          /\ \A k \in DOMAIN up'[c] :
                                up'[c][k].nonce = Add(info'[n].sessionId, served'[c] + k)
          BY <1>3, <1>5 DEF UpInOrder
      <2>1. Answered(c) /\ up'[c] = Append(up[c], msg)
          BY <1>1, <1>2 DEF Answered
      <2>2. /\ up[c] \in Seq(Messages) /\ Len(up[c]) \in Nat
            /\ served[c] \in Nat /\ L \in Nat
          BY <1>t
      <2>3. /\ info[n].sendSessionIncrements = L % Modulus
            /\ \A k \in DOMAIN up[c] : up[c][k].nonce = Add(info[n].sessionId, served[c] + k)
          BY <1>3, <1>4, <2>1 DEF UpInOrder
      <2>4. msg \in Messages
          <3>1. nodeQueue[n] \in Seq(Beacons) /\ toSend[n] \in Nat
                /\ toSend[n] > 0 /\ toSend[n] <= Len(nodeQueue[n])
              BY <1>1 DEF NodeSend, TypeInv, TypeOK, SocketInv
          <3>2. Head(nodeQueue[n]) \in Bodies
              BY <3>1 DEF Bodies
          <3> QED BY <1>3, <3>2, SendType
      <2>5. /\ msg.nonce = Add(info[n].sessionId, L + 1)
            /\ SendInfo(info[n]).sendSessionIncrements = (L + 1) % Modulus
          <3> HIDE DEF L
          <3> QED BY <1>3, <2>2, <2>3, Numbered
      <2> HIDE DEF msg
      <2>6. /\ Len(up'[c]) = Len(up[c]) + 1
            /\ DOMAIN up'[c] = 1 .. (Len(up[c]) + 1) /\ DOMAIN up[c] = 1 .. Len(up[c])
            /\ up'[c][Len(up[c]) + 1] = msg
            /\ \A k \in DOMAIN up[c] : up'[c][k] = up[c][k]
          BY <2>1, <2>2, <2>4, AppendElements
      <2>7. /\ L + 1 = served[c] + (Len(up[c]) + 1)
            /\ \A k \in 1 .. (Len(up[c]) + 1) : k = Len(up[c]) + 1 \/ k \in 1 .. Len(up[c])
          BY <2>2
      <2> QED BY <1>1, <1>2, <1>5, <2>3, <2>5, <2>6, <2>7
  <1>8. Books'
      BY <1>1, BooksFrame DEF OrderInv, Books
  <1>9. Resting'
      BY <1>1 DEF OrderInv, Resting
  <1>10. ASSUME NEW m \in Nodes, NEW d \in Conns, conn[m] = d, m # n
         PROVE  DownInOrder(m, d)' /\ UpInOrder(m, d)'
      <2>1. d # c
          BY <1>0, <1>10, OtherConn
      <2>2. DownInOrder(m, d) /\ UpInOrder(m, d)
          BY <1>10, InOrder
      <2> QED BY <1>1, <1>2, <1>10, <2>1, <2>2, PairFrame
  <1> QED BY <1>0, <1>1, <1>6, <1>7, <1>8, <1>9, <1>10 DEF OrderInv, NodesInOrder

\* A node closes its connection and forgets what it has run.
LEMMA OrderNodeClose ==
  ASSUME TypeInv, ConnInv, OrderInv, NEW n \in Nodes, NodeClose(n)
  PROVE  OrderInv'
  <1>0. PICK c \in Conns : c = conn[n]
      BY HoldsConn DEF NodeClose, CanClose
  <1>t. /\ info \in [Nodes -> ConnInfo]
        /\ conn \in [Nodes -> Conns \cup {None}]
        /\ executed \in [Nodes -> Seq(Bodies)]
        /\ down \in [Conns -> Seq(Messages)]
        /\ status \in [Conns -> {"free", "backlog", "open", "gone"}]
        /\ sent \in [Conns -> Seq(Commands)]
      BY DEF TypeInv, TypeOK
  <1>1. /\ conn' = [conn EXCEPT ![n] = None]
        /\ info' = [info EXCEPT ![n] = InitConnInfo]
        /\ down' = [down EXCEPT ![c] = <<>>]
        /\ executed' = [executed EXCEPT ![n] = <<>>]
        /\ UNCHANGED <<up, sinfo, target, served>>
      BY <1>0 DEF NodeClose, serverVars
  <1>2. /\ \A m \in Nodes : m # n => /\ info'[m] = info[m] /\ conn'[m] = conn[m]
                                     /\ executed'[m] = executed[m]
        /\ conn'[n] = None /\ executed'[n] = <<>>
        /\ \A d \in Conns : d # c => down'[d] = down[d]
      BY <1>1, <1>t
  <1>3. /\ status[c] = "gone" => /\ status' = [status EXCEPT ![c] = "free"]
                                 /\ sent' = [sent EXCEPT ![c] = <<>>]
        /\ status[c] # "gone" => status' = status /\ sent' = sent
      BY <1>0 DEF NodeClose
  <1>4. \A d \in Conns : d # c => status'[d] = status[d] /\ sent'[d] = sent[d]
      BY <1>3, <1>t
  <1>5. Books'
      <2> SUFFICES ASSUME NEW d \in Conns PROVE ServerBooks(d)'
          BY DEF Books
      <2>1. ServerBooks(d)
          BY DEF OrderInv, Books
      <2>2. CASE d # c \/ status[c] # "gone"
          <3>1. status'[d] = status[d] /\ sent'[d] = sent[d]
              BY <1>3, <1>4, <2>2
          <3> QED BY <1>1, <2>1, <3>1, BooksFrame
      <2>3. CASE d = c /\ status[c] = "gone"
          <3>1. status'[d] = "free" /\ sent'[d] = <<>> /\ served'[d] = 0
              BY <1>1, <1>3, <1>t, <2>1, <2>3 DEF ServerBooks, Answered
          <3> QED BY <3>1 DEF ServerBooks, Answered
      <2> QED BY <2>2, <2>3
  <1>6. Resting'
      BY <1>2 DEF OrderInv, Resting
  <1>7. ASSUME NEW m \in Nodes, NEW d \in Conns, conn'[m] = d
        PROVE  DownInOrder(m, d)' /\ UpInOrder(m, d)'
      <2>1. m # n /\ conn[m] = d
          BY <1>2, <1>7, NoneAssumption
      <2>2. d # c
          BY <1>0, <2>1, OtherConn
      <2>3. DownInOrder(m, d) /\ UpInOrder(m, d)
          BY <2>1, InOrder
      <2> QED BY <1>1, <1>2, <1>4, <2>1, <2>2, <2>3, PairFrame
  <1> QED BY <1>5, <1>6, <1>7 DEF OrderInv, NodesInOrder

-----------------------------------------------------------------------------
(***************************************************************************)
(* The steps of the server.                                                *)
(***************************************************************************)

\* A step of the server on connection c.
LEMMA OrderServerStep ==
  ASSUME OrderInv, NEW c \in Conns, UNCHANGED <<conn, info, executed, target>>,
         \A d \in Conns : d # c =>
            /\ status'[d] = status[d] /\ up'[d] = up[d] /\ down'[d] = down[d]
            /\ sinfo'[d] = sinfo[d] /\ sent'[d] = sent[d] /\ served'[d] = served[d],
         ServerBooks(c)',
         \A n \in Nodes : conn[n] = c => DownInOrder(n, c)' /\ UpInOrder(n, c)'
  PROVE  OrderInv'
  <1>1. ASSUME NEW d \in Conns, d # c PROVE ServerBooks(d)'
      <2>1. ServerBooks(d)
          BY DEF OrderInv, Books
      <2> QED BY <1>1, <2>1, BooksFrame
  <1>2. Resting'
      BY DEF OrderInv, Resting
  <1>3. ASSUME NEW n \in Nodes, NEW d \in Conns, conn[n] = d, d # c
        PROVE  DownInOrder(n, d)' /\ UpInOrder(n, d)'
      <2>1. DownInOrder(n, d) /\ UpInOrder(n, d)
          BY <1>3, InOrder
      <2> QED BY <1>3, <2>1, PairFrame
  <1>4. Books'
      BY <1>1 DEF Books
  <1>5. NodesInOrder'
      BY <1>3 DEF NodesInOrder
  <1> QED BY <1>2, <1>4, <1>5 DEF OrderInv

\* The server accepts a connection; it has not answered yet.
LEMMA OrderServerAccept ==
  ASSUME TypeInv, ConnInv, OrderInv, NEW c \in Conns, ServerAccept(c)
  PROVE  OrderInv'
  <1>t. /\ status \in [Conns -> {"free", "backlog", "open", "gone"}]
        /\ sinfo \in [Conns -> ConnInfo]
      BY DEF TypeInv, TypeOK
  <1>1. /\ status[c] = "backlog"
        /\ status' = [status EXCEPT ![c] = "open"]
        /\ sinfo' = [sinfo EXCEPT ![c] = InitConnInfo]
        /\ UNCHANGED <<conn, info, up, down, target, sent, executed, served>>
      BY DEF ServerAccept, nodeVars, histVars
  <1>2. /\ status'[c] = "open" /\ sinfo'[c].localNonce = 0
        /\ \A d \in Conns : d # c => status'[d] = status[d] /\ sinfo'[d] = sinfo[d]
      BY <1>1, <1>t DEF InitConnInfo
  <1>3. ServerBooks(c)
      BY DEF OrderInv, Books
  <1>4. ServerBooks(c)'
      BY <1>1, <1>2, <1>3 DEF ServerBooks, Answered, Fresh
  <1>5. ASSUME NEW n \in Nodes, conn[n] = c
        PROVE  DownInOrder(n, c)' /\ UpInOrder(n, c)'
      <2>1. DownInOrder(n, c) /\ UpInOrder(n, c)
          BY <1>5, InOrder
      <2>2. DownInOrder(n, c)'
          BY <1>1, <2>1, DownFrame
      <2>3. ~Answered(c)'
          BY <1>2 DEF Answered
      <2> QED BY <1>1, <2>1, <2>2, <2>3, UpFrame
  <1> QED BY <1>1, <1>2, <1>4, <1>5, OrderServerStep

\* The server answers with its nonce: the node will take it first.
LEMMA OrderServerRecvNonce ==
  ASSUME TypeInv, ConnInv, OrderInv, NEW c \in Conns, ServerRecvNonce(c)
  PROVE  OrderInv'
  <1>t. /\ sinfo \in [Conns -> ConnInfo]
        /\ up \in [Conns -> Seq(Messages)]
        /\ down \in [Conns -> Seq(Messages)]
      BY DEF TypeInv, TypeOK
  <1>1. PICK r \in Nonce :
           /\ down' = [down EXCEPT ![c] = IF peerClosed[c] THEN @
                                          ELSE Append(@, NonceMessage(r, None))]
           /\ sinfo' = [sinfo EXCEPT ![c] = Answer(@, Head(up[c]), r)]
      BY DEF ServerRecvNonce, SendDown
  <1>2. /\ status[c] = "open" /\ up[c] # <<>> /\ sinfo[c].localNonce = 0
        /\ up' = [up EXCEPT ![c] = Tail(@)]
        /\ UNCHANGED <<conn, info, status, target, sent, executed, served>>
      BY DEF ServerRecvNonce, nodeVars, histVars
  <1>3. /\ sinfo'[c] = Answer(sinfo[c], Head(up[c]), r) /\ up'[c] = Tail(up[c])
        /\ down'[c] = IF peerClosed[c] THEN down[c] ELSE Append(down[c], NonceMessage(r, None))
        /\ \A d \in Conns : d # c => /\ sinfo'[d] = sinfo[d] /\ up'[d] = up[d]
                                     /\ down'[d] = down[d]
      BY <1>1, <1>2, <1>t
  <1>4. Fresh(c) /\ ~Answered(c) /\ sinfo[c] = InitConnInfo
      BY <1>2 DEF Fresh, Answered, ConnInv, ServerSides, ServerSide
  <1>5. /\ sinfo'[c].localNonce = Swap[r] /\ Swap[r] # 0
        /\ sinfo'[c].sendSessionIncrements = 0
      BY <1>3, <1>4, NonceMessageType, NoneAssumption DEF Answer, InitConnInfo
  <1>6. sent[c] = <<>> /\ served[c] = 0
      BY <1>4 DEF OrderInv, Books, ServerBooks
  <1>7. ServerBooks(c)'
      <2>1. Len(sent'[c]) = 0
          BY <1>2, <1>6
      <2>2. sinfo'[c].sendSessionIncrements = Len(sent'[c]) % Modulus
          BY <1>5, <2>1, ZeroMod
      <2>3. Answered(c)' /\ ~Fresh(c)' /\ status'[c] # "free"
          BY <1>2, <1>5 DEF Answered, Fresh
      <2> QED BY <2>2, <2>3 DEF ServerBooks
  <1>8. ASSUME NEW n \in Nodes, conn[n] = c
        PROVE  DownInOrder(n, c)' /\ UpInOrder(n, c)'
      <2>1. DownInOrder(n, c) /\ UpInOrder(n, c)
          BY <1>8, InOrder
      <2>2. /\ ~peerClosed[c] /\ down[c] = <<>>
            /\ info[n].remoteNonce = 0 /\ info[n].sessionId = 0
            /\ Len(up[c]) = 1
          BY <1>4, <1>8 DEF ConnInv, NodeSides, NodeSide, ServerSides, ServerSide
      <2>3. executed[n] = <<>>
          BY <2>1, <2>2 DEF DownInOrder, Unanswered
      <2>4. down'[c] = <<NonceMessage(r, None)>>
          BY <1>3, <2>2
      <2>5. /\ down'[c] # <<>> /\ Len(down'[c]) = 1
            /\ Head(down'[c]) = NonceMessage(r, None)
          BY <2>4
      <2>6. NonceOf(Head(down'[c])) # 0
          BY <1>5, <2>5, NonceMessageType
      <2>7. DOMAIN sent'[c] = {} /\ Len(sent'[c]) = 0 /\ sent'[c] = <<>>
          BY <1>2, <1>6
      <2>8. Offered(n, c)'
          <3>1. NonceOf(Head(down[c]))' # 0
              BY <2>6 DEF NonceOf
          <3>2. Len(down'[c]) = Len(sent'[c]) + 1
              BY <2>5, <2>7
          <3> QED BY <1>2, <2>2, <2>3, <2>7, <3>1, <3>2 DEF Offered
      <2>9. DownInOrder(n, c)'
          <3>1. DOMAIN executed'[n] = {}
              BY <1>2, <2>3
          <3>2. Ran(n, c)'
              BY <3>1 DEF Ran
          <3> QED BY <1>2, <2>2, <2>5, <2>8, <3>2 DEF DownInOrder
      <2>10. up'[c] = <<>>
          BY <1>3, <1>t, <2>2, TailOfOne
      <2> QED BY <1>2, <1>6, <2>1, <2>2, <2>9, <2>10 DEF UpInOrder
  <1> QED BY <1>2, <1>3, <1>7, <1>8, OrderServerStep

\* The server takes the next beacon.
LEMMA OrderServerRecvBeacon ==
  ASSUME TypeInv, ConnInv, OrderInv, NEW c \in Conns, ServerRecvBeacon(c)
  PROVE  OrderInv'
  <1>t. /\ up \in [Conns -> Seq(Messages)]
        /\ served \in [Conns -> Nat]
      BY DEF TypeInv, TypeOK
  <1>1. /\ up[c] # <<>> /\ sinfo[c].sessionId # 0
        /\ up' = [up EXCEPT ![c] = Tail(@)]
        /\ served' = [served EXCEPT ![c] = @ + 1]
        /\ UNCHANGED <<conn, info, status, down, sinfo, target, sent, executed>>
      BY DEF ServerRecvBeacon, nodeVars
  <1>2. /\ up'[c] = Tail(up[c]) /\ served'[c] = served[c] + 1
        /\ \A d \in Conns : d # c => up'[d] = up[d] /\ served'[d] = served[d]
      BY <1>1, <1>t
  <1>3. Answered(c)
      BY <1>1 DEF ConnInv, ServerSides, ServerSide, InitConnInfo
  <1>4. ServerBooks(c)'
      BY <1>1, <1>3 DEF OrderInv, Books, ServerBooks, Answered, Fresh
  <1>5. ASSUME NEW n \in Nodes, conn[n] = c
        PROVE  DownInOrder(n, c)' /\ UpInOrder(n, c)'
      <2>1. DownInOrder(n, c) /\ UpInOrder(n, c)
          BY <1>5, InOrder
      <2>2. DownInOrder(n, c)'
          BY <1>1, <2>1, DownFrame
      <2>3. /\ info[n].sessionId # 0
            /\ info[n].sendSessionIncrements = (served[c] + Len(up[c])) % Modulus
            /\ \A k \in DOMAIN up[c] : up[c][k].nonce = Add(info[n].sessionId, served[c] + k)
          BY <1>1, <1>3, <2>1 DEF UpInOrder
      <2>4. /\ up[c] \in Seq(Messages) /\ served[c] \in Nat /\ Len(up[c]) \in Nat
            /\ Len(up'[c]) = Len(up[c]) - 1
            /\ \A k \in DOMAIN up'[c] : /\ k \in Nat /\ k + 1 \in DOMAIN up[c]
                                        /\ up'[c][k] = up[c][k + 1]
          BY <1>1, <1>2, <1>t
      <2>5. (served[c] + 1) + Len(up'[c]) = served[c] + Len(up[c])
          <3>1. \A s, l \in Nat : (s + 1) + (l - 1) = s + l
              OBVIOUS
          <3> QED BY <2>4, <3>1
      <2>6. ASSUME NEW k \in DOMAIN up'[c]
            PROVE  up'[c][k].nonce = Add(info[n].sessionId, (served[c] + 1) + k)
          <3>0. \A s, l \in Nat : (s + 1) + l = s + (l + 1)
              OBVIOUS
          <3>1. (served[c] + 1) + k = served[c] + (k + 1)
              BY <2>4, <3>0
          <3> QED BY <2>3, <2>4, <3>1
      <2> QED BY <1>1, <1>2, <2>2, <2>3, <2>5, <2>6 DEF UpInOrder
  <1> QED BY <1>1, <1>2, <1>4, <1>5, OrderServerStep

\* The server closes a connection that no node holds any more.
LEMMA OrderServerClose ==
  ASSUME TypeInv, ConnInv, OrderInv, NEW c \in Conns, ServerClose(c)
  PROVE  OrderInv'
  <1>t. /\ status \in [Conns -> {"free", "backlog", "open", "gone"}]
        /\ up \in [Conns -> Seq(Messages)]
        /\ sinfo \in [Conns -> ConnInfo]
        /\ sent \in [Conns -> Seq(Commands)]
        /\ served \in [Conns -> Nat]
      BY DEF TypeInv, TypeOK
  <1>1. /\ peerClosed[c]
        /\ status' = [status EXCEPT ![c] = "free"]
        /\ up' = [up EXCEPT ![c] = <<>>]
        /\ sinfo' = [sinfo EXCEPT ![c] = InitConnInfo]
        /\ sent' = [sent EXCEPT ![c] = <<>>]
        /\ served' = [served EXCEPT ![c] = 0]
        /\ UNCHANGED <<conn, info, down, target, executed>>
      BY DEF ServerClose, nodeVars
  <1>2. /\ status'[c] = "free" /\ sent'[c] = <<>> /\ served'[c] = 0
        /\ \A d \in Conns : d # c =>
              /\ status'[d] = status[d] /\ up'[d] = up[d] /\ sinfo'[d] = sinfo[d]
              /\ sent'[d] = sent[d] /\ served'[d] = served[d]
      BY <1>1, <1>t
  <1>3. ServerBooks(c)'
      BY <1>2 DEF ServerBooks, Answered
  <1>4. \A n \in Nodes : conn[n] # c
      BY <1>1 DEF ConnInv, NodeSides, NodeSide
  <1> QED BY <1>1, <1>2, <1>3, <1>4, OrderServerStep

\* The server sends a command: it has the next number.
LEMMA OrderSendCommand ==
  ASSUME TypeInv, ConnInv, OrderInv, SendCommand
  PROVE  OrderInv'
  <1>t. /\ sinfo \in [Conns -> ConnInfo]
        /\ down \in [Conns -> Seq(Messages)]
        /\ sent \in [Conns -> Seq(Commands)]
        /\ commandsQueue \in Seq(Request(Nodes, Commands))
        /\ epoll.conn \in Conns \cup {None} /\ epoll.i \in Nat \ {0} /\ epoll.j \in Nat \ {0}
      BY DEF TypeInv, TypeOK, EpollPosition
  <1>0. PICK c \in Conns : c = epoll.conn
      BY <1>t DEF SendCommand, Idle
  <1> DEFINE cmd == Current.commands[epoll.j]
             msg == SessionMessage(sinfo[c], None, cmd)
             L == Len(sent[c])
  <1>1. Answered(c)
      BY <1>0 DEF ConnInv, ServerSides, ServerSide
  <1>2. CASE sinfo[c].sessionId = 0
      <2>1. UNCHANGED <<conn, info, status, up, down, sinfo, sent, executed, served, target>>
          BY <1>0, <1>2 DEF SendCommand, nodeVars
      <2> QED BY <2>1, OrderSame
  <1>3. CASE sinfo[c].sessionId # 0
      <2>1. /\ down' = [down EXCEPT ![c] = IF peerClosed[c] THEN @ ELSE Append(@, msg)]
            /\ sinfo' = [sinfo EXCEPT ![c] = SendInfo(@)]
            /\ sent' = [sent EXCEPT ![c] = Append(@, cmd)]
            /\ UNCHANGED <<conn, info, status, up, executed, served, target>>
          BY <1>0, <1>3 DEF SendCommand, SendDown, nodeVars
      <2>2. /\ sinfo'[c] = SendInfo(sinfo[c]) /\ sent'[c] = Append(sent[c], cmd)
            /\ down'[c] = IF peerClosed[c] THEN down[c] ELSE Append(down[c], msg)
            /\ \A d \in Conns : d # c => /\ sinfo'[d] = sinfo[d] /\ sent'[d] = sent[d]
                                         /\ down'[d] = down[d]
          BY <1>t, <2>1
      <2>3. cmd \in Commands
          <3>1. epoll.i \in DOMAIN commandsQueue /\ epoll.j <= Len(Current.commands)
              BY <1>t DEF SendCommand, Matches
          <3>2. Current.commands \in Seq(Commands)
              BY <1>t, <3>1, RequestFields DEF Current
          <3> QED BY <1>t, <3>1, <3>2
      <2>4. msg \in Messages
          BY <1>t, <2>3, SendType DEF Bodies
      <2>5. L \in Nat /\ sinfo[c] \in ConnInfo /\ sent[c] \in Seq(Commands)
            /\ down[c] \in Seq(Messages)
          BY <1>t
      <2>6. sinfo[c].sendSessionIncrements = L % Modulus
          BY <1>1 DEF OrderInv, Books, ServerBooks
      <2>7. /\ msg.nonce = Add(sinfo[c].sessionId, L + 1) /\ msg.body = cmd
            /\ sinfo'[c].sendSessionIncrements = (L + 1) % Modulus
            /\ sinfo'[c].localNonce = sinfo[c].localNonce
          <3> HIDE DEF L, cmd
          <3>1. /\ SessionMessage(sinfo[c], None, cmd).nonce = Add(sinfo[c].sessionId, L + 1)
                /\ SessionMessage(sinfo[c], None, cmd).body = cmd
                /\ SendInfo(sinfo[c]).sendSessionIncrements = (L + 1) % Modulus
                /\ SendInfo(sinfo[c]).localNonce = sinfo[c].localNonce
              <4>1. PICK ci : ci = sinfo[c]
                  OBVIOUS
              <4>2. PICK l \in Nat : l = L
                  BY <2>5
              <4>3. ci \in ConnInfo /\ ci.sendSessionIncrements = l % Modulus
                  BY <2>5, <2>6, <4>1, <4>2
              <4>4. /\ SessionMessage(ci, None, cmd).nonce = Add(ci.sessionId, l + 1)
                    /\ SessionMessage(ci, None, cmd).body = cmd
                    /\ SendInfo(ci).sendSessionIncrements = (l + 1) % Modulus
                    /\ SendInfo(ci).localNonce = ci.localNonce
                  BY <4>3, Numbered
              <4> QED BY <4>1, <4>2, <4>4
          <3> QED BY <2>2, <3>1
      <2> HIDE DEF msg, cmd
      <2>8. /\ Len(sent'[c]) = L + 1 /\ DOMAIN sent'[c] = 1 .. (L + 1)
            /\ DOMAIN sent[c] = 1 .. L
            /\ sent'[c][L + 1] = cmd /\ \A k \in 1 .. L : sent'[c][k] = sent[c][k]
          BY <2>2, <2>3, <2>5, AppendElements
      <2> HIDE DEF L
      <2>9. Answered(c)'
          BY <1>1, <2>1, <2>7 DEF Answered
      <2>10. ServerBooks(c)'
          <3>1. sinfo'[c].sendSessionIncrements = Len(sent'[c]) % Modulus
              BY <2>7, <2>8
          <3>2. ~Fresh(c)' /\ status'[c] # "free"
              BY <2>9 DEF Answered, Fresh
          <3> QED BY <2>9, <3>1, <3>2 DEF ServerBooks
      <2>11. ASSUME NEW n \in Nodes, conn[n] = c
             PROVE  DownInOrder(n, c)' /\ UpInOrder(n, c)'
          <3>1. DownInOrder(n, c) /\ UpInOrder(n, c)
              BY <2>11, InOrder
          <3>2. NodeSide(n, c) /\ ServerSide(c)
              BY <2>11 DEF ConnInv, NodeSides, ServerSides
          <3>3. down'[c] = Append(down[c], msg)
              BY <2>2, <3>2 DEF NodeSide
          <3> DEFINE D == Len(down[c])
          <3>4. /\ D \in Nat /\ DOMAIN down[c] = 1 .. D
                /\ Len(down'[c]) = D + 1 /\ DOMAIN down'[c] = 1 .. (D + 1)
                /\ down'[c][D + 1] = msg /\ \A k \in 1 .. D : down'[c][k] = down[c][k]
              BY <2>4, <2>5, <3>3, AppendElements
          <3>5. UpInOrder(n, c)'
              BY <1>1, <2>1, <3>1, UpFrame
          <3>6. CASE info[n].remoteNonce = 0
              <4>1. /\ down[c] # <<>> /\ NonceOf(Head(down[c])) = sinfo[c].localNonce
                    /\ sinfo[c].remoteNonce = Swap[info[n].localNonce]
                  BY <1>1, <3>2, <3>6 DEF NodeSide
              <4>2. Offered(n, c)
                  BY <3>1, <3>6, <4>1 DEF DownInOrder
              <4>3. Sum(n, c) # 0
                  BY <1>1, <1>3, <3>2, <4>1 DEF Sum, ServerSide
              <4>4. D # 0
                  BY <2>5, <4>1, EmptySeq
              <4>5. /\ D = L + 1
                    /\ \A k \in 1 .. L : /\ down[c][k + 1].body = sent[c][k]
                                         /\ down[c][k + 1].nonce = Add(Sum(n, c), k)
                    /\ executed[n] = <<>> /\ info[n].sessionId = 0
                    /\ NonceOf(Head(down[c])) # 0
                  BY <2>8, <4>2 DEF Offered, L
              <4>6. Head(down'[c]) = Head(down[c]) /\ down'[c] # <<>>
                  BY <2>5, <3>3, <3>4, <4>1
              <4>7. Sum(n, c)' = Sum(n, c) /\ NonceOf(Head(down[c]))' # 0
                  BY <2>1, <4>5, <4>6 DEF Sum, NonceOf
              <4>8. Sum(n, c) = sinfo[c].sessionId
                  BY <1>1, <3>2, <4>1 DEF Sum, ServerSide
              <4>9. ASSUME NEW k \in 1 .. (L + 1)
                    PROVE  /\ down'[c][k + 1].body = sent'[c][k]
                           /\ down'[c][k + 1].nonce = Add(Sum(n, c), k)
                  <5> HIDE DEF D
                  <5>1. CASE k = L + 1
                      <6>1. down'[c][k + 1] = msg
                          BY <3>4, <4>5, <5>1
                      <6> QED BY <2>7, <2>8, <4>8, <5>1, <6>1
                  <5>2. CASE k \in 1 .. L
                      <6>1. k + 1 \in 1 .. D
                          BY <2>5, <4>5, <5>2
                      <6>2. down'[c][k + 1] = down[c][k + 1]
                          BY <3>4, <6>1
                      <6> QED BY <2>8, <4>5, <5>2, <6>2
                  <5> QED BY <2>5, <5>1, <5>2
              <4>10. Len(down'[c]) = Len(sent'[c]) + 1
                  BY <2>8, <3>4, <4>5
              <4>11. Offered(n, c)'
                  BY <2>1, <2>8, <4>3, <4>5, <4>7, <4>9, <4>10 DEF Offered
              <4>12. DOMAIN executed'[n] = {}
                  BY <2>1, <4>5
              <4>13. Ran(n, c)'
                  BY <4>12 DEF Ran
              <4>14. info'[n].remoteNonce = 0
                  BY <2>1, <3>6
              <4> QED BY <3>5, <4>6, <4>11, <4>13, <4>14 DEF DownInOrder
          <3>7. CASE info[n].remoteNonce # 0
              <4>1. Taken(n, c) /\ Ran(n, c)
                  BY <3>1, <3>7 DEF DownInOrder
              <4>2. info[n].sessionId = sinfo[c].sessionId
                  BY <1>1, <3>2, <3>7 DEF NodeSide, Agree
              <4> DEFINE E == Len(executed[n])
              <4>3. executed[n] \in Seq(Bodies)
                  BY DEF TypeInv, TypeOK
              <4>4. E \in Nat /\ DOMAIN executed[n] = 1 .. E
                  BY <4>3
              <4>5. /\ L = E + D
                    /\ \A k \in 1 .. D : /\ down[c][k].body = sent[c][E + k]
                                         /\ down[c][k].nonce = Add(info[n].sessionId, E + k)
                  BY <3>4, <4>1 DEF Taken, L
              <4>6. Taken(n, c)'
                  <5>1. ASSUME NEW k \in 1 .. (D + 1)
                        PROVE  /\ down'[c][k].body = sent'[c][E + k]
                               /\ down'[c][k].nonce = Add(info[n].sessionId, E + k)
                      <6> HIDE DEF D, E
                      <6>1. CASE k = D + 1
                          <7>1. E + k = L + 1
                              BY <3>4, <4>4, <4>5, <6>1
                          <7> QED BY <2>7, <2>8, <3>4, <4>2, <6>1, <7>1
                      <6>2. CASE k \in 1 .. D
                          <7>1. E + k \in 1 .. L
                              BY <3>4, <4>4, <4>5, <6>2
                          <7> QED BY <2>8, <3>4, <4>5, <6>2, <7>1
                      <6> QED BY <3>4, <6>1, <6>2
                  <5>2. Len(sent'[c]) = E + Len(down'[c])
                      <6> HIDE DEF D, E
                      <6>1. L + 1 = E + (D + 1)
                          BY <3>4, <4>4, <4>5
                      <6> QED BY <2>8, <3>4, <6>1
                  <5> QED BY <1>3, <2>1, <3>4, <4>2, <5>1, <5>2 DEF Taken
              <4>7. Ran(n, c)'
                  <5>1. \A k \in 1 .. E : k \in 1 .. L
                      <6> HIDE DEF D, E
                      <6> QED BY <3>4, <4>4, <4>5
                  <5> QED BY <2>1, <2>8, <4>1, <4>4, <5>1 DEF Ran
              <4>8. info'[n].remoteNonce # 0
                  BY <2>1, <3>7
              <4> QED BY <3>5, <4>6, <4>7, <4>8 DEF DownInOrder
          <3> QED BY <3>5, <3>6, <3>7
      <2> QED BY <2>1, <2>2, <2>10, <2>11, OrderServerStep
  <1> QED BY <1>2, <1>3

\* After a restart of the server a node holds a dead connection: what was sent
\* on it may still arrive.
LEMMA OrderServerRestart ==
  ASSUME TypeInv, ConnInv, OrderInv, ServerRestart
  PROVE  OrderInv'
  <1>1. /\ status' = [c \in Conns |-> IF status[c] = "free" \/ peerClosed[c]
                                      THEN "free" ELSE "gone"]
        /\ sent' = [c \in Conns |-> IF status'[c] = "free" THEN <<>> ELSE sent[c]]
        /\ served' = [c \in Conns |-> 0]
        /\ UNCHANGED <<conn, info, down, target, executed>>
      BY DEF ServerRestart, nodeVars
  <1>2. \A c \in Conns : ~Answered(c)' /\ ~Fresh(c)' /\ served'[c] = 0
      BY <1>1 DEF Answered, Fresh
  <1>3. Books'
      BY <1>1, <1>2 DEF Books, ServerBooks
  <1>4. Resting'
      BY <1>1 DEF OrderInv, Resting
  <1>5. ASSUME NEW n \in Nodes, NEW c \in Conns, conn[n] = c
        PROVE  DownInOrder(n, c)' /\ UpInOrder(n, c)'
      <2>1. DownInOrder(n, c) /\ UpInOrder(n, c)
          BY <1>5, InOrder
      <2>2. status[c] # "free" /\ ~peerClosed[c]
          BY <1>5 DEF ConnInv, NodeSides, NodeSide
      <2>3. sent'[c] = sent[c]
          BY <1>1, <2>2
      <2>4. DownInOrder(n, c)'
          BY <1>1, <2>1, <2>3, DownFrame
      <2> QED BY <1>1, <1>2, <2>1, <2>4, UpFrame
  <1> QED BY <1>1, <1>3, <1>4, <1>5 DEF OrderInv, NodesInOrder

\* The other steps touch nothing that is counted.
LEMMA OrderQuiet ==
  ASSUME TypeInv, OrderInv,
         \/ \E n \in Nodes : NodeStartSending(n) \/ MainLoop(n)
         \/ SkipRequest \/ RemoveRequest \/ EndSendQueued
         \/ WebSocketThread \/ UNCHANGED vars
  PROVE  OrderInv'
  <1>1. UNCHANGED <<conn, info, status, up, down, sinfo, sent, executed, served>>
      BY DEF NodeStartSending, MainLoop, MainLoopCheck, MainLoopAdd, SkipRequest,
             RemoveRequest, EndSendQueued, WebSocketThread, RequestCommand, vars,
             nodeVars, chanVars, serverVars, histVars
  <1>2. target' = target \/ \E n \in Nodes, cmd \in Commands :
                               target[cmd] = None /\ target' = [target EXCEPT ![cmd] = n]
      BY DEF NodeStartSending, MainLoop, MainLoopCheck, MainLoopAdd, SkipRequest,
             RemoveRequest, EndSendQueued, WebSocketThread, RequestCommand, vars,
             serverVars, histVars
  <1>3. target \in [Commands -> Nodes \cup {None}] /\ None \notin Nodes
      BY NoneAssumption DEF TypeInv, TypeOK
  <1>4. \A cmd \in Commands, n \in Nodes : target[cmd] = n => target'[cmd] = n
      BY <1>2, <1>3
  <1> QED BY <1>1, <1>4, OrderSame

\* Every step preserves the invariant.
LEMMA OrderStep == TypeInv /\ ConnInv /\ DeliveryInv /\ OrderInv /\ [Next]_vars => OrderInv'
  <1> SUFFICES ASSUME TypeInv, ConnInv, DeliveryInv, OrderInv, [Next]_vars
               PROVE  OrderInv'
      OBVIOUS
  <1>1. ASSUME NEW n \in Nodes, SocketThread(n) PROVE OrderInv'
      BY <1>1, OrderNodeConnect, OrderNodeRecvNonce, OrderNodeExecute, OrderQuiet,
         OrderNodeSend, OrderNodeClose DEF SocketThread
  <1>2. ASSUME NEW c \in Conns,
               \/ ServerAccept(c) \/ ServerRecvNonce(c)
               \/ ServerRecvBeacon(c) \/ ServerClose(c)
        PROVE  OrderInv'
      BY <1>2, OrderServerAccept, OrderServerRecvNonce, OrderServerRecvBeacon,
         OrderServerClose
  <1>3. CASE SendQueuedMessages
      BY <1>3, OrderSendCommand, OrderQuiet DEF SendQueuedMessages
  <1>4. CASE ServerRestart
      BY <1>4, OrderServerRestart
  <1>5. CASE WebSocketThread \/ UNCHANGED vars \/ \E n \in Nodes : MainLoop(n)
      BY <1>5, OrderQuiet
  <1> QED BY <1>1, <1>2, <1>3, <1>4, <1>5 DEF Next, EpollThread

\* Initially nothing has been counted.
LEMMA OrderInit == Init => OrderInv
  <1> SUFFICES ASSUME Init PROVE OrderInv
      OBVIOUS
  <1>1. Books
      BY DEF Init, Books, ServerBooks, Answered
  <1>2. Resting /\ NodesInOrder
      BY NoneAssumption DEF Init, Resting, NodesInOrder
  <1> QED BY <1>1, <1>2 DEF OrderInv

\* The inductive invariant holds in every reachable state.
THEOREM OrderCorrect == Spec => [](TypeInv /\ ConnInv /\ DeliveryInv /\ OrderInv)
  <1>1. Init => TypeInv /\ ConnInv /\ DeliveryInv /\ OrderInv
      BY TypeInit, ConnInit, DeliveryInit, OrderInit
  <1>2. TypeInv /\ ConnInv /\ DeliveryInv /\ OrderInv /\ [Next]_vars
        => (TypeInv /\ ConnInv /\ DeliveryInv /\ OrderInv)'
      BY TypeStep, ConnStep, DeliveryStep, OrderStep
  <1> QED BY <1>1, <1>2, PTL DEF Spec

\* CommandsInOrder: a node runs what the server sent on its connection, in
\* order, without gaps, and only what was requested for it.
THEOREM CommandsCorrect == Spec => []CommandsInOrder
  <1>1. TypeInv /\ ConnInv /\ DeliveryInv /\ OrderInv => CommandsInOrder
      <2> SUFFICES ASSUME TypeInv, OrderInv, NEW n \in Nodes, conn[n] # None
                   PROVE  /\ Len(executed[n]) <= Len(sent[conn[n]])
                          /\ \A k \in DOMAIN executed[n] :
                                /\ executed[n][k] = sent[conn[n]][k]
                                /\ target[executed[n][k]] = n
          BY DEF CommandsInOrder
      <2>1. PICK c \in Conns : c = conn[n]
          BY DEF TypeInv, TypeOK
      <2>2. DownInOrder(n, c)
          BY <2>1, InOrder
      <2>3. /\ executed[n] \in Seq(Bodies) /\ sent[c] \in Seq(Commands)
            /\ down[c] \in Seq(Messages)
          BY DEF TypeInv, TypeOK
      <2>4. Len(executed[n]) \in Nat /\ Len(sent[c]) \in Nat /\ Len(down[c]) \in Nat
          BY <2>3
      <2>5. CASE info[n].remoteNonce = 0
          <3>1. executed[n] = <<>>
              BY <2>2, <2>5 DEF DownInOrder, Unanswered, Offered
          <3>2. Len(executed[n]) = 0
              BY <3>1
          <3> QED BY <2>1, <2>2, <2>4, <3>2 DEF DownInOrder, Ran
      <2>6. CASE info[n].remoteNonce # 0
          <3>1. Len(sent[c]) = Len(executed[n]) + Len(down[c])
              BY <2>2, <2>6 DEF DownInOrder, Taken
          <3>2. Len(executed[n]) <= Len(sent[c])
              <4>1. \A e, d \in Nat : e <= e + d
                  OBVIOUS
              <4> QED BY <2>4, <3>1, <4>1
          <3> QED BY <2>1, <2>2, <3>2 DEF DownInOrder, Ran
      <2> QED BY <2>5, <2>6
  <1> QED BY <1>1, OrderCorrect, PTL

\* NoncesInStep: the k-th message on its way carries the sessionId plus the
\* number of messages before it plus one.
THEOREM NoncesCorrect == Spec => []NoncesInStep
  <1>1. TypeInv /\ ConnInv /\ DeliveryInv /\ OrderInv => NoncesInStep
      <2> SUFFICES ASSUME TypeInv, ConnInv, OrderInv, NEW n \in Nodes, NEW c \in Conns,
                          conn[n] = c, status[c] = "open", info[n].sessionId # 0
                   PROVE  /\ \A k \in DOMAIN up[c] :
                                up[c][k].nonce = Add(sinfo[c].sessionId, served[c] + k)
                          /\ \A k \in DOMAIN down[c] :
                                down[c][k].nonce =
                                   Add(info[n].sessionId, Len(executed[n]) + k)
          BY DEF NoncesInStep, TypeInv, TypeOK
      <2>1. DownInOrder(n, c) /\ UpInOrder(n, c) /\ NodeSide(n, c)
          BY InOrder DEF ConnInv, NodeSides
      <2>2. Answered(c)
          BY <2>1 DEF NodeSide, Fresh, Answered
      <2>3. info[n].remoteNonce # 0
          BY <2>1 DEF DownInOrder, Unanswered, Offered
      <2>4. info[n].sessionId = sinfo[c].sessionId
          BY <2>1, <2>2, <2>3 DEF NodeSide, Agree
      <2>5. Taken(n, c)
          BY <2>1, <2>3 DEF DownInOrder
      <2> QED BY <2>1, <2>2, <2>4, <2>5 DEF UpInOrder, Taken
  <1> QED BY <1>1, OrderCorrect, PTL
=============================================================================
