------------------------------ MODULE Session ------------------------------
(***************************************************************************)
(* One session between a node and the server over TCP: the two sides       *)
(* exchange random nonces, add them to obtain the sessionId, the server    *)
(* sends the commands queued for the node, the node sends its beacons and  *)
(* hangs up.  Modelled from socketThread.c and client.c (node), server.c   *)
(* and epollRecievingThread.c (server) and encryptAndSendAll in pckData.c. *)
(*                                                                         *)
(* Threads: each node's socket thread and main loop, the server's epoll    *)
(* thread and its websocket thread.  A TCP connection is a slot with one   *)
(* FIFO channel per direction; a slot is reused, as file descriptors are.  *)
(*                                                                         *)
(* Abstractions.  Every node already shares its key with the server, so    *)
(* decryption succeeds.  recvAll delivers whole messages in order; the     *)
(* reassembly of the byte stream is the subject of module RecvAll.  A      *)
(* message is its nonce field, the device ID of its ADD data and a body.   *)
(***************************************************************************)
EXTENDS Integers, Sequences, CommandQueue

CONSTANTS
    Nodes,         \* device IDs (devId) of the nodes
    MainLoopNodes, \* the nodes whose main loop queues beacons (devtype 5);
                   \* the others queue one per session (devtype 2)
    Conns,         \* slots for TCP connections
    Commands,      \* commands a user may request, each requested once
    Beacons,       \* the readings a beacon can carry
    Modulus,       \* 2^32 in the code: number of values of a uint32_t
    Swap,          \* htonl and ntohl on a little-endian machine
    Randoms,       \* the words getrandom may return
    MaxNodeQueue,  \* bound: a main loop adds no beacon to a longer queue
    MaxRestarts,   \* bound: how often the server process restarts
    None           \* no connection, no device, no body

Word == 0 .. (Modulus - 1)

ASSUME ModulusAssumption == Modulus \in Nat \ {0, 1}
ASSUME SwapAssumption ==
    /\ Swap \in [Word -> Word]
    /\ \A x \in Word : Swap[Swap[x]] = x
    /\ Swap[0] = 0
ASSUME RandomsAssumption == Randoms \subseteq Word /\ Randoms # {}
ASSUME NoneAssumption == None \notin Nodes \cup Conns \cup Commands \cup Beacons
ASSUME BoundsAssumption == MaxNodeQueue \in Nat /\ MaxRestarts \in Nat

VARIABLES
    \* Node side.
    pc,            \* where the socket thread of a node is
    mainPc,        \* where the main loop of a node is
    conn,          \* the connection held by the socket thread (socketMain)
    info,          \* the node's connInfo
    nodeQueue,     \* nodeCommandsQueue
    toSend,        \* commands left of numOfCommands in the sending loop
    \* Connections.
    status,        \* "free", "backlog", "open" or "gone" (server side closed)
    peerClosed,    \* the node has closed its end
    up, down,      \* messages in flight to the server and to the node
    \* Server side.
    sinfo,         \* the connInfo of a connection in connectionsInfo
    epoll,         \* position of the epoll thread inside sendQueuedMessages
    commandsQueue, \* the queue of command requests
    devState,      \* the last beacon stored in a node's devInfo
    restarts,      \* how often the server has restarted
    \* History, read by no action.
    target,        \* the device a command was requested for
    sent,          \* commands sent on a connection
    executed,      \* commands the node ran on its present connection
    served,        \* number of beacons the server took from a connection
    everSent,      \* commands sent at least once
    dropped        \* commands discarded by the server without being sent

nodeVars   == <<pc, mainPc, conn, info, nodeQueue, toSend>>
chanVars   == <<status, peerClosed, up, down>>
serverVars == <<sinfo, epoll, commandsQueue, devState, restarts>>
histVars   == <<target, sent, executed, served, everSent, dropped>>
vars == <<nodeVars, chanVars, serverVars, histVars>>

-----------------------------------------------------------------------------
(***************************************************************************)
(* Sending and receiving one message.                                      *)
(***************************************************************************)

\* A connInfo_t: initializeConnInfo, accept1.  A zero field is not yet set.
ConnInfo == [localNonce : Word, remoteNonce : Word, sessionId : Word,
             sendSessionIncrements : Word]
InitConnInfo == [localNonce |-> 0, remoteNonce |-> 0, sessionId |-> 0,
                 sendSessionIncrements |-> 0]

\* uint32_t addition, and a wrong version: addition of wider integers.
AddWide(a, b) == a + b
Add(a, b) == (a + b) % Modulus

Bodies   == Commands \cup Beacons \cup {None}
Messages == [nonce : Word, dev : Nodes \cup {None}, body : Bodies]

\* encryptPckData converts the nonce it is given to network order, and
\* decryptPckData converts it back.
encryptPckData(nonce, dev, body) ==
    [nonce |-> Swap[nonce], dev |-> dev, body |-> body]
NonceOf(msg) == Swap[msg.nonce]

\* encryptAndSendAll on an established session: the counter is incremented
\* first and the sum is converted to network order before encryptPckData.
\* (The wrong version does not count past the first message.)
SendInfoStuck(ci) == [ci EXCEPT !.sendSessionIncrements = 1]
SendInfo(ci) == [ci EXCEPT !.sendSessionIncrements = Add(@, 1)]
SessionMessage(ci, dev, body) ==
    LET next == SendInfo(ci)
    IN  encryptPckData(Swap[Add(next.sessionId, next.sendSessionIncrements)],
                       dev, body)

\* encryptAndSendAll when no nonce has been sent: a random localNonce is
\* generated, never 0, which stands for "not set"; the message carries it.
Nonce == {IF r = 0 THEN 1 ELSE r : r \in Randoms}
NonceMessage(r, dev) == encryptPckData(Swap[r], dev, None)

\* send() on connection c towards the node is lost once the node has closed.
SendDown(c, msg) ==
    down' = [down EXCEPT ![c] = IF peerClosed[c] THEN @ ELSE Append(@, msg)]

\* send() on connection c towards the server is lost if the server has gone.
SendUp(c, msg) ==
    up' = [up EXCEPT ![c] = IF status[c] = "gone" THEN @ ELSE Append(@, msg)]

-----------------------------------------------------------------------------
Init ==
    /\ pc = [n \in Nodes |-> "sleep"]
    /\ mainPc = [n \in Nodes |-> "check"]
    /\ conn = [n \in Nodes |-> None]
    /\ info = [n \in Nodes |-> InitConnInfo]
    /\ nodeQueue = [n \in Nodes |-> <<>>]
    /\ toSend = [n \in Nodes |-> 0]
    /\ status = [c \in Conns |-> "free"]
    /\ peerClosed = [c \in Conns |-> FALSE]
    /\ up = [c \in Conns |-> <<>>]
    /\ down = [c \in Conns |-> <<>>]
    /\ sinfo = [c \in Conns |-> InitConnInfo]
    /\ epoll = [conn |-> None, dev |-> None, i |-> 1, j |-> 1]
    /\ commandsQueue = <<>>
    /\ devState = [n \in Nodes |-> None]
    /\ restarts = 0
    /\ target = [m \in Commands |-> None]
    /\ sent = [c \in Conns |-> <<>>]
    /\ executed = [n \in Nodes |-> <<>>]
    /\ served = [c \in Conns |-> 0]
    /\ everSent = {}
    /\ dropped = {}

-----------------------------------------------------------------------------
(***************************************************************************)
(* The node's socket thread (socketThread.c).                              *)
(***************************************************************************)

\* The thread wakes up, initializeSocket resets connInfo, the connection
\* succeeds, and the nonce message goes out with the device ID in its ADD
\* data.
NodeConnect(n) ==
    /\ pc[n] = "sleep"
    /\ \E c \in Conns, r \in Nonce :
          /\ status[c] = "free"
          /\ status' = [status EXCEPT ![c] = "backlog"]
          /\ conn' = [conn EXCEPT ![n] = c]
          /\ info' = [info EXCEPT ![n] = [InitConnInfo EXCEPT !.localNonce = r]]
          /\ up' = [up EXCEPT ![c] = <<NonceMessage(r, n)>>]
    /\ pc' = [pc EXCEPT ![n] = "nonce"]
    /\ UNCHANGED <<mainPc, nodeQueue, toSend, peerClosed, down, serverVars,
                   histVars>>

\* processMsg of the node while no session is established: the message is
\* the server's nonce.
Establish(ci, msg) ==
    [ci EXCEPT !.remoteNonce = NonceOf(msg),
               !.localNonce = Swap[@],
               !.sessionId = Add(Swap[ci.localNonce], NonceOf(msg))]

NodeRecvNonce(n) ==
    /\ pc[n] = "nonce"
    /\ info[n].sessionId = 0
    /\ down[conn[n]] # <<>>
    /\ info' = [info EXCEPT ![n] = Establish(@, Head(down[conn[n]]))]
    /\ down' = [down EXCEPT ![conn[n]] = Tail(@)]
    /\ UNCHANGED <<pc, mainPc, conn, nodeQueue, toSend, status, peerClosed, up,
                   serverVars, histVars>>

\* processMsg of the node in a session: nodeCommands[opcode] runs.  Commands
\* that arrive in the same chunk as the server's nonce are run by the recvAll
\* that waits for the nonce, the others by the one recvAll after the sending
\* loop.  (The wrong version runs only the last of the commands in a chunk.)
NodeExecuteLast(n) ==
    /\ \/ pc[n] = "nonce"
       \/ pc[n] = "send" /\ toSend[n] = 0
    /\ info[n].sessionId # 0
    /\ down[conn[n]] # <<>>
    /\ executed' = [executed EXCEPT ![n] =
                       Append(@, down[conn[n]][Len(down[conn[n]])].body)]
    /\ down' = [down EXCEPT ![conn[n]] = <<>>]
    /\ UNCHANGED <<nodeVars, status, peerClosed, up, serverVars,
                   target, sent, served, everSent, dropped>>
NodeExecute(n) ==
    /\ \/ pc[n] = "nonce"
       \/ pc[n] = "send" /\ toSend[n] = 0
    /\ info[n].sessionId # 0
    /\ down[conn[n]] # <<>>
    /\ executed' = [executed EXCEPT ![n] = Append(@, Head(down[conn[n]]).body)]
    /\ down' = [down EXCEPT ![conn[n]] = Tail(@)]
    /\ UNCHANGED <<nodeVars, status, peerClosed, up, serverVars,
                   target, sent, served, everSent, dropped>>

\* recvAll returned 0 with a session established: a smart lock queues its
\* beacon, and the number of commands to send is read.
NodeStartSending(n) ==
    /\ pc[n] = "nonce"
    /\ info[n].sessionId # 0
    /\ pc' = [pc EXCEPT ![n] = "send"]
    /\ IF n \in MainLoopNodes
       THEN nodeQueue' = nodeQueue
       ELSE \E b \in Beacons : nodeQueue' = [nodeQueue EXCEPT ![n] = Append(@, b)]
    /\ toSend' = [toSend EXCEPT ![n] = Len(nodeQueue'[n])]
    /\ UNCHANGED <<mainPc, conn, info, chanVars, serverVars, histVars>>

\* One turn of the sending loop: pop a command and send it; the result of
\* sending is ignored.
NodeSend(n) ==
    /\ pc[n] = "send"
    /\ toSend[n] > 0
    /\ toSend' = [toSend EXCEPT ![n] = @ - 1]
    /\ nodeQueue' = [nodeQueue EXCEPT ![n] = Tail(@)]
    /\ SendUp(conn[n], SessionMessage(info[n], n, Head(nodeQueue[n])))
    /\ info' = [info EXCEPT ![n] = SendInfo(@)]
    /\ UNCHANGED <<pc, mainPc, conn, status, peerClosed, down, serverVars,
                   histVars>>

\* The end of a cycle: connInfo is reset and the socket closed, which drops
\* whatever is still on its way to the node.  Waiting for the nonce ends here
\* on a receive timeout, on an error, when the server has closed, or when the
\* sum of the nonces is 0; the last recvAll ends here after one chunk of
\* commands, on a timeout or when the server has closed.  (The wrong version
\* waits for the nonce without a timeout.)
CanCloseOnlyEstablished(n) == pc[n] = "send" /\ toSend[n] = 0
CanClose(n) ==
    \/ pc[n] = "nonce" /\ info[n].sessionId = 0
    \/ pc[n] = "send" /\ toSend[n] = 0

NodeClose(n) ==
    /\ CanClose(n)
    /\ pc' = [pc EXCEPT ![n] = "sleep"]
    /\ conn' = [conn EXCEPT ![n] = None]
    /\ info' = [info EXCEPT ![n] = InitConnInfo]
    /\ down' = [down EXCEPT ![conn[n]] = <<>>]
    /\ executed' = [executed EXCEPT ![n] = <<>>]
    /\ IF status[conn[n]] = "gone"
       THEN /\ status' = [status EXCEPT ![conn[n]] = "free"]
            /\ sent' = [sent EXCEPT ![conn[n]] = <<>>]
            /\ UNCHANGED peerClosed
       ELSE /\ peerClosed' = [peerClosed EXCEPT ![conn[n]] = TRUE]
            /\ UNCHANGED <<status, sent>>
    /\ UNCHANGED <<mainPc, nodeQueue, toSend, up, serverVars,
                   target, served, everSent, dropped>>

\* The main loop of a noise monitor reads connInfo.sessionId without a lock
\* and then queues a beacon; the session may have ended in between.
MainLoopCheck(n) ==
    /\ n \in MainLoopNodes
    /\ mainPc[n] = "check"
    /\ info[n].sessionId # 0
    /\ Len(nodeQueue[n]) < MaxNodeQueue
    /\ mainPc' = [mainPc EXCEPT ![n] = "add"]
    /\ UNCHANGED <<pc, conn, info, nodeQueue, toSend, chanVars, serverVars,
                   histVars>>
MainLoopAdd(n) ==
    /\ mainPc[n] = "add"
    /\ mainPc' = [mainPc EXCEPT ![n] = "check"]
    /\ \E b \in Beacons : nodeQueue' = [nodeQueue EXCEPT ![n] = Append(@, b)]
    /\ UNCHANGED <<pc, conn, info, toSend, chanVars, serverVars, histVars>>

-----------------------------------------------------------------------------
(***************************************************************************)
(* The server.                                                             *)
(***************************************************************************)
Idle == epoll.conn = None

\* accept1: a connInfo with every field zero.
ServerAccept(c) ==
    /\ Idle
    /\ status[c] = "backlog"
    /\ status' = [status EXCEPT ![c] = "open"]
    /\ sinfo' = [sinfo EXCEPT ![c] = InitConnInfo]
    /\ UNCHANGED <<nodeVars, peerClosed, up, down, epoll, commandsQueue,
                   devState, restarts, histVars>>

\* The connInfo after a node's nonce msg was answered with the nonce r, and two
\* wrong versions: localNonce is not converted; no sessionId is set.
AnswerUnswapped(ci, msg, r) ==
    [ci EXCEPT !.remoteNonce = NonceOf(msg),
               !.localNonce = r,
               !.sessionId = Add(NonceOf(msg), r)]
AnswerNoSession(ci, msg, r) ==
    [ci EXCEPT !.remoteNonce = NonceOf(msg),
               !.localNonce = Swap[r]]
Answer(ci, msg, r) ==
    [ci EXCEPT !.remoteNonce = NonceOf(msg),
               !.localNonce = Swap[r],
               !.sessionId = Add(NonceOf(msg), Swap[r])]

\* processMsg, neither nonce set: the message carries the node's nonce.  The
\* server answers with its own, sets the sessionId and enters
\* sendQueuedMessages, which locks commandsQueueMux.  (The branch for
\* remoteNonce = 0 and localNonce # 0 is not modelled: EveryMessageHandled
\* shows that no state reaches it.)
ServerRecvNonce(c) ==
    /\ Idle
    /\ status[c] = "open"
    /\ up[c] # <<>>
    /\ sinfo[c].localNonce = 0 /\ sinfo[c].remoteNonce = 0
    /\ \E r \in Nonce :
          /\ SendDown(c, NonceMessage(r, None))
          /\ sinfo' = [sinfo EXCEPT ![c] = Answer(@, Head(up[c]), r)]
    /\ up' = [up EXCEPT ![c] = Tail(@)]
    /\ epoll' = [conn |-> c, dev |-> Head(up[c]).dev, i |-> 1, j |-> 1]
    /\ UNCHANGED <<nodeVars, status, peerClosed, commandsQueue, devState,
                   restarts, histVars>>

\* processMsg in a session: the beacon handler stores the reading in the
\* devInfo of the device.
ServerRecvBeacon(c) ==
    /\ Idle
    /\ status[c] = "open"
    /\ up[c] # <<>>
    /\ sinfo[c].sessionId # 0
    /\ devState' = [devState EXCEPT ![Head(up[c]).dev] = Head(up[c]).body]
    /\ up' = [up EXCEPT ![c] = Tail(@)]
    /\ served' = [served EXCEPT ![c] = @ + 1]
    /\ UNCHANGED <<nodeVars, status, peerClosed, down, sinfo, epoll,
                   commandsQueue, restarts, target, sent, executed, everSent,
                   dropped>>

\* recvAll saw the end of the stream (removeConnInfo), or epoll reported
\* EPOLLHUP or EPOLLERR (close1), in which case unread messages are lost.
ServerClose(c) ==
    /\ Idle
    /\ status[c] = "open"
    /\ peerClosed[c]
    /\ status' = [status EXCEPT ![c] = "free"]
    /\ peerClosed' = [peerClosed EXCEPT ![c] = FALSE]
    /\ up' = [up EXCEPT ![c] = <<>>]
    /\ sinfo' = [sinfo EXCEPT ![c] = InitConnInfo]
    /\ sent' = [sent EXCEPT ![c] = <<>>]
    /\ served' = [served EXCEPT ![c] = 0]
    /\ UNCHANGED <<nodeVars, down, epoll, commandsQueue, devState, restarts,
                   target, executed, everSent, dropped>>

-----------------------------------------------------------------------------
(***************************************************************************)
(* sendQueuedMessages, with commandsQueueMux held from its first to its    *)
(* last step: i runs over the queue, j over the commands of request i.     *)
(* (MatchesAnyDevice is a wrong version of the comparison of device IDs.)  *)
(***************************************************************************)
Current == commandsQueue[epoll.i]
MatchesAnyDevice == epoll.i <= Len(commandsQueue)
Matches == epoll.i <= Len(commandsQueue) /\ Current.devId = epoll.dev

SkipRequest ==
    /\ ~Idle
    /\ epoll.i <= Len(commandsQueue) /\ ~Matches
    /\ epoll' = [epoll EXCEPT !.i = @ + 1]
    /\ UNCHANGED <<nodeVars, chanVars, sinfo, commandsQueue, devState, restarts,
                   histVars>>

\* sendOffCommand.  Without a session (the nonces added up to 0)
\* encryptAndSendAll returns -1 and nothing is sent.
SendCommand ==
    /\ ~Idle
    /\ Matches
    /\ epoll.j <= Len(Current.commands)
    /\ epoll' = [epoll EXCEPT !.j = @ + 1]
    /\ LET c == epoll.conn
           cmd == Current.commands[epoll.j]
       IN  IF sinfo[c].sessionId # 0
           THEN /\ SendDown(c, SessionMessage(sinfo[c], None, cmd))
                /\ sinfo' = [sinfo EXCEPT ![c] = SendInfo(@)]
                /\ sent' = [sent EXCEPT ![c] = Append(@, cmd)]
                /\ everSent' = everSent \cup {cmd}
                /\ UNCHANGED dropped
           ELSE /\ dropped' = dropped \cup {cmd}
                /\ UNCHANGED <<down, sinfo, sent, everSent>>
    /\ UNCHANGED <<nodeVars, status, peerClosed, up, commandsQueue, devState,
                   restarts, target, executed, served>>

\* The request is removed, and the loop goes on with i + 1: the request that
\* moved into place i is not looked at.  (The wrong version leaves the inner loop
\* before the last command.)
RemoveRequestEarly ==
    /\ ~Idle
    /\ Matches
    /\ epoll.j >= Len(Current.commands)
    /\ commandsQueue' = removeFromList(commandsQueue, epoll.i)
    /\ epoll' = [epoll EXCEPT !.i = @ + 1, !.j = 1]
    /\ UNCHANGED <<nodeVars, chanVars, sinfo, devState, restarts, histVars>>
RemoveRequest ==
    /\ ~Idle
    /\ Matches
    /\ epoll.j > Len(Current.commands)
    /\ commandsQueue' = removeFromList(commandsQueue, epoll.i)
    /\ epoll' = [epoll EXCEPT !.i = @ + 1, !.j = 1]
    /\ UNCHANGED <<nodeVars, chanVars, sinfo, devState, restarts, histVars>>

EndSendQueued ==
    /\ ~Idle
    /\ epoll.i > Len(commandsQueue)
    /\ epoll' = [conn |-> None, dev |-> None, i |-> 1, j |-> 1]
    /\ UNCHANGED <<nodeVars, chanVars, sinfo, commandsQueue, devState, restarts,
                   histVars>>

SendQueuedMessages == SkipRequest \/ SendCommand \/ RemoveRequest \/ EndSendQueued

-----------------------------------------------------------------------------
\* The websocket thread queues a command a user asked for; it waits for
\* commandsQueueMux.
RequestCommand(n, cmd) ==
    /\ Idle
    /\ target[cmd] = None
    /\ target' = [target EXCEPT ![cmd] = n]
    /\ commandsQueue' = addToCommandQueue(commandsQueue, n, cmd)
    /\ UNCHANGED <<nodeVars, chanVars, sinfo, epoll, devState, restarts,
                   sent, executed, served, everSent, dropped>>

\* The server process dies and is started again: connections are closed, the
\* command queue and the states reported by the nodes are forgotten.
ServerRestart ==
    /\ restarts < MaxRestarts
    /\ restarts' = restarts + 1
    /\ status' = [c \in Conns |-> IF status[c] = "free" \/ peerClosed[c]
                                  THEN "free" ELSE "gone"]
    /\ peerClosed' = [c \in Conns |-> FALSE]
    /\ up' = [c \in Conns |-> <<>>]
    /\ sinfo' = [c \in Conns |-> InitConnInfo]
    /\ epoll' = [conn |-> None, dev |-> None, i |-> 1, j |-> 1]
    /\ commandsQueue' = <<>>
    /\ devState' = [n \in Nodes |-> None]
    /\ dropped' = dropped \cup {cmd \in Commands :
                                  \E n \in Nodes : cmd \in QueuedFor(commandsQueue, n)}
    /\ sent' = [c \in Conns |-> IF status'[c] = "free" THEN <<>> ELSE sent[c]]
    /\ served' = [c \in Conns |-> 0]
    /\ UNCHANGED <<nodeVars, down, target, executed, everSent>>

-----------------------------------------------------------------------------
SocketThread(n) ==
    \/ NodeConnect(n) \/ NodeRecvNonce(n) \/ NodeExecute(n)
    \/ NodeStartSending(n) \/ NodeSend(n) \/ NodeClose(n)
MainLoop(n) == MainLoopCheck(n) \/ MainLoopAdd(n)
EpollThread ==
    \/ \E c \in Conns : \/ ServerAccept(c) \/ ServerRecvNonce(c)
                        \/ ServerRecvBeacon(c) \/ ServerClose(c)
    \/ SendQueuedMessages
WebSocketThread == \E n \in Nodes, cmd \in Commands : RequestCommand(n, cmd)

Next ==
    \/ \E n \in Nodes : SocketThread(n) \/ MainLoop(n)
    \/ EpollThread
    \/ WebSocketThread
    \/ ServerRestart

Spec == Init /\ [][Next]_vars

\* A socket thread never stops: every receive has a timeout.  The epoll thread
\* serves every ready connection again and again, and is not late with its
\* answer to a node in every one of the node's sessions.
Fairness ==
    /\ \A n \in Nodes : WF_vars(SocketThread(n))
    /\ WF_vars(SendQueuedMessages)
    /\ \A c \in Conns : SF_vars(ServerAccept(c)) /\ SF_vars(ServerClose(c))
    /\ \A c \in Conns, n \in Nodes :
          SF_vars(ServerRecvNonce(c) /\ Head(up[c]).dev = n)

FairSpec == Spec /\ Fairness

-----------------------------------------------------------------------------
(***************************************************************************)
(* Properties.                                                             *)
(***************************************************************************)

EpollPosition == [conn : Conns \cup {None}, dev : Nodes \cup {None},
                  i : Nat \ {0}, j : Nat \ {0}]

\* Type correctness of every variable.
TypeOK ==
    /\ pc \in [Nodes -> {"sleep", "nonce", "send"}]
    /\ mainPc \in [Nodes -> {"check", "add"}]
    /\ conn \in [Nodes -> Conns \cup {None}]
    /\ info \in [Nodes -> ConnInfo]
    /\ nodeQueue \in [Nodes -> Seq(Beacons)]
    /\ toSend \in [Nodes -> Nat]
    /\ status \in [Conns -> {"free", "backlog", "open", "gone"}]
    /\ peerClosed \in [Conns -> BOOLEAN]
    /\ up \in [Conns -> Seq(Messages)]
    /\ down \in [Conns -> Seq(Messages)]
    /\ sinfo \in [Conns -> ConnInfo]
    /\ epoll \in EpollPosition
    /\ commandsQueue \in Seq(Request(Nodes, Commands))
    /\ devState \in [Nodes -> Bodies]
    /\ restarts \in 0 .. MaxRestarts
    /\ target \in [Commands -> Nodes \cup {None}]
    /\ sent \in [Conns -> Seq(Commands)]
    /\ executed \in [Nodes -> Seq(Bodies)]
    /\ served \in [Conns -> Nat]
    /\ everSent \subseteq Commands
    /\ dropped \subseteq Commands

\* A node that has taken the server's nonce and the server compute the same
\* sessionId, each side holding the other's nonce, whatever the byte order
\* conversions on the way (processMsg in client.c and in server.c).
SessionAgreement ==
    \A n \in Nodes :
        (conn[n] # None /\ status[conn[n]] = "open" /\ info[n].remoteNonce # 0)
        => /\ info[n].sessionId = sinfo[conn[n]].sessionId
           /\ info[n].remoteNonce = sinfo[conn[n]].localNonce
           /\ info[n].localNonce = sinfo[conn[n]].remoteNonce

\* The k-th message of a session that is on its way carries the sessionId plus
\* the number of messages sent before it in that direction plus one, so a
\* receiver that counted messages could predict the nonce of the next one
\* (sendSessionIncrements in encryptAndSendAll).
NoncesInStep ==
    \A n \in Nodes :
        LET c == conn[n]
        IN  (c # None /\ status[c] = "open" /\ info[n].sessionId # 0)
            => /\ \A k \in DOMAIN up[c] :
                     up[c][k].nonce = Add(sinfo[c].sessionId, served[c] + k)
               /\ \A k \in DOMAIN down[c] :
                     down[c][k].nonce =
                        Add(info[n].sessionId, Len(executed[n]) + k)

\* Whenever the epoll thread is about to read a message, either it is the first
\* of its connection (neither nonce set) or a session is established: the
\* branch of processMsg for a nonce that arrives after the server sent its own
\* is dead code, and no message falls through all branches unnoticed.
EveryMessageHandled ==
    \A c \in Conns :
        (Idle /\ status[c] = "open" /\ up[c] # <<>>)
        => \/ sinfo[c].localNonce = 0 /\ sinfo[c].remoteNonce = 0
           \/ sinfo[c].sessionId # 0

\* A node runs the commands the server sent on the connection it holds, in the
\* order they were sent and without gaps, and all of them were requested for
\* that node.
CommandsInOrder ==
    \A n \in Nodes : conn[n] # None =>
        /\ Len(executed[n]) <= Len(sent[conn[n]])
        /\ \A k \in DOMAIN executed[n] :
              /\ executed[n][k] = sent[conn[n]][k]
              /\ target[executed[n][k]] = n

\* A requested command has been sent, or is still queued for its device, or
\* was discarded for one of the two known reasons (a session whose nonces add
\* up to 0, a restart): the loop of sendQueuedMessages that removes requests
\* while it walks the list loses none.
SentOrQueued ==
    \A cmd \in Commands : target[cmd] # None =>
        cmd \in everSent \cup dropped \cup QueuedFor(commandsQueue, target[cmd])

\* Of two requests queued for one device the later holds the last commands of
\* the earlier (addToCommandQueue): what the server sends a second time, it
\* sends in the order of the requests.
QueueSuffixes ==
    \A i, j \in DOMAIN commandsQueue :
        (i < j /\ commandsQueue[i].devId = commandsQueue[j].devId)
        => LET s == commandsQueue[i].commands
               t == commandsQueue[j].commands
           IN  /\ Len(t) < Len(s)
               /\ t = SubSeq(s, Len(s) - Len(t) + 1, Len(s))

\* A node that has woken up goes back to sleep: no receive, in particular not
\* the loop that waits for the server's nonce, blocks the socket thread.
NodeCycleEnds ==
    \A n \in Nodes : (pc[n] # "sleep") ~> (pc[n] = "sleep")

\* A command queued for a node that keeps connecting is eventually taken off
\* the queue, although sendQueuedMessages skips requests while it removes.
QueuedEventuallyTaken ==
    \A n \in Nodes, cmd \in Commands :
        (cmd \in QueuedFor(commandsQueue, n))
        ~> (cmd \notin QueuedFor(commandsQueue, n))

-----------------------------------------------------------------------------
(***************************************************************************)
(* Session implements Delivery: a command waits while it is in a request   *)
(* queued for the device it was requested for.                             *)
(***************************************************************************)
Waiting == {cmd \in Commands :
              target[cmd] # None /\ cmd \in QueuedFor(commandsQueue, target[cmd])}

Abstract == INSTANCE Delivery WITH waiting <- Waiting

\* Every step of the threads is a step of Delivery or changes nothing it sees:
\* the walk of sendQueuedMessages over a list it removes from, the duplicated
\* requests of addToCommandQueue, reused connection slots and restarts never
\* lose a command before it was sent or discarded, never send one that no user
\* requested, and no node ever runs a command meant for another.
ImplementsDelivery == Abstract!Spec

-----------------------------------------------------------------------------
(***************************************************************************)
(* What a comment of the code says and the code does not do.               *)
(***************************************************************************)

\* socketThread.c:329: "Close connection after recieving and sending all
\* commands": a node that ends a session has run every command that the server
\* sent in it.
ClosesAfterReceivingAll ==
    [][\A n \in Nodes :
          (NodeClose(n) /\ info[n].sessionId # 0)
          => Len(executed[n]) = Len(sent[conn[n]])]_vars
=============================================================================
