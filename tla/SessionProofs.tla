--------------------------- MODULE SessionProofs ---------------------------
(***************************************************************************)
(* Proofs about Session, for any set of nodes, connections and commands,   *)
(* any modulus and any byte order conversion that is its own inverse: type *)
(* correctness, and the agreement of the two ends of a connection.         *)
(***************************************************************************)
EXTENDS Session, SequenceTheorems, TLAPS

USE DEF Word

-----------------------------------------------------------------------------
(***************************************************************************)
(* Lemmas about the operators.                                             *)
(***************************************************************************)

\* uint32_t addition stays within a word and is commutative.
LEMMA AddWord == \A a, b \in Word : Add(a, b) \in Word /\ Add(a, b) = Add(b, a)
  <1> SUFFICES ASSUME NEW a \in Word, NEW b \in Word
               PROVE  Add(a, b) \in Word /\ Add(a, b) = Add(b, a)
      OBVIOUS
  <1>1. Modulus \in Int /\ Modulus > 1 /\ a + b \in Int /\ a + b = b + a
      BY ModulusAssumption
  <1>2. (a + b) % Modulus \in 0 .. (Modulus - 1)
      BY <1>1
  <1> QED BY <1>1, <1>2 DEF Add

\* Byte order conversion maps words to words and only 0 to 0.
LEMMA SwapWord ==
  /\ \A x \in Word : Swap[x] \in Word /\ Swap[Swap[x]] = x
  /\ \A x \in Word : x # 0 => Swap[x] # 0
  BY SwapAssumption, ModulusAssumption

\* A generated nonce is a word other than 0.
LEMMA NonceWord == \A r \in Nonce : r \in Word /\ r # 0
  BY RandomsAssumption, ModulusAssumption DEF Nonce

\* Head and Tail of a nonempty sequence.
LEMMA HeadTail ==
  ASSUME NEW S, NEW s \in Seq(S), s # <<>>
  PROVE  Head(s) \in S /\ Tail(s) \in Seq(S) /\ Len(Tail(s)) = Len(s) - 1
  OBVIOUS

\* removeFromList returns a queue of the same kind.
LEMMA RemoveType ==
  ASSUME NEW S, NEW q \in Seq(S), NEW i \in 1 .. Len(q)
  PROVE  removeFromList(q, i) \in Seq(S)
  <1>1. Len(q) - 1 \in Nat
      OBVIOUS
  <1>2. \A k \in 1 .. (Len(q) - 1) : (IF k < i THEN q[k] ELSE q[k + 1]) \in S
      OBVIOUS
  <1> QED BY <1>1, <1>2 DEF removeFromList

\* addToCommandQueue returns a queue of the same kind.
LEMMA AddType ==
  ASSUME NEW q \in Seq(Request(Nodes, Commands)), NEW n \in Nodes,
         NEW cmd \in Commands
  PROVE  addToCommandQueue(q, n, cmd) \in Seq(Request(Nodes, Commands))
  <1>1. NewRequest(n, cmd) \in Request(Nodes, Commands)
      BY DEF NewRequest, Request
  <1>2. ASSUME NEW i \in DOMAIN q
        PROVE  [q[i] EXCEPT !.commands = Append(@, cmd)] \in Request(Nodes, Commands)
      <2>1. q[i] \in Request(Nodes, Commands)
          OBVIOUS
      <2>2. Append(q[i].commands, cmd) \in Seq(Commands)
          BY <2>1 DEF Request
      <2> QED BY <2>1, <2>2 DEF Request
  <1>3. AppendToMatching(q, n, cmd) \in Seq(Request(Nodes, Commands))
      <2> DEFINE req(i) == IF q[i].devId = n
                           THEN [q[i] EXCEPT !.commands = Append(@, cmd)]
                           ELSE q[i]
      <2>1. \A i \in DOMAIN q : req(i) \in Request(Nodes, Commands)
          <3> SUFFICES ASSUME NEW i \in DOMAIN q
                       PROVE  req(i) \in Request(Nodes, Commands)
              OBVIOUS
          <3>1. q[i] \in Request(Nodes, Commands)
              OBVIOUS
          <3> QED BY <3>1, <1>2
      <2>2. DOMAIN q = 1 .. Len(q) /\ Len(q) \in Nat
          OBVIOUS
      <2>3. AppendToMatching(q, n, cmd) = [i \in 1 .. Len(q) |-> req(i)]
          BY <2>2 DEF AppendToMatching
      <2> HIDE DEF req
      <2> QED BY <2>1, <2>2, <2>3
  <1> QED BY <1>1, <1>3 DEF addToCommandQueue

\* What encryptAndSendAll sends on a session is a message, and its counter
\* stays a word.
LEMMA SendType ==
  ASSUME NEW ci \in ConnInfo, NEW dev \in Nodes \cup {None}, NEW body \in Bodies
  PROVE  /\ SendInfo(ci) \in ConnInfo
         /\ SessionMessage(ci, dev, body) \in Messages
  <1>1. Add(ci.sendSessionIncrements, 1) \in Word
      BY AddWord, ModulusAssumption DEF ConnInfo
  <1>2. SendInfo(ci) \in ConnInfo
      BY <1>1 DEF SendInfo, ConnInfo
  <1>3. Add(SendInfo(ci).sessionId, SendInfo(ci).sendSessionIncrements) \in Word
      BY <1>2, AddWord DEF ConnInfo
  <1> QED BY <1>2, <1>3, SwapWord DEF SessionMessage, encryptPckData, Messages

\* A nonce message is a message, and its receiver reads the converted nonce.
LEMMA NonceMessageType ==
  ASSUME NEW r \in Nonce, NEW dev \in Nodes \cup {None}
  PROVE  /\ NonceMessage(r, dev) \in Messages
         /\ NonceOf(NonceMessage(r, dev)) = Swap[r]
         /\ Swap[r] \in Word /\ Swap[r] # 0
  BY NonceWord, SwapWord DEF NonceMessage, NonceOf, encryptPckData, Messages, Bodies

\* Taking the server's nonce yields a connInfo.
LEMMA EstablishType ==
  ASSUME NEW ci \in ConnInfo, NEW msg \in Messages
  PROVE  Establish(ci, msg) \in ConnInfo
  <1>1. NonceOf(msg) \in Word /\ Swap[ci.localNonce] \in Word
      BY SwapWord DEF NonceOf, Messages, ConnInfo
  <1>2. Add(Swap[ci.localNonce], NonceOf(msg)) \in Word
      BY <1>1, AddWord
  <1> QED BY <1>1, <1>2 DEF Establish, ConnInfo

\* The server's answer yields a connInfo.
LEMMA AnswerType ==
  ASSUME NEW ci \in ConnInfo, NEW msg \in Messages, NEW r \in Nonce
  PROVE  Answer(ci, msg, r) \in ConnInfo
  <1>1. NonceOf(msg) \in Word /\ Swap[r] \in Word
      BY SwapWord, NonceWord DEF NonceOf, Messages
  <1>2. Add(NonceOf(msg), Swap[r]) \in Word
      BY <1>1, AddWord
  <1> QED BY <1>1, <1>2 DEF Answer, ConnInfo

\* A connInfo with every field zero is one.
LEMMA InitConnInfoType == InitConnInfo \in ConnInfo
  BY ModulusAssumption DEF InitConnInfo, ConnInfo

-----------------------------------------------------------------------------
(***************************************************************************)
(* Type correctness.  It needs to know when a socket thread holds a        *)
(* connection, and that its sending loop never pops an empty queue.        *)
(***************************************************************************)
SocketInv ==
    \A n \in Nodes :
        /\ (pc[n] = "sleep") <=> (conn[n] = None)
        /\ (pc[n] = "send") => (toSend[n] <= Len(nodeQueue[n]))

TypeInv == TypeOK /\ SocketInv

\* Initially the type invariant holds.
LEMMA TypeInit == Init => TypeInv
  BY InitConnInfoType, BoundsAssumption
     DEF Init, TypeInv, TypeOK, SocketInv, Bodies, EpollPosition

\* Steps of a socket thread and of a main loop preserve the type invariant.
LEMMA TypeNode ==
  ASSUME TypeInv, NEW n \in Nodes, SocketThread(n) \/ MainLoop(n)
  PROVE  TypeInv'
  <1>0. None \notin Conns
      BY NoneAssumption
  <1>1. CASE NodeConnect(n)
      <2>1. PICK c \in Conns, r \in Nonce :
               /\ status' = [status EXCEPT ![c] = "backlog"]
               /\ conn' = [conn EXCEPT ![n] = c]
               /\ info' = [info EXCEPT ![n] = [InitConnInfo EXCEPT !.localNonce = r]]
               /\ up' = [up EXCEPT ![c] = <<NonceMessage(r, n)>>]
          BY <1>1 DEF NodeConnect
      <2>2. [InitConnInfo EXCEPT !.localNonce = r] \in ConnInfo
          BY InitConnInfoType, NonceWord DEF ConnInfo
      <2>3. <<NonceMessage(r, n)>> \in Seq(Messages)
          BY NonceMessageType
      <2>4. TypeOK'
          BY <1>1, <2>1, <2>2, <2>3
             DEF NodeConnect, TypeInv, TypeOK, serverVars, histVars
      <2>5. SocketInv'
          BY <1>0, <1>1, <2>1 DEF NodeConnect, TypeInv, TypeOK, SocketInv
      <2> QED BY <2>4, <2>5 DEF TypeInv
  <1>2. CASE NodeRecvNonce(n)
      <2>1. conn[n] \in Conns /\ down[conn[n]] \in Seq(Messages)
          BY <1>2 DEF NodeRecvNonce, TypeInv, TypeOK, SocketInv
      <2>2. Head(down[conn[n]]) \in Messages /\ Tail(down[conn[n]]) \in Seq(Messages)
          BY <1>2, <2>1, HeadTail DEF NodeRecvNonce
      <2>3. Establish(info[n], Head(down[conn[n]])) \in ConnInfo
          BY <2>2, EstablishType DEF TypeInv, TypeOK
      <2>4. TypeOK'
          BY <1>2, <2>1, <2>2, <2>3
             DEF NodeRecvNonce, TypeInv, TypeOK, serverVars, histVars
      <2>5. SocketInv'
          BY <1>2 DEF NodeRecvNonce, TypeInv, SocketInv
      <2> QED BY <2>4, <2>5 DEF TypeInv
  <1>3. CASE NodeExecute(n)
      <2>1. conn[n] \in Conns /\ down[conn[n]] \in Seq(Messages)
          BY <1>3 DEF NodeExecute, TypeInv, TypeOK, SocketInv
      <2>2. Head(down[conn[n]]) \in Messages /\ Tail(down[conn[n]]) \in Seq(Messages)
          BY <1>3, <2>1, HeadTail DEF NodeExecute
      <2>3. Append(executed[n], Head(down[conn[n]]).body) \in Seq(Bodies)
          <3>1. Head(down[conn[n]]).body \in Bodies
              BY <2>2 DEF Messages
          <3> QED BY <3>1 DEF TypeInv, TypeOK
      <2>4. TypeOK'
          BY <1>3, <2>1, <2>2, <2>3
             DEF NodeExecute, TypeInv, TypeOK, nodeVars, serverVars
      <2>5. SocketInv'
          BY <1>3 DEF NodeExecute, TypeInv, SocketInv, nodeVars
      <2> QED BY <2>4, <2>5 DEF TypeInv
  <1>4. CASE NodeStartSending(n)
      <2>1. nodeQueue' \in [Nodes -> Seq(Beacons)]
          <3>1. CASE nodeQueue' = nodeQueue
              BY <3>1 DEF TypeInv, TypeOK
          <3>2. CASE nodeQueue' # nodeQueue
              <4>1. PICK b \in Beacons :
                       nodeQueue' = [nodeQueue EXCEPT ![n] = Append(@, b)]
                  BY <1>4, <3>2 DEF NodeStartSending
              <4> QED BY <4>1 DEF TypeInv, TypeOK
          <3> QED BY <3>1, <3>2
      <2>2. \A m \in Nodes : m # n => nodeQueue'[m] = nodeQueue[m]
          BY <1>4 DEF NodeStartSending, TypeInv, TypeOK
      <2>3. Len(nodeQueue'[n]) \in Nat
          BY <2>1
      <2>4. toSend' = [toSend EXCEPT ![n] = Len(nodeQueue'[n])]
          BY <1>4 DEF NodeStartSending
      <2>5. TypeOK'
          <3>1. toSend' \in [Nodes -> Nat]
              BY <2>3, <2>4 DEF TypeInv, TypeOK
          <3>2. pc' \in [Nodes -> {"sleep", "nonce", "send"}]
              BY <1>4 DEF NodeStartSending, TypeInv, TypeOK
          <3>3. UNCHANGED <<mainPc, conn, info, chanVars, serverVars, histVars>>
              BY <1>4 DEF NodeStartSending
          <3> QED BY <2>1, <3>1, <3>2, <3>3
                  DEF TypeInv, TypeOK, chanVars, serverVars, histVars
      <2>6. SocketInv'
          <3> SUFFICES ASSUME NEW m \in Nodes
                       PROVE  /\ (pc'[m] = "sleep") <=> (conn'[m] = None)
                              /\ (pc'[m] = "send") => (toSend'[m] <= Len(nodeQueue'[m]))
              BY DEF SocketInv
          <3>1. /\ (pc[m] = "sleep") <=> (conn[m] = None)
                /\ (pc[m] = "send") => (toSend[m] <= Len(nodeQueue[m]))
                /\ toSend \in [Nodes -> Nat] /\ pc[n] = "nonce" /\ conn' = conn
                /\ pc' = [pc EXCEPT ![n] = "send"] /\ n \in DOMAIN pc /\ m \in DOMAIN pc
              BY <1>4 DEF NodeStartSending, TypeInv, TypeOK, SocketInv
          <3>2. CASE m = n
              BY <2>3, <2>4, <3>1, <3>2
          <3>3. CASE m # n
              BY <2>2, <2>4, <3>1, <3>3
          <3> QED BY <3>2, <3>3
      <2> QED BY <2>5, <2>6 DEF TypeInv
  <1>5. CASE NodeSend(n)
      <2>1. conn[n] \in Conns /\ nodeQueue[n] \in Seq(Beacons) /\ nodeQueue[n] # <<>>
          BY <1>5 DEF NodeSend, TypeInv, TypeOK, SocketInv
      <2>2. /\ Head(nodeQueue[n]) \in Beacons
            /\ Tail(nodeQueue[n]) \in Seq(Beacons)
            /\ Len(Tail(nodeQueue[n])) = Len(nodeQueue[n]) - 1
          BY <2>1, HeadTail
      <2>3. /\ SendInfo(info[n]) \in ConnInfo
            /\ SessionMessage(info[n], n, Head(nodeQueue[n])) \in Messages
          BY <2>2, SendType DEF TypeInv, TypeOK, Bodies
      <2>4. up' \in [Conns -> Seq(Messages)]
          BY <1>5, <2>1, <2>3 DEF NodeSend, SendUp, TypeInv, TypeOK
      <2>5. /\ nodeQueue' = [nodeQueue EXCEPT ![n] = Tail(@)]
            /\ nodeQueue' \in [Nodes -> Seq(Beacons)]
          BY <1>5, <2>2 DEF NodeSend, TypeInv, TypeOK
      <2>6. toSend' = [toSend EXCEPT ![n] = @ - 1] /\ toSend' \in [Nodes -> Nat]
          BY <1>5 DEF NodeSend, TypeInv, TypeOK
      <2>7. TypeOK'
          BY <1>5, <2>3, <2>4, <2>5, <2>6
             DEF NodeSend, TypeInv, TypeOK, serverVars, histVars
      <2>8. \A m \in Nodes : pc[m] = "send" => toSend'[m] <= Len(nodeQueue'[m])
          <3> SUFFICES ASSUME NEW m \in Nodes, pc[m] = "send"
                       PROVE  toSend'[m] <= Len(nodeQueue'[m])
              OBVIOUS
          <3>1. toSend[m] \in Nat /\ nodeQueue[m] \in Seq(Beacons)
                /\ toSend[m] <= Len(nodeQueue[m])
              BY DEF TypeInv, TypeOK, SocketInv
          <3>2. CASE m = n
              BY <2>2, <2>5, <2>6, <3>1, <3>2 DEF TypeInv, TypeOK
          <3>3. CASE m # n
              <4>1. toSend'[m] = toSend[m] /\ nodeQueue'[m] = nodeQueue[m]
                  BY <2>5, <2>6, <3>3
              <4> QED BY <3>1, <4>1
          <3> QED BY <3>2, <3>3
      <2>9. SocketInv'
          BY <1>5, <2>8 DEF NodeSend, TypeInv, SocketInv
      <2> QED BY <2>7, <2>9 DEF TypeInv
  <1>6. CASE NodeClose(n)
      <2>1. conn[n] \in Conns
          BY <1>6 DEF NodeClose, CanClose, TypeInv, TypeOK, SocketInv
      <2>2. /\ status' \in [Conns -> {"free", "backlog", "open", "gone"}]
            /\ peerClosed' \in [Conns -> BOOLEAN]
            /\ sent' \in [Conns -> Seq(Commands)]
          <3>1. CASE status[conn[n]] = "gone"
              <4>1. /\ status' = [status EXCEPT ![conn[n]] = "free"]
                    /\ sent' = [sent EXCEPT ![conn[n]] = <<>>]
                    /\ peerClosed' = peerClosed
                  BY <1>6, <3>1 DEF NodeClose
              <4>2. sent' \in [Conns -> Seq(Commands)]
                  BY <2>1, <4>1 DEF TypeInv, TypeOK
              <4> QED BY <2>1, <4>1, <4>2 DEF TypeInv, TypeOK
          <3>2. CASE status[conn[n]] # "gone"
              <4>1. /\ peerClosed' = [peerClosed EXCEPT ![conn[n]] = TRUE]
                    /\ status' = status /\ sent' = sent
                  BY <1>6, <3>2 DEF NodeClose
              <4> QED BY <2>1, <4>1 DEF TypeInv, TypeOK
          <3> QED BY <3>1, <3>2
      <2>3. /\ down' \in [Conns -> Seq(Messages)]
            /\ executed' \in [Nodes -> Seq(Bodies)]
            /\ info' \in [Nodes -> ConnInfo]
          BY <1>6, <2>1, InitConnInfoType DEF NodeClose, TypeInv, TypeOK
      <2>4. TypeOK'
          BY <1>6, <2>2, <2>3 DEF NodeClose, TypeInv, TypeOK, serverVars
      <2>5. SocketInv'
          BY <1>6 DEF NodeClose, TypeInv, TypeOK, SocketInv
      <2> QED BY <2>4, <2>5 DEF TypeInv
  <1>7. CASE MainLoopCheck(n)
      <2>1. TypeOK'
          BY <1>7 DEF MainLoopCheck, TypeInv, TypeOK, chanVars, serverVars, histVars
      <2>2. SocketInv'
          BY <1>7 DEF MainLoopCheck, TypeInv, SocketInv
      <2> QED BY <2>1, <2>2 DEF TypeInv
  <1>8. CASE MainLoopAdd(n)
      <2>1. PICK b \in Beacons : nodeQueue' = [nodeQueue EXCEPT ![n] = Append(@, b)]
          BY <1>8 DEF MainLoopAdd
      <2>2. nodeQueue' \in [Nodes -> Seq(Beacons)]
          BY <2>1 DEF TypeInv, TypeOK
      <2>3. TypeOK'
          BY <1>8, <2>2 DEF MainLoopAdd, TypeInv, TypeOK, chanVars, serverVars, histVars
      <2>4. ASSUME NEW m \in Nodes
            PROVE  Len(nodeQueue'[m]) \in Nat /\ Len(nodeQueue'[m]) >= Len(nodeQueue[m])
          <3>1. nodeQueue[m] \in Seq(Beacons)
              BY DEF TypeInv, TypeOK
          <3>2. nodeQueue'[m] = nodeQueue[m] \/ nodeQueue'[m] = Append(nodeQueue[m], b)
              BY <2>1 DEF TypeInv, TypeOK
          <3> QED BY <3>1, <3>2
      <2>5. SocketInv'
          BY <1>8, <2>2, <2>4 DEF MainLoopAdd, TypeInv, TypeOK, SocketInv
      <2> QED BY <2>3, <2>5 DEF TypeInv
  <1> QED BY <1>1, <1>2, <1>3, <1>4, <1>5, <1>6, <1>7, <1>8
          DEF SocketThread, MainLoop

\* Steps of the server preserve the type invariant.
LEMMA TypeServer ==
  ASSUME TypeInv, EpollThread \/ WebSocketThread \/ ServerRestart
  PROVE  TypeInv'
  <1>0. SocketInv'
      <2>1. UNCHANGED <<pc, conn, toSend, nodeQueue>>
          BY DEF EpollThread, WebSocketThread, ServerAccept, ServerRecvNonce,
                 ServerRecvBeacon, ServerClose, SendQueuedMessages, SkipRequest,
                 SendCommand, RemoveRequest, EndSendQueued, RequestCommand,
                 ServerRestart, nodeVars
      <2> QED BY <2>1 DEF TypeInv, SocketInv
  <1>e. epoll \in EpollPosition
      BY DEF TypeInv, TypeOK
  <1>1. ASSUME NEW c \in Conns, ServerAccept(c)
        PROVE  TypeOK'
      BY <1>1, InitConnInfoType DEF ServerAccept, TypeInv, TypeOK, nodeVars, histVars
  <1>2. ASSUME NEW c \in Conns, ServerRecvNonce(c)
        PROVE  TypeOK'
      <2>1. PICK r \in Nonce :
               /\ SendDown(c, NonceMessage(r, None))
               /\ sinfo' = [sinfo EXCEPT ![c] = Answer(@, Head(up[c]), r)]
          BY <1>2 DEF ServerRecvNonce
      <2>2. Head(up[c]) \in Messages /\ Tail(up[c]) \in Seq(Messages)
          BY <1>2, HeadTail DEF ServerRecvNonce, TypeInv, TypeOK
      <2>3. Head(up[c]).dev \in Nodes \cup {None}
          BY <2>2 DEF Messages
      <2>4. Answer(sinfo[c], Head(up[c]), r) \in ConnInfo
          BY <2>2, AnswerType DEF TypeInv, TypeOK
      <2>5. down' \in [Conns -> Seq(Messages)]
          BY <2>1, NonceMessageType DEF SendDown, TypeInv, TypeOK
      <2>6. epoll' \in EpollPosition
          BY <1>2, <2>3 DEF ServerRecvNonce, EpollPosition
      <2>7. sinfo' \in [Conns -> ConnInfo]
          BY <2>1, <2>4 DEF TypeInv, TypeOK
      <2>8. up' \in [Conns -> Seq(Messages)]
          BY <1>2, <2>2 DEF ServerRecvNonce, TypeInv, TypeOK
      <2> QED BY <1>2, <2>5, <2>6, <2>7, <2>8
              DEF ServerRecvNonce, TypeInv, TypeOK, nodeVars, histVars
  <1>3. ASSUME NEW c \in Conns, ServerRecvBeacon(c)
        PROVE  TypeOK'
      <2>1. Head(up[c]) \in Messages /\ Tail(up[c]) \in Seq(Messages)
          BY <1>3, HeadTail DEF ServerRecvBeacon, TypeInv, TypeOK
      <2>2. Head(up[c]).body \in Bodies
          BY <2>1 DEF Messages
      <2>3. up' \in [Conns -> Seq(Messages)] /\ served' \in [Conns -> Nat]
          BY <1>3, <2>1 DEF ServerRecvBeacon, TypeInv, TypeOK
      <2>4. devState' \in [Nodes -> Bodies]
          <3> DEFINE d == Head(up[c]).dev
                     b == Head(up[c]).body
          <3>1. devState' = [devState EXCEPT ![d] = b]
              BY <1>3 DEF ServerRecvBeacon
          <3>2. devState \in [Nodes -> Bodies] /\ b \in Bodies
              BY <2>2 DEF TypeInv, TypeOK
          <3> HIDE DEF d, b
          <3> QED BY <3>1, <3>2
      <2> QED BY <1>3, <2>3, <2>4 DEF ServerRecvBeacon, TypeInv, TypeOK, nodeVars
  <1>4. ASSUME NEW c \in Conns, ServerClose(c)
        PROVE  TypeOK'
      <2>1. /\ up' \in [Conns -> Seq(Messages)]
            /\ sent' \in [Conns -> Seq(Commands)]
            /\ served' \in [Conns -> Nat]
            /\ sinfo' \in [Conns -> ConnInfo]
          BY <1>4, InitConnInfoType DEF ServerClose, TypeInv, TypeOK
      <2> QED BY <1>4, <2>1 DEF ServerClose, TypeInv, TypeOK, nodeVars
  <1>5. CASE SkipRequest
      <2>1. epoll' \in EpollPosition
          BY <1>5, <1>e DEF SkipRequest, EpollPosition
      <2>2. UNCHANGED <<nodeVars, chanVars, sinfo, commandsQueue, devState,
                        restarts, histVars>>
          BY <1>5 DEF SkipRequest
      <2> QED BY <1>0, <2>1, <2>2 DEF TypeInv, TypeOK, nodeVars, chanVars, histVars
  <1>6. CASE SendCommand
      <2> DEFINE c == epoll.conn
                 cmd == Current.commands[epoll.j]
      <2>1. c \in Conns /\ epoll.j \in Nat \ {0}
          BY <1>6 DEF SendCommand, Idle, TypeInv, TypeOK, EpollPosition
      <2>2. Current \in Request(Nodes, Commands)
          BY <1>6 DEF SendCommand, Matches, Current, TypeInv, TypeOK, EpollPosition
      <2>3. cmd \in Commands
          BY <1>6, <2>1, <2>2 DEF SendCommand, Request
      <2>4. /\ SendInfo(sinfo[c]) \in ConnInfo
            /\ SessionMessage(sinfo[c], None, cmd) \in Messages
          BY <2>1, <2>3, SendType DEF TypeInv, TypeOK, Bodies
      <2>5. epoll' \in EpollPosition
          BY <1>6, <1>e DEF SendCommand, EpollPosition
      <2>u. UNCHANGED <<nodeVars, status, peerClosed, up, commandsQueue, devState,
                        restarts, target, executed, served>>
          BY <1>6 DEF SendCommand
      <2>6. CASE sinfo[c].sessionId # 0
          <3>1. /\ SendDown(c, SessionMessage(sinfo[c], None, cmd))
                /\ sinfo' = [sinfo EXCEPT ![c] = SendInfo(@)]
                /\ sent' = [sent EXCEPT ![c] = Append(@, cmd)]
                /\ everSent' = everSent \cup {cmd}
                /\ UNCHANGED dropped
              BY <1>6, <2>6 DEF SendCommand
          <3>2. down' \in [Conns -> Seq(Messages)]
              BY <2>1, <2>4, <3>1 DEF SendDown, TypeInv, TypeOK
          <3>3. sent' \in [Conns -> Seq(Commands)]
              BY <2>1, <2>3, <3>1 DEF TypeInv, TypeOK
          <3>4. sinfo' \in [Conns -> ConnInfo]
              BY <2>1, <2>4, <3>1 DEF TypeInv, TypeOK
          <3>5. everSent' \subseteq Commands /\ dropped' \subseteq Commands
              BY <2>3, <3>1 DEF TypeInv, TypeOK
          <3> HIDE DEF c, cmd
          <3> QED BY <1>0, <2>5, <2>u, <3>2, <3>3, <3>4, <3>5 DEF TypeInv, TypeOK, nodeVars
      <2>7. CASE sinfo[c].sessionId = 0
          <3>1. dropped' = dropped \cup {cmd} /\ UNCHANGED <<down, sinfo, sent, everSent>>
              BY <1>6, <2>7 DEF SendCommand
          <3>2. dropped' \subseteq Commands
              BY <2>3, <3>1 DEF TypeInv, TypeOK
          <3> QED BY <1>0, <2>5, <2>u, <3>1, <3>2 DEF TypeInv, TypeOK, nodeVars
      <2> QED BY <2>6, <2>7
  <1>7. CASE RemoveRequest
      <2>1. epoll.i \in 1 .. Len(commandsQueue)
          BY <1>7 DEF RemoveRequest, Matches, TypeInv, TypeOK, EpollPosition
      <2>2. commandsQueue' \in Seq(Request(Nodes, Commands))
          BY <1>7, <2>1, RemoveType DEF RemoveRequest, TypeInv, TypeOK
      <2>3. epoll' \in EpollPosition
          <3>1. epoll' = [epoll EXCEPT !.i = @ + 1, !.j = 1]
              BY <1>7 DEF RemoveRequest
          <3>2. /\ epoll.i + 1 \in Nat \ {0} /\ 1 \in Nat \ {0}
                /\ epoll.conn \in Conns \cup {None} /\ epoll.dev \in Nodes \cup {None}
              BY <1>e DEF EpollPosition
          <3>3. epoll' = [conn |-> epoll.conn, dev |-> epoll.dev, i |-> epoll.i + 1,
                          j |-> 1]
              BY <1>e, <3>1 DEF EpollPosition
          <3> QED BY <3>2, <3>3 DEF EpollPosition
      <2>4. UNCHANGED <<nodeVars, chanVars, sinfo, devState, restarts, histVars>>
          BY <1>7 DEF RemoveRequest
      <2> QED BY <1>0, <2>2, <2>3, <2>4 DEF TypeInv, TypeOK, nodeVars, chanVars, histVars
  <1>8. CASE EndSendQueued
      <2>1. epoll' \in EpollPosition
          BY <1>8 DEF EndSendQueued, EpollPosition
      <2>2. UNCHANGED <<nodeVars, chanVars, sinfo, commandsQueue, devState,
                        restarts, histVars>>
          BY <1>8 DEF EndSendQueued
      <2> QED BY <1>0, <2>1, <2>2 DEF TypeInv, TypeOK, nodeVars, chanVars, histVars
  <1>9. ASSUME NEW n \in Nodes, NEW cmd \in Commands, RequestCommand(n, cmd)
        PROVE  TypeOK'
      <2>1. commandsQueue' \in Seq(Request(Nodes, Commands))
          BY <1>9, AddType DEF RequestCommand, TypeInv, TypeOK
      <2> QED BY <1>9, <2>1 DEF RequestCommand, TypeInv, TypeOK, nodeVars, chanVars
  <1>10. CASE ServerRestart
      <2>1. /\ epoll' \in EpollPosition
            /\ commandsQueue' \in Seq(Request(Nodes, Commands))
            /\ devState' \in [Nodes -> Bodies]
            /\ restarts' \in 0 .. MaxRestarts
          BY <1>10, BoundsAssumption
             DEF ServerRestart, EpollPosition, Bodies, TypeInv, TypeOK
      <2>2. /\ status' \in [Conns -> {"free", "backlog", "open", "gone"}]
            /\ peerClosed' \in [Conns -> BOOLEAN]
            /\ up' \in [Conns -> Seq(Messages)]
            /\ sinfo' \in [Conns -> ConnInfo]
            /\ served' \in [Conns -> Nat]
          BY <1>10, InitConnInfoType DEF ServerRestart, TypeInv, TypeOK
      <2>3. sent' \in [Conns -> Seq(Commands)]
          BY <1>10 DEF ServerRestart, TypeInv, TypeOK
      <2>4. dropped' \subseteq Commands
          BY <1>10 DEF ServerRestart, TypeInv, TypeOK
      <2>5. UNCHANGED <<nodeVars, down, target, executed, everSent>>
          BY <1>10 DEF ServerRestart
      <2> QED BY <1>0, <2>1, <2>2, <2>3, <2>4, <2>5 DEF TypeInv, TypeOK, nodeVars
  <1> QED BY <1>0, <1>1, <1>2, <1>3, <1>4, <1>5, <1>6, <1>7, <1>8, <1>9, <1>10
          DEF TypeInv, EpollThread, SendQueuedMessages, WebSocketThread

\* Every step preserves the type invariant.
LEMMA TypeStep == TypeInv /\ [Next]_vars => TypeInv'
  <1> SUFFICES ASSUME TypeInv, [Next]_vars PROVE TypeInv'
      OBVIOUS
  <1>1. CASE UNCHANGED vars
      BY <1>1 DEF TypeInv, TypeOK, SocketInv, vars, nodeVars, chanVars,
                  serverVars, histVars
  <1> QED BY <1>1, TypeNode, TypeServer DEF Next

\* The type invariant holds in every reachable state of Session; in particular
\* a socket thread never pops an empty command queue.
THEOREM TypeInvariant == Spec => []TypeInv
  BY TypeInit, TypeStep, PTL DEF Spec

\* Every reachable state of Session is well typed.
THEOREM TypeCorrect == Spec => []TypeOK
  <1>1. TypeInv => TypeOK
      BY DEF TypeInv
  <1> QED BY <1>1, TypeInvariant, PTL

-----------------------------------------------------------------------------
(***************************************************************************)
(* The two ends of a connection agree on the session, and the server's     *)
(* processMsg has a branch for every message it reads.                     *)
(*                                                                         *)
(* Neither property is inductive.  A node computes the sessionId from the  *)
(* nonce it has sent and the first message on its way down; so the         *)
(* invariant says what is in flight at each stage of the exchange.  And    *)
(* it must exclude that two nodes hold one connection, or that a slot is   *)
(* reused while messages of the connection before it are around.           *)
(***************************************************************************)

\* The server has not yet answered the node's nonce on connection c; it has.
Fresh(c) == status[c] = "backlog" \/ (status[c] = "open" /\ sinfo[c].localNonce = 0)
Answered(c) == status[c] = "open" /\ sinfo[c].localNonce # 0

\* What the server knows of connection c and what is on its way on it.
ServerSide(c) ==
    /\ ~Answered(c) => sinfo[c] = InitConnInfo
    /\ Fresh(c) => Len(up[c]) = 1
    /\ Answered(c) =>
          /\ sinfo[c].sessionId = Add(sinfo[c].remoteNonce, sinfo[c].localNonce)
          /\ sinfo[c].sessionId = 0 => up[c] = <<>>
    /\ status[c] = "free" => ~peerClosed[c]
    /\ (status[c] = "free" \/ peerClosed[c]) => down[c] = <<>>
    /\ epoll.conn = c => Answered(c)

Agree(ci, si) ==
    /\ ci.sessionId = si.sessionId
    /\ ci.remoteNonce = si.localNonce
    /\ ci.localNonce = si.remoteNonce

\* How node n, which holds connection c, stands to the server: before the
\* server's answer, with the answer on its way, and after it.
NodeSide(n, c) ==
    /\ status[c] # "free" /\ ~peerClosed[c]
    /\ Fresh(c) =>
          /\ up[c] = <<NonceMessage(info[n].localNonce, n)>>
          /\ down[c] = <<>>
          /\ info[n].remoteNonce = 0 /\ info[n].sessionId = 0
    /\ (Answered(c) /\ info[n].remoteNonce = 0) =>
          /\ info[n].sessionId = 0
          /\ sinfo[c].remoteNonce = Swap[info[n].localNonce]
          /\ down[c] # <<>>
          /\ NonceOf(Head(down[c])) = sinfo[c].localNonce
          /\ sinfo[c].sessionId = 0 => Len(down[c]) = 1
    /\ (Answered(c) /\ info[n].remoteNonce # 0) =>
          /\ Agree(info[n], sinfo[c])
          /\ sinfo[c].sessionId = 0 => down[c] = <<>>

OneHolder == \A m, n \in Nodes : (conn[m] = conn[n] /\ conn[m] # None) => m = n
SendingInSession == \A n \in Nodes : pc[n] = "send" => info[n].sessionId # 0
ServerSides == \A c \in Conns : ServerSide(c)
NodeSides == \A n \in Nodes, c \in Conns : conn[n] = c => NodeSide(n, c)

ConnInv == ServerSides /\ NodeSides /\ OneHolder /\ SendingInSession

-----------------------------------------------------------------------------
\* A step that does not touch a connection keeps what is known of it.
LEMMA ServerSideFrame ==
  ASSUME NEW c \in Conns, ServerSide(c),
         status'[c] = status[c], peerClosed'[c] = peerClosed[c],
         up'[c] = up[c], down'[c] = down[c], sinfo'[c] = sinfo[c],
         epoll'.conn = epoll.conn \/ epoll'.conn # c
  PROVE  ServerSide(c)'
  BY DEF ServerSide, Fresh, Answered

\* The same for the node that holds the connection.
LEMMA NodeSideFrame ==
  ASSUME NEW n \in Nodes, NEW c \in Conns, NodeSide(n, c),
         status'[c] = status[c], peerClosed'[c] = peerClosed[c],
         up'[c] = up[c], down'[c] = down[c], sinfo'[c] = sinfo[c],
         info'[n] = info[n]
  PROVE  NodeSide(n, c)'
  BY DEF NodeSide, Fresh, Answered, Agree

\* The tail of a sequence of length 1.
LEMMA TailOfOne ==
  ASSUME NEW S, NEW s \in Seq(S), Len(s) = 1
  PROVE  Tail(s) = <<>>
  <1>1. s # <<>>
      OBVIOUS
  <1>2. Tail(s) \in Seq(S) /\ Len(Tail(s)) = 0
      BY <1>1, HeadTail
  <1> QED BY <1>2, EmptySeq

\* A socket thread that is not asleep holds a connection.
LEMMA HoldsConn ==
  ASSUME TypeInv, NEW n \in Nodes, pc[n] # "sleep"
  PROVE  conn[n] \in Conns
  BY DEF TypeInv, TypeOK, SocketInv

\* Initially the invariant holds.
LEMMA ConnInit == Init => ConnInv
  BY NoneAssumption
     DEF Init, ConnInv, ServerSides, NodeSides, OneHolder, SendingInSession,
         ServerSide, NodeSide, Fresh, Answered, InitConnInfo

-----------------------------------------------------------------------------
\* Connecting takes a free slot, on which nothing is left.
LEMMA ConnNodeConnect ==
  ASSUME TypeInv, ConnInv, NEW n \in Nodes, NodeConnect(n)
  PROVE  ConnInv'
  <1>1. PICK c \in Conns, r \in Nonce :
           /\ status[c] = "free"
           /\ status' = [status EXCEPT ![c] = "backlog"]
           /\ conn' = [conn EXCEPT ![n] = c]
           /\ info' = [info EXCEPT ![n] = [InitConnInfo EXCEPT !.localNonce = r]]
           /\ up' = [up EXCEPT ![c] = <<NonceMessage(r, n)>>]
      BY DEF NodeConnect
  <1>2. /\ pc' = [pc EXCEPT ![n] = "nonce"]
        /\ UNCHANGED <<peerClosed, down, sinfo, epoll>>
      BY DEF NodeConnect, serverVars
  <1>t. /\ pc \in [Nodes -> {"sleep", "nonce", "send"}]
        /\ conn \in [Nodes -> Conns \cup {None}]
        /\ info \in [Nodes -> ConnInfo]
        /\ status \in [Conns -> {"free", "backlog", "open", "gone"}]
        /\ up \in [Conns -> Seq(Messages)]
      BY DEF TypeInv, TypeOK
  <1>3. /\ sinfo[c] = InitConnInfo /\ ~peerClosed[c] /\ down[c] = <<>>
        /\ epoll.conn # c
      BY <1>1 DEF ConnInv, ServerSides, ServerSide, Answered
  <1>4. \A m \in Nodes : conn[m] # c
      BY <1>1 DEF ConnInv, NodeSides, NodeSide
  <1>5. /\ info'[n].localNonce = r /\ info'[n].remoteNonce = 0
        /\ info'[n].sessionId = 0
      BY <1>1, <1>t DEF InitConnInfo
  <1>6. ServerSides'
      <2> SUFFICES ASSUME NEW d \in Conns PROVE ServerSide(d)'
          BY DEF ServerSides
      <2>1. CASE d = c
          <3>1. status'[c] = "backlog" /\ up'[c] = <<NonceMessage(r, n)>>
              BY <1>1, <1>t
          <3>2. Len(up'[c]) = 1
              BY <3>1
          <3> QED BY <1>2, <1>3, <2>1, <3>1, <3>2
                  DEF ServerSide, Fresh, Answered
      <2>2. CASE d # c
          <3>1. ServerSide(d) /\ status'[d] = status[d] /\ up'[d] = up[d]
              BY <1>1, <1>t, <2>2 DEF ConnInv, ServerSides
          <3> QED BY <1>2, <3>1, ServerSideFrame
      <2> QED BY <2>1, <2>2
  <1>7. NodeSides'
      <2> SUFFICES ASSUME NEW m \in Nodes, NEW d \in Conns, conn'[m] = d
                   PROVE  NodeSide(m, d)'
          BY DEF NodeSides
      <2>1. CASE m = n
          <3>1. /\ d = c /\ status'[c] = "backlog"
                /\ up'[c] = <<NonceMessage(r, n)>>
              BY <1>1, <1>t, <2>1
          <3> QED BY <1>2, <1>3, <1>5, <2>1, <3>1 DEF NodeSide, Fresh, Answered
      <2>2. CASE m # n
          <3>1. conn[m] = d /\ d # c /\ info'[m] = info[m]
              BY <1>1, <1>t, <1>4, <2>2
          <3>2. NodeSide(m, d) /\ status'[d] = status[d] /\ up'[d] = up[d]
              BY <1>1, <1>t, <3>1 DEF ConnInv, NodeSides
          <3> QED BY <1>2, <3>1, <3>2, NodeSideFrame
      <2> QED BY <2>1, <2>2
  <1>8. OneHolder'
      BY <1>1, <1>4, <1>t DEF ConnInv, OneHolder
  <1>9. SendingInSession'
      BY <1>1, <1>2, <1>t DEF ConnInv, SendingInSession
  <1> QED BY <1>6, <1>7, <1>8, <1>9 DEF ConnInv

\* A node takes the server's nonce: both sides now add the same two numbers.
LEMMA ConnNodeRecvNonce ==
  ASSUME TypeInv, ConnInv, NEW n \in Nodes, NodeRecvNonce(n)
  PROVE  ConnInv'
  <1>0. PICK c \in Conns : c = conn[n]
      BY HoldsConn DEF NodeRecvNonce
  <1>t. /\ conn \in [Nodes -> Conns \cup {None}]
        /\ info \in [Nodes -> ConnInfo]
        /\ sinfo \in [Conns -> ConnInfo]
        /\ down \in [Conns -> Seq(Messages)]
      BY DEF TypeInv, TypeOK
  <1>1. /\ pc[n] = "nonce" /\ info[n].sessionId = 0 /\ down[c] # <<>>
        /\ info' = [info EXCEPT ![n] = Establish(@, Head(down[c]))]
        /\ down' = [down EXCEPT ![c] = Tail(@)]
        /\ UNCHANGED <<pc, conn, status, peerClosed, up, sinfo, epoll>>
      BY <1>0 DEF NodeRecvNonce, serverVars
  <1>2. /\ info'[n] = Establish(info[n], Head(down[c])) /\ down'[c] = Tail(down[c])
        /\ \A m \in Nodes : m # n => info'[m] = info[m]
        /\ \A d \in Conns : d # c => down'[d] = down[d]
      BY <1>1, <1>t
  <1>3. ServerSide(c) /\ NodeSide(n, c)
      BY <1>0 DEF ConnInv, ServerSides, NodeSides
  <1>4. ~Fresh(c)
      BY <1>1, <1>3 DEF NodeSide
  <1> DEFINE x == Head(down[c])
  <1>5. /\ info'[n].remoteNonce = NonceOf(x)
        /\ info'[n].localNonce = Swap[info[n].localNonce]
        /\ info'[n].sessionId = Add(Swap[info[n].localNonce], NonceOf(x))
      BY <1>2, <1>t DEF Establish, ConnInfo
  <1> HIDE DEF x
  <1>6. ServerSides'
      <2> SUFFICES ASSUME NEW d \in Conns PROVE ServerSide(d)'
          BY DEF ServerSides
      <2>1. CASE d = c
          <3>1. status[c] # "free" /\ ~peerClosed[c]
              BY <1>3 DEF NodeSide
          <3> QED BY <1>1, <1>3, <2>1, <3>1 DEF ServerSide, Fresh, Answered
      <2>2. CASE d # c
          <3>1. ServerSide(d)
              BY DEF ConnInv, ServerSides
          <3> QED BY <1>1, <1>2, <2>2, <3>1, ServerSideFrame
      <2> QED BY <2>1, <2>2
  <1>7. NodeSide(n, c)'
      <2>1. CASE Answered(c)
          <3>1. info[n].remoteNonce = 0
              BY <1>1, <1>3, <2>1 DEF NodeSide, Agree
          <3>2. /\ sinfo[c].remoteNonce = Swap[info[n].localNonce]
                /\ NonceOf(x) = sinfo[c].localNonce
                /\ sinfo[c].sessionId = 0 => Len(down[c]) = 1
              BY <1>3, <2>1, <3>1 DEF NodeSide, x
          <3>3. sinfo[c].sessionId = Add(sinfo[c].remoteNonce, sinfo[c].localNonce)
              BY <1>3, <2>1 DEF ServerSide
          <3>4. Agree(info'[n], sinfo[c]) /\ info'[n].remoteNonce # 0
              BY <1>5, <2>1, <3>2, <3>3 DEF Agree, Answered
          <3>5. sinfo[c].sessionId = 0 => down'[c] = <<>>
              <4>1. down[c] \in Seq(Messages)
                  BY <1>t
              <4> QED BY <1>2, <3>2, <4>1, TailOfOne
          <3> QED BY <1>1, <1>3, <2>1, <3>4, <3>5 DEF NodeSide, Fresh, Answered, Agree
      <2>2. CASE ~Answered(c)
          BY <1>1, <1>3, <1>4, <2>2 DEF NodeSide, Fresh, Answered
      <2> QED BY <2>1, <2>2
  <1>8. NodeSides'
      <2> SUFFICES ASSUME NEW m \in Nodes, NEW d \in Conns, conn'[m] = d
                   PROVE  NodeSide(m, d)'
          BY DEF NodeSides
      <2>1. CASE m = n
          BY <1>0, <1>1, <1>7, <2>1
      <2>2. CASE m # n
          <3>1. conn[m] = d /\ NodeSide(m, d)
              BY <1>1 DEF ConnInv, NodeSides
          <3>2. d # c
              BY <1>0, <2>2, <3>1, NoneAssumption DEF ConnInv, OneHolder
          <3> QED BY <1>1, <1>2, <2>2, <3>1, <3>2, NodeSideFrame
      <2> QED BY <2>1, <2>2
  <1>9. OneHolder' /\ SendingInSession'
      BY <1>1, <1>2 DEF ConnInv, OneHolder, SendingInSession
  <1> QED BY <1>6, <1>8, <1>9 DEF ConnInv

\* Running a command takes it off a connection with a session.
LEMMA ConnNodeExecute ==
  ASSUME TypeInv, ConnInv, NEW n \in Nodes, NodeExecute(n)
  PROVE  ConnInv'
  <1>0. PICK c \in Conns : c = conn[n]
      BY HoldsConn DEF NodeExecute
  <1>t. /\ conn \in [Nodes -> Conns \cup {None}]
        /\ down \in [Conns -> Seq(Messages)]
      BY DEF TypeInv, TypeOK
  <1>1. /\ info[n].sessionId # 0
        /\ down' = [down EXCEPT ![c] = Tail(@)]
        /\ UNCHANGED <<pc, conn, info, status, peerClosed, up, sinfo, epoll>>
      BY <1>0 DEF NodeExecute, nodeVars, serverVars
  <1>2. \A d \in Conns : d # c => down'[d] = down[d]
      BY <1>1, <1>t
  <1>3. ServerSide(c) /\ NodeSide(n, c)
      BY <1>0 DEF ConnInv, ServerSides, NodeSides
  <1>4. /\ ~Fresh(c)
        /\ Answered(c) => info[n].remoteNonce # 0 /\ sinfo[c].sessionId # 0
      BY <1>1, <1>3 DEF NodeSide, Agree
  <1>6. ServerSides'
      <2> SUFFICES ASSUME NEW d \in Conns PROVE ServerSide(d)'
          BY DEF ServerSides
      <2>1. CASE d = c
          <3>1. status[c] # "free" /\ ~peerClosed[c]
              BY <1>3 DEF NodeSide
          <3> QED BY <1>1, <1>3, <2>1, <3>1 DEF ServerSide, Fresh, Answered
      <2>2. CASE d # c
          <3>1. ServerSide(d)
              BY DEF ConnInv, ServerSides
          <3> QED BY <1>1, <1>2, <2>2, <3>1, ServerSideFrame
      <2> QED BY <2>1, <2>2
  <1>7. NodeSide(n, c)'
      BY <1>1, <1>3, <1>4 DEF NodeSide, Fresh, Answered, Agree
  <1>8. NodeSides'
      <2> SUFFICES ASSUME NEW m \in Nodes, NEW d \in Conns, conn'[m] = d
                   PROVE  NodeSide(m, d)'
          BY DEF NodeSides
      <2>1. CASE m = n
          BY <1>0, <1>1, <1>7, <2>1
      <2>2. CASE m # n
          <3>1. conn[m] = d /\ NodeSide(m, d)
              BY <1>1 DEF ConnInv, NodeSides
          <3>2. d # c
              BY <1>0, <2>2, <3>1, NoneAssumption DEF ConnInv, OneHolder
          <3> QED BY <1>1, <1>2, <2>2, <3>1, <3>2, NodeSideFrame
      <2> QED BY <2>1, <2>2
  <1>9. OneHolder' /\ SendingInSession'
      BY <1>1 DEF ConnInv, OneHolder, SendingInSession
  <1> QED BY <1>6, <1>8, <1>9 DEF ConnInv

\* The sending loop is entered with a session; main loops only queue beacons.
LEMMA ConnNodeQuiet ==
  ASSUME TypeInv, ConnInv, NEW n \in Nodes, NodeStartSending(n) \/ MainLoop(n)
  PROVE  ConnInv'
  <1>1. /\ UNCHANGED <<conn, info, status, peerClosed, up, down, sinfo, epoll>>
        /\ \/ pc' = pc
           \/ pc' = [pc EXCEPT ![n] = "send"] /\ info[n].sessionId # 0
      BY DEF NodeStartSending, MainLoop, MainLoopCheck, MainLoopAdd, chanVars,
             serverVars
  <1>2. ServerSides' /\ OneHolder'
      BY <1>1, ServerSideFrame DEF ConnInv, ServerSides, OneHolder
  <1>3. NodeSides'
      BY <1>1, NodeSideFrame DEF ConnInv, NodeSides
  <1>4. SendingInSession'
      BY <1>1 DEF ConnInv, SendingInSession, TypeInv, TypeOK
  <1> QED BY <1>2, <1>3, <1>4 DEF ConnInv

\* A node sends beacons only in a session, so none arrives before the nonce.
LEMMA ConnNodeSend ==
  ASSUME TypeInv, ConnInv, NEW n \in Nodes, NodeSend(n)
  PROVE  ConnInv'
  <1>0. PICK c \in Conns : c = conn[n]
      BY HoldsConn DEF NodeSend
  <1>t. /\ info \in [Nodes -> ConnInfo]
        /\ up \in [Conns -> Seq(Messages)]
      BY DEF TypeInv, TypeOK
  <1>1. /\ pc[n] = "send"
        /\ SendUp(c, SessionMessage(info[n], n, Head(nodeQueue[n])))
        /\ info' = [info EXCEPT ![n] = SendInfo(@)]
        /\ UNCHANGED <<pc, conn, status, peerClosed, down, sinfo, epoll>>
      BY <1>0 DEF NodeSend, serverVars
  <1>2. /\ \A m \in Nodes : m # n => info'[m] = info[m]
        /\ \A d \in Conns : d # c => up'[d] = up[d]
        /\ info'[n].sessionId = info[n].sessionId
        /\ info'[n].localNonce = info[n].localNonce
        /\ info'[n].remoteNonce = info[n].remoteNonce
      BY <1>1, <1>t DEF SendUp, SendInfo, ConnInfo
  <1>3. ServerSide(c) /\ NodeSide(n, c)
      BY <1>0 DEF ConnInv, ServerSides, NodeSides
  <1>4. /\ info[n].sessionId # 0 /\ ~Fresh(c)
        /\ Answered(c) => info[n].remoteNonce # 0 /\ sinfo[c].sessionId # 0
      BY <1>1, <1>3 DEF NodeSide, Agree, ConnInv, SendingInSession
  <1>5. ServerSides'
      <2> SUFFICES ASSUME NEW d \in Conns PROVE ServerSide(d)'
          BY DEF ServerSides
      <2>1. CASE d = c
          BY <1>1, <1>3, <1>4, <2>1 DEF ServerSide, Fresh, Answered
      <2>2. CASE d # c
          <3>1. ServerSide(d)
              BY DEF ConnInv, ServerSides
          <3> QED BY <1>1, <1>2, <2>2, <3>1, ServerSideFrame
      <2> QED BY <2>1, <2>2
  <1>6. NodeSide(n, c)'
      BY <1>1, <1>2, <1>3, <1>4 DEF NodeSide, Fresh, Answered, Agree
  <1>7. NodeSides'
      <2> SUFFICES ASSUME NEW m \in Nodes, NEW d \in Conns, conn'[m] = d
                   PROVE  NodeSide(m, d)'
          BY DEF NodeSides
      <2>1. CASE m = n
          BY <1>0, <1>1, <1>6, <2>1
      <2>2. CASE m # n
          <3>1. conn[m] = d /\ NodeSide(m, d)
              BY <1>1 DEF ConnInv, NodeSides
          <3>2. d # c
              BY <1>0, <2>2, <3>1, NoneAssumption DEF ConnInv, OneHolder
          <3> QED BY <1>1, <1>2, <2>2, <3>1, <3>2, NodeSideFrame
      <2> QED BY <2>1, <2>2
  <1>8. OneHolder' /\ SendingInSession'
      BY <1>1, <1>2 DEF ConnInv, OneHolder, SendingInSession
  <1> QED BY <1>5, <1>7, <1>8 DEF ConnInv

\* Closing drops what is on its way to the node and frees the slot, or leaves
\* it to the server to notice.
LEMMA ConnNodeClose ==
  ASSUME TypeInv, ConnInv, NEW n \in Nodes, NodeClose(n)
  PROVE  ConnInv'
  <1>0. PICK c \in Conns : c = conn[n]
      BY HoldsConn DEF NodeClose, CanClose
  <1>t. /\ pc \in [Nodes -> {"sleep", "nonce", "send"}]
        /\ conn \in [Nodes -> Conns \cup {None}]
        /\ info \in [Nodes -> ConnInfo]
        /\ status \in [Conns -> {"free", "backlog", "open", "gone"}]
        /\ peerClosed \in [Conns -> BOOLEAN]
        /\ down \in [Conns -> Seq(Messages)]
      BY DEF TypeInv, TypeOK
  <1>1. /\ pc' = [pc EXCEPT ![n] = "sleep"]
        /\ conn' = [conn EXCEPT ![n] = None]
        /\ info' = [info EXCEPT ![n] = InitConnInfo]
        /\ down' = [down EXCEPT ![c] = <<>>]
        /\ UNCHANGED <<up, sinfo, epoll>>
      BY <1>0 DEF NodeClose, serverVars
  <1>2. /\ status[c] = "gone" =>
              status' = [status EXCEPT ![c] = "free"] /\ peerClosed' = peerClosed
        /\ status[c] # "gone" =>
              status' = status /\ peerClosed' = [peerClosed EXCEPT ![c] = TRUE]
      BY <1>0 DEF NodeClose
  <1>3. ServerSide(c) /\ NodeSide(n, c)
      BY <1>0 DEF ConnInv, ServerSides, NodeSides
  <1>4. \A d \in Conns : d # c => /\ status'[d] = status[d] /\ down'[d] = down[d]
                                  /\ peerClosed'[d] = peerClosed[d]
      BY <1>1, <1>2, <1>t
  <1>5. ServerSides'
      <2> SUFFICES ASSUME NEW d \in Conns PROVE ServerSide(d)'
          BY DEF ServerSides
      <2>1. CASE d = c /\ status[c] = "gone"
          <3>1. status'[c] = "free" /\ peerClosed'[c] = peerClosed[c] /\ down'[c] = <<>>
              BY <1>1, <1>2, <1>t, <2>1
          <3> QED BY <1>1, <1>3, <2>1, <3>1 DEF ServerSide, NodeSide, Fresh, Answered
      <2>2. CASE d = c /\ status[c] # "gone"
          <3>1. status'[c] = status[c] /\ peerClosed'[c] = TRUE /\ down'[c] = <<>>
              BY <1>1, <1>2, <1>t, <2>2
          <3> QED BY <1>1, <1>3, <2>2, <3>1 DEF ServerSide, NodeSide, Fresh, Answered
      <2>3. CASE d # c
          <3>1. ServerSide(d)
              BY DEF ConnInv, ServerSides
          <3> QED BY <1>1, <1>4, <2>3, <3>1, ServerSideFrame
      <2> QED BY <2>1, <2>2, <2>3
  <1>6. NodeSides'
      <2> SUFFICES ASSUME NEW m \in Nodes, NEW d \in Conns, conn'[m] = d
                   PROVE  NodeSide(m, d)'
          BY DEF NodeSides
      <2>1. m # n
          BY <1>1, <1>t, NoneAssumption
      <2>2. conn[m] = d /\ NodeSide(m, d) /\ info'[m] = info[m]
          BY <1>1, <1>t, <2>1 DEF ConnInv, NodeSides
      <2>3. d # c
          BY <1>0, <2>1, <2>2, NoneAssumption DEF ConnInv, OneHolder
      <2> QED BY <1>1, <1>4, <2>2, <2>3, NodeSideFrame
  <1>7. OneHolder'
      BY <1>1, <1>t DEF ConnInv, OneHolder
  <1>8. SendingInSession'
      BY <1>1, <1>t DEF ConnInv, SendingInSession
  <1> QED BY <1>5, <1>6, <1>7, <1>8 DEF ConnInv

-----------------------------------------------------------------------------
\* A step of the server keeps the invariant if it does so for both sides of
\* the one connection it touches.
LEMMA ConnServerStep ==
  ASSUME ConnInv, NEW c \in Conns, UNCHANGED <<pc, conn, info>>,
         \A d \in Conns : d # c =>
            /\ status'[d] = status[d] /\ peerClosed'[d] = peerClosed[d]
            /\ up'[d] = up[d] /\ down'[d] = down[d] /\ sinfo'[d] = sinfo[d],
         epoll'.conn \in {epoll.conn, c},
         ServerSide(c)',
         \A n \in Nodes : conn[n] = c => NodeSide(n, c)'
  PROVE  ConnInv'
  <1>1. ServerSides'
      <2> SUFFICES ASSUME NEW d \in Conns PROVE ServerSide(d)'
          BY DEF ServerSides
      <2>1. CASE d # c
          <3>1. ServerSide(d)
              BY DEF ConnInv, ServerSides
          <3> QED BY <2>1, <3>1, ServerSideFrame
      <2> QED BY <2>1
  <1>2. NodeSides'
      <2> SUFFICES ASSUME NEW n \in Nodes, NEW d \in Conns, conn'[n] = d
                   PROVE  NodeSide(n, d)'
          BY DEF NodeSides
      <2>1. CASE d # c
          <3>1. NodeSide(n, d)
              BY DEF ConnInv, NodeSides
          <3> QED BY <2>1, <3>1, NodeSideFrame
      <2> QED BY <2>1
  <1> QED BY <1>1, <1>2 DEF ConnInv, OneHolder, SendingInSession

\* Accepting a connection: its first message is still to be read.
LEMMA ConnServerAccept ==
  ASSUME TypeInv, ConnInv, NEW c \in Conns, ServerAccept(c)
  PROVE  ConnInv'
  <1>t. /\ status \in [Conns -> {"free", "backlog", "open", "gone"}]
        /\ sinfo \in [Conns -> ConnInfo]
      BY DEF TypeInv, TypeOK
  <1>1. /\ status[c] = "backlog"
        /\ status' = [status EXCEPT ![c] = "open"]
        /\ sinfo' = [sinfo EXCEPT ![c] = InitConnInfo]
        /\ UNCHANGED <<pc, conn, info, peerClosed, up, down, epoll>>
      BY DEF ServerAccept, nodeVars
  <1>2. /\ status'[c] = "open" /\ sinfo'[c] = InitConnInfo
        /\ InitConnInfo.localNonce = 0
      BY <1>1, <1>t DEF InitConnInfo
  <1>3. ServerSide(c)'
      <2>1. ServerSide(c)
          BY DEF ConnInv, ServerSides
      <2> QED BY <1>1, <1>2, <2>1 DEF ServerSide, Fresh, Answered
  <1>4. \A n \in Nodes : conn[n] = c => NodeSide(n, c)'
      <2> SUFFICES ASSUME NEW n \in Nodes, conn[n] = c PROVE NodeSide(n, c)'
          OBVIOUS
      <2>1. NodeSide(n, c)
          BY DEF ConnInv, NodeSides
      <2> QED BY <1>1, <1>2, <2>1 DEF NodeSide, Fresh, Answered
  <1>5. \A d \in Conns : d # c => status'[d] = status[d] /\ sinfo'[d] = sinfo[d]
      BY <1>1, <1>t
  <1> QED BY <1>1, <1>3, <1>4, <1>5, ConnServerStep

\* The server answers the node's nonce, the only message in flight.
LEMMA ConnServerRecvNonce ==
  ASSUME TypeInv, ConnInv, NEW c \in Conns, ServerRecvNonce(c)
  PROVE  ConnInv'
  <1>t. /\ sinfo \in [Conns -> ConnInfo]
        /\ info \in [Nodes -> ConnInfo]
        /\ up \in [Conns -> Seq(Messages)]
        /\ down \in [Conns -> Seq(Messages)]
      BY DEF TypeInv, TypeOK
  <1>1. PICK r \in Nonce :
           /\ SendDown(c, NonceMessage(r, None))
           /\ sinfo' = [sinfo EXCEPT ![c] = Answer(@, Head(up[c]), r)]
      BY DEF ServerRecvNonce
  <1>2. /\ status[c] = "open" /\ sinfo[c].localNonce = 0
        /\ up' = [up EXCEPT ![c] = Tail(@)]
        /\ epoll'.conn = c
        /\ UNCHANGED <<pc, conn, info, status, peerClosed>>
      BY DEF ServerRecvNonce, nodeVars
  <1>3. Fresh(c) /\ ServerSide(c)
      BY <1>2 DEF Fresh, ConnInv, ServerSides
  <1>4. Len(up[c]) = 1 /\ up'[c] = <<>>
      <2>1. Len(up[c]) = 1 /\ up[c] \in Seq(Messages)
          BY <1>3, <1>t DEF ServerSide
      <2> QED BY <1>2, <1>t, <2>1, TailOfOne
  <1> DEFINE x == Head(up[c])
  <1>5. /\ sinfo'[c].remoteNonce = NonceOf(x)
        /\ sinfo'[c].localNonce = Swap[r]
        /\ sinfo'[c].sessionId = Add(NonceOf(x), Swap[r])
      BY <1>1, <1>t DEF Answer, ConnInfo
  <1>6. Swap[r] # 0
      BY NonceMessageType
  <1>7. Answered(c)' /\ ~Fresh(c)'
      BY <1>2, <1>5, <1>6 DEF Answered, Fresh
  <1>8. ServerSide(c)'
      <2>1. peerClosed[c] => down'[c] = <<>>
          BY <1>1, <1>3, <1>t DEF SendDown, ServerSide
      <2> HIDE DEF x
      <2> QED BY <1>2, <1>4, <1>5, <1>7, <2>1 DEF ServerSide
  <1>9. \A n \in Nodes : conn[n] = c => NodeSide(n, c)'
      <2> SUFFICES ASSUME NEW n \in Nodes, conn[n] = c PROVE NodeSide(n, c)'
          OBVIOUS
      <2>1. NodeSide(n, c)
          BY DEF ConnInv, NodeSides
      <2>2. /\ up[c] = <<NonceMessage(info[n].localNonce, n)>>
            /\ down[c] = <<>> /\ ~peerClosed[c]
            /\ info[n].remoteNonce = 0 /\ info[n].sessionId = 0
          BY <1>3, <2>1 DEF NodeSide
      <2>3. NonceOf(x) = Swap[info[n].localNonce]
          <3>1. x = NonceMessage(info[n].localNonce, n)
              BY <2>2
          <3>2. info[n].localNonce \in Word
              BY <1>t DEF ConnInfo
          <3> QED BY <3>1, <3>2, SwapWord DEF NonceMessage, NonceOf, encryptPckData
      <2>4. down'[c] = <<NonceMessage(r, None)>>
          BY <1>1, <1>t, <2>2 DEF SendDown
      <2>5. /\ down'[c] # <<>> /\ Len(down'[c]) = 1
            /\ NonceOf(Head(down'[c])) = Swap[r]
          BY <2>4, NonceMessageType
      <2>6. (NonceOf(Head(down[c])) = sinfo[c].localNonce)'
          BY <1>5, <2>5 DEF NonceOf
      <2>7. (status[c] # "free" /\ ~peerClosed[c])'
          BY <1>2, <2>2
      <2> HIDE DEF x
      <2> QED BY <1>2, <1>5, <1>7, <2>2, <2>3, <2>5, <2>6, <2>7 DEF NodeSide
  <1>10. \A d \in Conns : d # c => /\ up'[d] = up[d] /\ down'[d] = down[d]
                                   /\ sinfo'[d] = sinfo[d]
      BY <1>1, <1>2, <1>t DEF SendDown
  <1> QED BY <1>2, <1>8, <1>9, <1>10, ConnServerStep

\* Taking a beacon shortens what is on its way up.
LEMMA ConnServerRecvBeacon ==
  ASSUME TypeInv, ConnInv, NEW c \in Conns, ServerRecvBeacon(c)
  PROVE  ConnInv'
  <1>t. up \in [Conns -> Seq(Messages)]
      BY DEF TypeInv, TypeOK
  <1>1. /\ status[c] = "open" /\ sinfo[c].sessionId # 0
        /\ up' = [up EXCEPT ![c] = Tail(@)]
        /\ UNCHANGED <<pc, conn, info, status, peerClosed, down, sinfo, epoll>>
      BY DEF ServerRecvBeacon, nodeVars
  <1>2. ServerSide(c)
      BY DEF ConnInv, ServerSides
  <1>3. Answered(c) /\ ~Fresh(c)
      BY <1>1, <1>2 DEF ServerSide, Answered, Fresh, InitConnInfo
  <1>4. ServerSide(c)'
      BY <1>1, <1>2, <1>3 DEF ServerSide, Answered, Fresh
  <1>5. \A n \in Nodes : conn[n] = c => NodeSide(n, c)'
      <2> SUFFICES ASSUME NEW n \in Nodes, conn[n] = c PROVE NodeSide(n, c)'
          OBVIOUS
      <2>1. NodeSide(n, c)
          BY DEF ConnInv, NodeSides
      <2> QED BY <1>1, <1>3, <2>1 DEF NodeSide, Fresh, Answered, Agree
  <1>6. \A d \in Conns : d # c => up'[d] = up[d]
      BY <1>1, <1>t
  <1> QED BY <1>1, <1>4, <1>5, <1>6, ConnServerStep

\* The server closes only what the node has closed.
LEMMA ConnServerClose ==
  ASSUME TypeInv, ConnInv, NEW c \in Conns, ServerClose(c)
  PROVE  ConnInv'
  <1>t. /\ status \in [Conns -> {"free", "backlog", "open", "gone"}]
        /\ peerClosed \in [Conns -> BOOLEAN]
        /\ up \in [Conns -> Seq(Messages)]
        /\ sinfo \in [Conns -> ConnInfo]
      BY DEF TypeInv, TypeOK
  <1>1. /\ epoll.conn = None /\ peerClosed[c]
        /\ status' = [status EXCEPT ![c] = "free"]
        /\ peerClosed' = [peerClosed EXCEPT ![c] = FALSE]
        /\ up' = [up EXCEPT ![c] = <<>>]
        /\ sinfo' = [sinfo EXCEPT ![c] = InitConnInfo]
        /\ UNCHANGED <<pc, conn, info, down, epoll>>
      BY DEF ServerClose, Idle, nodeVars
  <1>2. ServerSide(c)'
      <2>1. ServerSide(c)
          BY DEF ConnInv, ServerSides
      <2>2. status'[c] = "free" /\ peerClosed'[c] = FALSE /\ sinfo'[c] = InitConnInfo
          BY <1>1, <1>t
      <2>3. epoll'.conn # c
          BY <1>1, NoneAssumption
      <2> QED BY <1>1, <2>1, <2>2, <2>3 DEF ServerSide, Fresh, Answered
  <1>3. \A n \in Nodes : conn[n] # c
      BY <1>1 DEF ConnInv, NodeSides, NodeSide
  <1>4. \A d \in Conns : d # c => /\ status'[d] = status[d] /\ sinfo'[d] = sinfo[d]
                                  /\ peerClosed'[d] = peerClosed[d] /\ up'[d] = up[d]
      BY <1>1, <1>t
  <1> QED BY <1>1, <1>2, <1>3, <1>4, ConnServerStep

\* A queued command follows the nonce; without a session nothing is sent.
LEMMA ConnSendCommand ==
  ASSUME TypeInv, ConnInv, SendCommand
  PROVE  ConnInv'
  <1>t. /\ epoll \in EpollPosition
        /\ sinfo \in [Conns -> ConnInfo]
        /\ down \in [Conns -> Seq(Messages)]
        /\ commandsQueue \in Seq(Request(Nodes, Commands))
      BY DEF TypeInv, TypeOK
  <1>0. PICK c \in Conns : c = epoll.conn
      BY <1>t DEF SendCommand, Idle, EpollPosition
  <1>1. /\ epoll' = [epoll EXCEPT !.j = @ + 1]
        /\ UNCHANGED <<pc, conn, info, status, peerClosed, up>>
      BY DEF SendCommand, nodeVars
  <1>e. epoll'.conn = epoll.conn
      BY <1>1, <1>t DEF EpollPosition
  <1>2. ServerSide(c) /\ Answered(c) /\ ~Fresh(c)
      BY <1>0 DEF ConnInv, ServerSides, ServerSide, Answered, Fresh
  <1>3. CASE sinfo[c].sessionId = 0
      <2>1. UNCHANGED <<down, sinfo>>
          BY <1>0, <1>3 DEF SendCommand
      <2>2. ServerSide(c)'
          BY <1>1, <1>2, <1>e, <2>1, ServerSideFrame
      <2>3. \A n \in Nodes : conn[n] = c => NodeSide(n, c)'
          BY <1>1, <2>1, NodeSideFrame DEF ConnInv, NodeSides
      <2> QED BY <1>1, <1>e, <2>1, <2>2, <2>3, ConnServerStep
  <1>4. CASE sinfo[c].sessionId # 0
      <2> DEFINE m == SessionMessage(sinfo[c], None, Current.commands[epoll.j])
      <2>1. SendDown(c, m) /\ sinfo' = [sinfo EXCEPT ![c] = SendInfo(@)]
          BY <1>0, <1>4 DEF SendCommand
      <2>m. m \in Messages
          <3>1. epoll.j \in Nat \ {0} /\ epoll.i \in Nat \ {0}
              BY <1>t DEF EpollPosition
          <3>2. Current \in Request(Nodes, Commands)
              BY <1>t, <3>1 DEF SendCommand, Matches, Current
          <3>3. Current.commands[epoll.j] \in Commands
              BY <3>1, <3>2 DEF SendCommand, Request
          <3> QED BY <1>t, <3>3, SendType DEF Bodies
      <2> HIDE DEF m
      <2>2. /\ sinfo'[c].sessionId = sinfo[c].sessionId
            /\ sinfo'[c].localNonce = sinfo[c].localNonce
            /\ sinfo'[c].remoteNonce = sinfo[c].remoteNonce
          BY <1>t, <2>1 DEF SendInfo, ConnInfo
      <2>3. /\ peerClosed[c] => down'[c] = down[c]
            /\ ~peerClosed[c] => down'[c] = Append(down[c], m)
          BY <1>t, <2>1 DEF SendDown
      <2>4. \A d \in Conns : d # c => down'[d] = down[d] /\ sinfo'[d] = sinfo[d]
          BY <1>t, <2>1 DEF SendDown
      <2>5. ServerSide(c)'
          BY <1>1, <1>2, <1>4, <1>e, <2>2, <2>3 DEF ServerSide, Fresh, Answered
      <2>6. \A n \in Nodes : conn[n] = c => NodeSide(n, c)'
          <3> SUFFICES ASSUME NEW n \in Nodes, conn[n] = c PROVE NodeSide(n, c)'
              OBVIOUS
          <3>1. NodeSide(n, c)
              BY DEF ConnInv, NodeSides
          <3>2. down'[c] = Append(down[c], m) /\ down[c] \in Seq(Messages)
              BY <1>t, <2>3, <3>1 DEF NodeSide
          <3>3. down[c] # <<>> => down'[c] # <<>> /\ Head(down'[c]) = Head(down[c])
              BY <2>m, <3>2
          <3>4. Answered(c)' /\ ~Fresh(c)'
              BY <1>1, <1>2, <2>2 DEF Answered, Fresh
          <3>5. (status[c] # "free" /\ ~peerClosed[c])'
              BY <1>1, <3>1 DEF NodeSide
          <3>6. CASE info[n].remoteNonce = 0
              <4>1. /\ info[n].sessionId = 0 /\ down[c] # <<>>
                    /\ sinfo[c].remoteNonce = Swap[info[n].localNonce]
                    /\ NonceOf(Head(down[c])) = sinfo[c].localNonce
                  BY <1>2, <3>1, <3>6 DEF NodeSide
              <4>2. (NonceOf(Head(down[c])) = sinfo[c].localNonce)'
                  BY <2>2, <3>3, <4>1 DEF NonceOf
              <4> QED BY <1>1, <1>4, <2>2, <3>3, <3>4, <3>5, <3>6, <4>1, <4>2 DEF NodeSide
          <3>7. CASE info[n].remoteNonce # 0
              <4>1. Agree(info[n], sinfo[c])
                  BY <1>2, <3>1, <3>7 DEF NodeSide
              <4>2. Agree(info[n], sinfo[c])'
                  BY <1>1, <2>2, <4>1 DEF Agree
              <4> QED BY <1>1, <1>4, <2>2, <3>4, <3>5, <3>7, <4>2 DEF NodeSide
          <3> QED BY <3>6, <3>7
      <2> QED BY <1>1, <1>e, <2>4, <2>5, <2>6, ConnServerStep
  <1> QED BY <1>3, <1>4

\* The other steps of sendQueuedMessages and requests touch no connection.
LEMMA ConnServerQuiet ==
  ASSUME TypeInv, ConnInv,
         SkipRequest \/ RemoveRequest \/ EndSendQueued \/ WebSocketThread
  PROVE  ConnInv'
  <1>1. UNCHANGED <<pc, conn, info, status, peerClosed, up, down, sinfo>>
      BY DEF SkipRequest, RemoveRequest, EndSendQueued, WebSocketThread,
             RequestCommand, nodeVars, chanVars
  <1>2. epoll'.conn \in {epoll.conn, None}
      <2>1. epoll \in EpollPosition
          BY DEF TypeInv, TypeOK
      <2>2. \/ epoll' = [epoll EXCEPT !.i = @ + 1]
            \/ epoll' = [epoll EXCEPT !.i = @ + 1, !.j = 1]
            \/ epoll' = [conn |-> None, dev |-> None, i |-> 1, j |-> 1]
            \/ epoll' = epoll
          BY DEF SkipRequest, RemoveRequest, EndSendQueued, WebSocketThread,
                 RequestCommand
      <2>3. CASE epoll' = [epoll EXCEPT !.i = @ + 1, !.j = 1]
          <3>1. DOMAIN epoll = {"conn", "dev", "i", "j"}
              BY <2>1 DEF EpollPosition
          <3> QED BY <2>3, <3>1
      <2> QED BY <2>1, <2>2, <2>3 DEF EpollPosition
  <1>3. ServerSides'
      <2> SUFFICES ASSUME NEW d \in Conns PROVE ServerSide(d)'
          BY DEF ServerSides
      <2>1. ServerSide(d) /\ (epoll'.conn = epoll.conn \/ epoll'.conn # d)
          BY <1>2, NoneAssumption DEF ConnInv, ServerSides
      <2> QED BY <1>1, <2>1, ServerSideFrame
  <1>4. NodeSides'
      BY <1>1, NodeSideFrame DEF ConnInv, NodeSides
  <1> QED BY <1>1, <1>3, <1>4 DEF ConnInv, OneHolder, SendingInSession

\* After a restart no connection is open, and the nodes still hold theirs.
LEMMA ConnServerRestart ==
  ASSUME TypeInv, ConnInv, ServerRestart
  PROVE  ConnInv'
  <1>1. /\ status' = [c \in Conns |-> IF status[c] = "free" \/ peerClosed[c]
                                      THEN "free" ELSE "gone"]
        /\ peerClosed' = [c \in Conns |-> FALSE]
        /\ sinfo' = [c \in Conns |-> InitConnInfo]
        /\ epoll'.conn = None
        /\ UNCHANGED <<pc, conn, info, down>>
      BY DEF ServerRestart, nodeVars
  <1>2. ServerSides'
      <2> SUFFICES ASSUME NEW c \in Conns PROVE ServerSide(c)'
          BY DEF ServerSides
      <2>1. ServerSide(c)
          BY DEF ConnInv, ServerSides
      <2>2. /\ status'[c] = (IF status[c] = "free" \/ peerClosed[c] THEN "free" ELSE "gone")
            /\ peerClosed'[c] = FALSE /\ sinfo'[c] = InitConnInfo /\ epoll'.conn # c
          BY <1>1, NoneAssumption
      <2> QED BY <1>1, <2>1, <2>2 DEF ServerSide, Fresh, Answered
  <1>3. NodeSides'
      <2> SUFFICES ASSUME NEW n \in Nodes, NEW c \in Conns, conn'[n] = c
                   PROVE  NodeSide(n, c)'
          BY DEF NodeSides
      <2>1. NodeSide(n, c)
          BY <1>1 DEF ConnInv, NodeSides
      <2>2. status'[c] = "gone" /\ peerClosed'[c] = FALSE
          BY <1>1, <2>1 DEF NodeSide
      <2> QED BY <2>2 DEF NodeSide, Fresh, Answered
  <1> QED BY <1>1, <1>2, <1>3 DEF ConnInv, OneHolder, SendingInSession

-----------------------------------------------------------------------------
\* Every step preserves the invariant.
LEMMA ConnStep == TypeInv /\ ConnInv /\ [Next]_vars => ConnInv'
  <1> SUFFICES ASSUME TypeInv, ConnInv, [Next]_vars PROVE ConnInv'
      OBVIOUS
  <1>1. CASE UNCHANGED vars
      <2>1. UNCHANGED <<pc, conn, info, status, peerClosed, up, down, sinfo, epoll>>
          BY <1>1 DEF vars, nodeVars, chanVars, serverVars
      <2>2. ServerSides'
          BY <2>1, ServerSideFrame DEF ConnInv, ServerSides
      <2>3. NodeSides'
          BY <2>1, NodeSideFrame DEF ConnInv, NodeSides
      <2> QED BY <2>1, <2>2, <2>3 DEF ConnInv, OneHolder, SendingInSession
  <1>2. ASSUME NEW n \in Nodes, SocketThread(n) \/ MainLoop(n)
        PROVE  ConnInv'
      BY <1>2, ConnNodeConnect, ConnNodeRecvNonce, ConnNodeExecute, ConnNodeQuiet,
         ConnNodeSend, ConnNodeClose DEF SocketThread
  <1>3. CASE EpollThread
      BY <1>3, ConnServerAccept, ConnServerRecvNonce, ConnServerRecvBeacon,
         ConnServerClose, ConnSendCommand, ConnServerQuiet
         DEF EpollThread, SendQueuedMessages
  <1> QED BY <1>1, <1>2, <1>3, ConnServerQuiet, ConnServerRestart DEF Next

\* ConnInv holds in every reachable state of Session.
THEOREM ConnCorrect == Spec => [](TypeInv /\ ConnInv)
  <1>1. Init => TypeInv /\ ConnInv
      BY TypeInit, ConnInit
  <1>2. (TypeInv /\ ConnInv) /\ [Next]_vars => (TypeInv /\ ConnInv)'
      BY TypeStep, ConnStep
  <1> QED BY <1>1, <1>2, PTL DEF Spec

\* The two ends of a connection compute the same sessionId, for any number of
\* nodes and connections, any modulus and any byte order conversion that is
\* its own inverse.
THEOREM Agreement == Spec => []SessionAgreement
  <1>1. TypeInv /\ ConnInv => SessionAgreement
      <2> SUFFICES ASSUME TypeInv, ConnInv, NEW n \in Nodes, conn[n] # None,
                          status[conn[n]] = "open", info[n].remoteNonce # 0
                   PROVE  Agree(info[n], sinfo[conn[n]])
          BY DEF SessionAgreement, Agree
      <2>1. conn[n] \in Conns
          BY DEF TypeInv, TypeOK
      <2>2. NodeSide(n, conn[n])
          BY <2>1 DEF ConnInv, NodeSides
      <2> QED BY <2>2 DEF NodeSide, Fresh, Answered
  <1> QED BY <1>1, ConnCorrect, PTL

\* The epoll thread never reads a message that processMsg has no branch for,
\* and never one for the branch that expects a nonce after its own.
THEOREM Handled == Spec => []EveryMessageHandled
  <1>1. TypeInv /\ ConnInv => EveryMessageHandled
      <2> SUFFICES ASSUME ConnInv, NEW c \in Conns, status[c] = "open", up[c] # <<>>
                   PROVE  \/ sinfo[c].localNonce = 0 /\ sinfo[c].remoteNonce = 0
                          \/ sinfo[c].sessionId # 0
          BY DEF EveryMessageHandled
      <2>1. ServerSide(c)
          BY DEF ConnInv, ServerSides
      <2> QED BY <2>1 DEF ServerSide, Answered, InitConnInfo
  <1> QED BY <1>1, ConnCorrect, PTL
=============================================================================
