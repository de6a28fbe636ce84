-------------------------- MODULE EnrolmentProofs --------------------------
(***************************************************************************)
(* Proofs about module Enrolment: its types, that node and server agree on *)
(* the node's key whatever crashes, late answers and repeated exchanges    *)
(* there have been, and that every reboot has a fault of its own before    *)
(* it.                                                                     *)
(***************************************************************************)
EXTENDS Enrolment, TLAPS

(***************************************************************************)
(* Lemmas about registries.                                                *)
(***************************************************************************)

\* Adding an entry to a registry gives a registry that has the new entry and
\* all others of the old one.
LEMMA WithEntry ==
    ASSUME NEW reg, IsRegistry(reg), NEW d \in DevIds, NEW k \in Keys
    PROVE  /\ IsRegistry(With(reg, d, k))
           /\ DOMAIN With(reg, d, k) = DOMAIN reg \cup {d}
           /\ With(reg, d, k)[d] = k
           /\ \A e \in DOMAIN reg : e # d => With(reg, d, k)[e] = reg[e]
BY DEF IsRegistry, With

\* The empty registry is one.
LEMMA EmptyRegistry == IsRegistry(Empty)
BY DEF IsRegistry, Empty

\* The key that two private keys lead to, also if one is not known.
LEMMA SharedKey ==
    ASSUME NEW a \in Privs \cup {Junk}, NEW b \in Privs
    PROVE  Shared(a, b) \in Keys
BY DEF Shared, Keys

-----------------------------------------------------------------------------
(***************************************************************************)
(* Types.                                                                  *)
(***************************************************************************)

\* What a request or an answer of a kind carries.
LEMMA Fields ==
    /\ \A m \in Requests : m.dev \in DevIds
    /\ \A m \in Requests : m.kind = "dh" => m.pub \in Privs
    /\ \A r \in Replies : r.kind = "dh" => r.pub \in Privs
BY DEF Requests, Replies

PendingTypes == [slot : held \cup {None}, dev : DevIds, key : Keys, pub : Privs]

\* Closing sockets keeps the types of what it changes.
LEMMA CloseSocketsTypes ==
    ASSUME TypeOK, NEW S \in SUBSET held, CloseSockets(S)
    PROVE  /\ held' \subseteq Sockets /\ sock' = None
           /\ alive' \subseteq held'
           /\ request' \in [Sockets -> Requests \cup {None}]
           /\ reply' \in [Sockets -> Replies \cup {None}]
           /\ \A s \in Sockets \ held' : request'[s] = None /\ reply'[s] = None
           /\ orphans' \subseteq Requests
           /\ spc \in {"write", "added"} => pending' \in PendingTypes'
           /\ spc \notin {"write", "added"} => pending' = NoPending
<1>1. /\ held' \subseteq Sockets /\ sock' = None
      /\ alive' \subseteq held'
      /\ request' \in [Sockets -> Requests \cup {None}]
      /\ reply' \in [Sockets -> Replies \cup {None}]
      /\ \A s \in Sockets \ held' : request'[s] = None /\ reply'[s] = None
  BY DEF TypeOK, SocketTypeOK, CloseSockets
<1>2. orphans' \subseteq Requests
  BY DEF TypeOK, SocketTypeOK, CloseSockets
<1>3. CASE spc \in {"write", "added"}
  BY <1>1, <1>2, <1>3 DEF TypeOK, ServerTypeOK, CloseSockets, PendingTypes
<1>4. CASE spc \notin {"write", "added"}
  <2>1. pending = NoPending
    BY <1>4 DEF TypeOK, ServerTypeOK
  <2>2. pending.slot \notin S
    BY <2>1, NamesAssumption DEF NoPending, TypeOK, SocketTypeOK
  <2> QED BY <1>1, <1>2, <1>4, <2>1, <2>2 DEF CloseSockets
<1> QED BY <1>3, <1>4

\* A message that the server processes keeps the types of what that changes.
LEMMA ProcessMsgTypes ==
    ASSUME TypeOK, spc = "idle", NEW m \in Requests, NEW s \in held \cup {None},
           processMsg(m, s), held' = held
    PROVE  /\ reply' \in [Sockets -> Replies \cup {None}]
           /\ \A t \in Sockets : (t # s \/ m.kind = "dh") => reply'[t] = reply[t]
           /\ spc' \in {"idle", "write", "added"}
           /\ IsRegistry(file')
           /\ readable' \in BOOLEAN
           /\ spc' \in {"write", "added"} => pending' \in PendingTypes'
           /\ spc' \notin {"write", "added"} => pending' = NoPending
<1>1. CASE m.dev \notin DOMAIN devInfos
  <2>1. PICK b \in Privs : Enrol(m, s, b)
    BY <1>1 DEF processMsg
  <2>2. reply' = reply
    BY <1>1 DEF processMsg
  <2>3. m.dev \in DevIds
    BY Fields
  <2>4. (IF m.kind = "dh" THEN m.pub ELSE Junk) \in Privs \cup {Junk}
    BY Fields
  <2>5. PICK k : k = Shared(IF m.kind = "dh" THEN m.pub ELSE Junk, b)
    OBVIOUS
  <2>6. k \in Keys
    BY <2>4, <2>5, SharedKey
  <2>7. pending' = [slot |-> s, dev |-> m.dev, pub |-> b, key |-> k]
    BY <2>1, <2>5 DEF Enrol
  <2>8. pending' \in PendingTypes'
    BY <2>3, <2>6, <2>7 DEF PendingTypes
  <2>9. pending'.key = k
    BY <2>7
  <2>10. IsRegistry(file) /\ readable \in BOOLEAN
    BY DEF TypeOK, ServerTypeOK
  <2>11. IsRegistry(With(file, m.dev, k))
    BY <2>3, <2>6, <2>10, WithEntry
  <2>12. /\ spc' \in {"write", "added"}
         /\ IsRegistry(file')
         /\ readable' \in BOOLEAN
    BY <2>1, <2>9, <2>10, <2>11 DEF Enrol
  <2> QED BY <2>2, <2>8, <2>12 DEF TypeOK, SocketTypeOK
<1>2. CASE m.dev \in DOMAIN devInfos
  <2>1. devInfos[m.dev] \in Keys
    BY <1>2 DEF IsRegistry, TypeOK, ServerTypeOK
  <2>2. NonceReply(m) \in Replies
    BY <2>1 DEF NonceReply, Replies
  <2>3. /\ reply' \in [Sockets -> Replies \cup {None}]
        /\ \A t \in Sockets : (t # s \/ m.kind = "dh") => reply'[t] = reply[t]
    BY <1>2, <2>2 DEF processMsg, Decrypts, TypeOK, SocketTypeOK
  <2>4. UNCHANGED <<spc, file, readable, pending>>
    BY <1>2 DEF processMsg
  <2> QED BY <2>3, <2>4 DEF TypeOK, ServerTypeOK
<1> QED BY <1>1, <1>2

\* Every step keeps the types.
LEMMA TypesKept == TypeOK /\ [Next]_vars => TypeOK'
<1> SUFFICES ASSUME TypeOK, [Next]_vars PROVE TypeOK'
  OBVIOUS
<1> USE BoundsAssumption
<1>1. CASE UNCHANGED vars
  BY <1>1 DEF vars, nodeVars, connVars, serverVars, TypeOK, NodeTypeOK,
      SocketTypeOK, ServerTypeOK
<1>2. ASSUME Boot, faults' \in 0 .. MaxFaults PROVE TypeOK'
  <2>1. CloseSockets(held) /\ pc' = "top"
    BY <1>2 DEF Boot
  <2>2. ServerTypeOK'
    BY <1>2, <2>1, CloseSocketsTypes
       DEF Boot, TypeOK, ServerTypeOK, PendingTypes
  <2>3. SocketTypeOK'
    BY <2>1, CloseSocketsTypes DEF SocketTypeOK
  <2>4. devId' \in DevIds
    BY <1>2 DEF Boot, TypeOK, NodeTypeOK, DevIds
  <2>5. ipKnown' \in BOOLEAN
    BY <1>2, Zenon DEF Boot
  <2>6. attempts' \in 0 .. MaxReconnect /\ key' = NoKey /\ priv' = None
    BY <1>2 DEF Boot
  <2>7. NodeTypeOK'
    BY <2>1, <2>4, <2>5, <2>6 DEF NodeTypeOK
  <2> QED BY <1>2, <2>2, <2>3, <2>7 DEF TypeOK
<1>3. CASE PowerCycle
  <2>1. faults' \in 0 .. MaxFaults
    BY <1>3 DEF PowerCycle, Fault, TypeOK
  <2> QED BY <1>2, <1>3, <2>1 DEF PowerCycle
<1>4. CASE DiscoveryReboot
  BY <1>2, <1>4 DEF DiscoveryReboot, TypeOK
<1>5. CASE OpenDiscovery \/ RecvForeign
  BY <1>5 DEF OpenDiscovery, RecvForeign, connVars, serverVars, TypeOK, NodeTypeOK,
      SocketTypeOK, ServerTypeOK
<1>6. CASE RecvBroadcast
  BY <1>6 DEF RecvBroadcast, connVars, serverVars, TypeOK, NodeTypeOK,
      SocketTypeOK, ServerTypeOK
<1>7. ASSUME NEW s \in Sockets, StartExchange(s) \/ StartSession(s) PROVE TypeOK'
  <2>1. PICK msg \in Requests :
           /\ Opens(s, msg)
           /\ \/ pc' = "dhWait" /\ msg.kind = "dh" /\ priv' \in Privs
              \/ pc' = "nonceWait" /\ priv' = priv
    <3>1. CASE StartExchange(s)
      <4>1. PICK a \in Privs : priv' = a /\ Opens(s, [kind |-> "dh", dev |-> devId, pub |-> a])
        BY <3>1 DEF StartExchange
      <4>2. PICK msg : msg = [kind |-> "dh", dev |-> devId, pub |-> a]
        OBVIOUS
      <4>3. msg \in Requests /\ msg.kind = "dh"
        BY <4>2 DEF Requests, TypeOK, NodeTypeOK
      <4>4. pc' = "dhWait" /\ Opens(s, msg) /\ priv' \in Privs
        BY <3>1, <4>1, <4>2 DEF StartExchange
      <4> QED BY <4>3, <4>4
    <3>2. CASE StartSession(s)
      <4>1. [kind |-> "nonce", dev |-> devId, key |-> key] \in Requests
        BY <3>2 DEF StartSession, Requests, TypeOK, NodeTypeOK
      <4> QED BY <3>2, <4>1 DEF StartSession
    <3> QED BY <1>7, <3>1, <3>2
  <2>2. request' \in [Sockets -> Requests \cup {None}] /\ request'[s] = msg
    BY <2>1 DEF Opens, TypeOK, SocketTypeOK
  <2>3. ServerTypeOK' /\ faults' = faults
    BY <2>1 DEF Opens, serverVars, TypeOK, ServerTypeOK
  <2>4. SocketTypeOK'
    BY <2>1, <2>2 DEF Opens, TypeOK, SocketTypeOK
  <2>5. NodeTypeOK'
    BY <2>1 DEF Opens, TypeOK, NodeTypeOK
  <2> QED BY <2>3, <2>4, <2>5 DEF TypeOK
<1>8. CASE ConnectFail
  <2>1. attempts' \in 0 .. MaxReconnect
    BY <1>8 DEF ConnectFail, TypeOK, NodeTypeOK
  <2>2. ipKnown' \in BOOLEAN
    BY <1>8 DEF ConnectFail
  <2> QED BY <1>8, <2>1, <2>2 DEF ConnectFail, connVars, serverVars, TypeOK,
              NodeTypeOK, SocketTypeOK, ServerTypeOK
<1>9. CASE RecvPublicKey
  <2>1. reply[sock].pub \in Privs /\ priv \in Privs
    BY <1>9, Fields DEF RecvPublicKey, TypeOK, SocketTypeOK
  <2>2. key' \in Keys
    BY <1>9, <2>1, SharedKey DEF RecvPublicKey
  <2>3. NodeTypeOK'
    BY <1>9, <2>2 DEF RecvPublicKey, TypeOK, NodeTypeOK
  <2>4. SocketTypeOK'
    BY <1>9 DEF RecvPublicKey, TypeOK, SocketTypeOK
  <2>5. ServerTypeOK' /\ faults' = faults
    BY <1>9 DEF RecvPublicKey, serverVars, TypeOK, ServerTypeOK
  <2> QED BY <2>3, <2>4, <2>5 DEF TypeOK
<1>10. CASE ExchangeFails
  <2>1. faults' \in 0 .. MaxFaults
    BY <1>10 DEF ExchangeFails, Fault, TypeOK
  <2> QED BY <1>10, <2>1 DEF ExchangeFails, connVars, serverVars, TypeOK, NodeTypeOK,
              SocketTypeOK, ServerTypeOK
<1>11. CASE ExchangeCut \/ CloseSession
  <2>1. CloseSockets({sock}) /\ {sock} \in SUBSET held /\ pc' = "top"
    BY <1>11 DEF ExchangeCut, CloseSession, TypeOK, SocketTypeOK
  <2>2. SocketTypeOK'
    BY <2>1, CloseSocketsTypes DEF SocketTypeOK
  <2>3. UNCHANGED <<ipKnown, attempts, devId, key, priv, spc, devInfos, file,
                    readable, forgot, faults>>
    BY <1>11 DEF ExchangeCut, CloseSession
  <2>4. ServerTypeOK'
    BY <2>1, <2>3, CloseSocketsTypes DEF TypeOK, ServerTypeOK, PendingTypes
  <2>5. NodeTypeOK'
    BY <2>1, <2>3 DEF TypeOK, NodeTypeOK
  <2> QED BY <2>2, <2>3, <2>4, <2>5 DEF TypeOK
<1>12. CASE RecvNonce
  BY <1>12 DEF RecvNonce, serverVars, TypeOK, NodeTypeOK, SocketTypeOK, ServerTypeOK
<1>13. CASE ServerStart
  <2>1. ServerTypeOK'
    BY <1>13, EmptyRegistry DEF ServerStart, nodeVars, TypeOK, ServerTypeOK
  <2> QED BY <1>13, <2>1 DEF ServerStart, nodeVars, connVars, TypeOK, NodeTypeOK,
              SocketTypeOK
<1>14. CASE WriteFile
  <2>1. ServerTypeOK'
    BY <1>14 DEF WriteFile, nodeVars, TypeOK, ServerTypeOK
  <2> QED BY <1>14, <2>1 DEF WriteFile, nodeVars, connVars, TypeOK, NodeTypeOK,
              SocketTypeOK
<1>15. CASE FinishEnrol
  <2>1. pending \in PendingTypes
    BY <1>15 DEF FinishEnrol, TypeOK, ServerTypeOK, PendingTypes
  <2>2. IsRegistry(devInfos')
    BY <1>15, <2>1, WithEntry DEF FinishEnrol, TypeOK, ServerTypeOK, PendingTypes
  <2>3. ServerTypeOK'
    BY <1>15, <2>2 DEF FinishEnrol, TypeOK, ServerTypeOK
  <2>4. PICK r : r = [kind |-> "dh", pub |-> pending.pub]
    OBVIOUS
  <2>5. r \in Replies /\ r.kind = "dh"
    BY <2>1, <2>4 DEF PendingTypes, Replies
  <2>6. pending.slot \in held \cup {None}
    BY <2>1 DEF PendingTypes
  <2>7. reply' = IF pending.slot = None THEN reply
                 ELSE [reply EXCEPT ![pending.slot] = r]
    BY <1>15, <2>4 DEF FinishEnrol
  <2>8. UNCHANGED <<pc, sock, held, priv, alive, request, orphans>>
    BY <1>15 DEF FinishEnrol, nodeVars
  <2>9. SocketTypeOK'
    BY <2>5, <2>6, <2>7, <2>8 DEF TypeOK, SocketTypeOK
  <2> QED BY <1>15, <2>3, <2>9 DEF FinishEnrol, nodeVars, TypeOK, NodeTypeOK
<1>16. ASSUME NEW s \in Sockets, ServerRecv(s) PROVE TypeOK'
  <2>1. /\ spc = "idle" /\ request[s] \in Requests /\ s \in held
        /\ processMsg(request[s], s) /\ held' = held
    BY <1>16 DEF ServerRecv, nodeVars, TypeOK, SocketTypeOK
  <2>2. PICK m \in Requests : m = request[s]
    BY <2>1
  <2>3. /\ reply' \in [Sockets -> Replies \cup {None}]
        /\ \A t \in Sockets : (t # s \/ m.kind = "dh") => reply'[t] = reply[t]
        /\ spc' \in {"idle", "write", "added"}
        /\ IsRegistry(file')
        /\ readable' \in BOOLEAN
        /\ spc' \in {"write", "added"} => pending' \in PendingTypes'
        /\ spc' \notin {"write", "added"} => pending' = NoPending
    BY <2>1, <2>2, ProcessMsgTypes
  <2>4. ServerTypeOK'
    BY <1>16, <2>3 DEF ServerRecv, TypeOK, ServerTypeOK, PendingTypes
  <2>5. SocketTypeOK'
    BY <1>16, <2>1, <2>2, <2>3 DEF ServerRecv, nodeVars, TypeOK, SocketTypeOK
  <2> QED BY <1>16, <2>4, <2>5 DEF ServerRecv, nodeVars, TypeOK, NodeTypeOK
<1>17. ASSUME NEW m \in orphans, ServerRecvOrphan(m) PROVE TypeOK'
  <2>1. spc = "idle" /\ m \in Requests /\ processMsg(m, None) /\ held' = held
    BY <1>17 DEF ServerRecvOrphan, nodeVars, TypeOK, SocketTypeOK
  <2>2. /\ reply' \in [Sockets -> Replies \cup {None}]
        /\ \A t \in Sockets : (t # None \/ m.kind = "dh") => reply'[t] = reply[t]
        /\ spc' \in {"idle", "write", "added"}
        /\ IsRegistry(file')
        /\ readable' \in BOOLEAN
        /\ spc' \in {"write", "added"} => pending' \in PendingTypes'
        /\ spc' \notin {"write", "added"} => pending' = NoPending
    BY <2>1, ProcessMsgTypes
  <2>3. reply' = reply
    BY <2>2, NamesAssumption DEF TypeOK, SocketTypeOK
  <2>4. ServerTypeOK'
    BY <1>17, <2>2 DEF ServerRecvOrphan, TypeOK, ServerTypeOK, PendingTypes
  <2>5. SocketTypeOK'
    BY <1>17, <2>3 DEF ServerRecvOrphan, nodeVars, TypeOK, SocketTypeOK
  <2> QED BY <1>17, <2>4, <2>5 DEF ServerRecvOrphan, nodeVars, TypeOK, NodeTypeOK
<1>18. CASE ServerCrash
  <2>1. faults' \in 0 .. MaxFaults
    BY <1>18 DEF ServerCrash, Fault, TypeOK
  <2>2. ServerTypeOK'
    BY <1>18, EmptyRegistry DEF ServerCrash, TypeOK, ServerTypeOK
  <2>3. SocketTypeOK'
    BY <1>18 DEF ServerCrash, nodeVars, TypeOK, SocketTypeOK
  <2> QED BY <1>18, <2>1, <2>2, <2>3 DEF ServerCrash, nodeVars, TypeOK, NodeTypeOK
<1> QED
  BY <1>1, <1>3, <1>4, <1>5, <1>6, <1>7, <1>8, <1>9, <1>10, <1>11, <1>12, <1>13,
     <1>14, <1>15, <1>16, <1>17, <1>18
     DEF Next, Node, Network, Server

\* The initial state has the types.
LEMMA TypesInit == Init => TypeOK
<1> SUFFICES ASSUME Init PROVE TypeOK
  OBVIOUS
<1>1. ipKnown \in BOOLEAN /\ readable \in BOOLEAN /\ forgot \in BOOLEAN
  BY Zenon DEF Init
<1>2. NodeTypeOK /\ faults \in 0 .. MaxFaults
  BY <1>1, BoundsAssumption DEF Init, NodeTypeOK, DevIds
<1>3. SocketTypeOK
  BY DEF Init, SocketTypeOK
<1>4. ServerTypeOK
  BY <1>1, EmptyRegistry DEF Init, ServerTypeOK
<1> QED BY <1>2, <1>3, <1>4 DEF TypeOK

\* The specification keeps every variable in its type, whatever the number of
\* sockets, keys and faults.
THEOREM EnrolmentTypes == Spec => []TypeOK
BY TypesInit, TypesKept, PTL DEF Spec

-----------------------------------------------------------------------------
(***************************************************************************)
(* Agreement on the key.  KeysAgree says nothing of a server that is down  *)
(* nor of an exchange in progress; the inductive invariant follows the key *)
(* from the request over the pending exchange, the file and the registry   *)
(* to the answer.                                                          *)
(***************************************************************************)

\* The server has key k for the node, in memory or, while it is down, in a
\* readable file, unless it has forgotten its devices.
Stored(k) == ~forgot =>
    /\ spc # "down" => devId \in DOMAIN devInfos /\ devInfos[devId] = k
    /\ (spc = "down" /\ readable) => devId \in DOMAIN file /\ file[devId] = k

\* The file has what is in memory and the entry that is about to be added.
FileInv == ~forgot =>
    /\ spc = "idle" => readable /\ file = devInfos
    /\ spc = "startWrite" => file = devInfos
    /\ spc = "write" => file = With(devInfos, pending.dev, pending.key)
    /\ spc = "added" => readable /\ file = With(devInfos, pending.dev, pending.key)

PendingInv == spc \in {"write", "added"} => pending.dev \notin DOMAIN devInfos

\* A node without key waits for the answer to the public key it sent last.
ExchangeInv == pc = "dhWait" =>
    /\ key = NoKey
    /\ request[sock] # None => request[sock].dev = devId /\ request[sock].pub = priv
    /\ (spc \in {"write", "added"} /\ pending.slot = sock)
          => pending.dev = devId /\ pending.key = <<priv, pending.pub>>
    /\ reply[sock] # None => Stored(<<priv, reply[sock].pub>>)

\* A node with a key waits for an answer under that key.
SessionInv ==
    /\ pc = "nonceWait" =>
          /\ key # NoKey
          /\ request[sock] # None
                => request[sock] = [kind |-> "nonce", dev |-> devId, key |-> key]
          /\ ~forgot => pending.slot # sock
          /\ (~forgot /\ reply[sock] # None)
                => reply[sock] = [kind |-> "nonce", key |-> key]
    /\ ~forgot => pc # "bogus"

KeyInv ==
    /\ key # NoKey => Stored(key)
    /\ FileInv
    /\ PendingInv
    /\ ExchangeInv
    /\ SessionInv

\* What the server has stored is settled by the registry, the file and the
\* device's identity.
LEMMA StoredFrame ==
    ASSUME UNCHANGED <<devId, spc, devInfos, file, readable, forgot>>, NEW k, Stored(k)
    PROVE  Stored(k)'
BY DEF Stored

\* Steps that only change the socket of an exchange leave the server's part of
\* the invariant alone.
LEMMA ServerInvFrame ==
    ASSUME KeyInv, UNCHANGED <<spc, devInfos, file, readable, forgot>>,
           pending'.dev = pending.dev, pending'.key = pending.key
    PROVE  FileInv' /\ PendingInv'
BY DEF KeyInv, FileInv, PendingInv

\* Closing sockets leaves the device and the key of a pending exchange alone.
LEMMA CloseSocketsPending ==
    ASSUME TypeOK, NEW S \in SUBSET held, CloseSockets(S)
    PROVE  pending'.dev = pending.dev /\ pending'.key = pending.key
<1>1. CASE spc \in {"write", "added"}
  <2>1. pending \in [slot : held \cup {None}, dev : DevIds, key : Keys, pub : Privs]
    BY <1>1 DEF TypeOK, ServerTypeOK
  <2> QED BY <2>1 DEF CloseSockets
<1>2. CASE spc \notin {"write", "added"}
  BY <1>2, CloseSocketsTypes DEF TypeOK, ServerTypeOK
<1> QED BY <1>1, <1>2

\* Once a node's key or the answer to it is stored it stays stored: the server
\* adds only devices it does not know.
LEMMA StoredKept ==
    ASSUME TypeOK, KeyInv, Server \/ ServerCrash, NEW k, Stored(k)
    PROVE  Stored(k)'
<1> SUFFICES ASSUME ~forgot' PROVE Stored(k)'
  BY DEF Stored
<1>1. devId' = devId
  BY DEF Server, ServerCrash, ServerStart, WriteFile, FinishEnrol, ServerRecv,
      ServerRecvOrphan, nodeVars
<1>2. ~forgot
  BY DEF Server, ServerCrash, ServerStart, WriteFile, FinishEnrol, ServerRecv,
      ServerRecvOrphan
<1>3. CASE ServerStart
  BY <1>1, <1>2, <1>3 DEF ServerStart, Stored
<1>4. CASE WriteFile
  BY <1>1, <1>2, <1>4 DEF WriteFile, Stored
<1>5. CASE FinishEnrol
  <2>1. /\ devId \in DOMAIN devInfos /\ devInfos[devId] = k
        /\ pending.dev # devId
    BY <1>2, <1>5 DEF FinishEnrol, Stored, KeyInv, PendingInv
  <2>2. devInfos' = With(devInfos, pending.dev, pending.key) /\ spc' = "idle"
    BY <1>5 DEF FinishEnrol
  <2>3. devId \in DOMAIN devInfos' /\ devInfos'[devId] = k
    BY <2>1, <2>2 DEF With
  <2> QED BY <1>1, <2>2, <2>3 DEF Stored
<1>6. CASE (\E s \in Sockets : ServerRecv(s)) \/ (\E m \in orphans : ServerRecvOrphan(m))
  <2>1. spc = "idle" /\ devInfos' = devInfos
    BY <1>6 DEF ServerRecv, ServerRecvOrphan
  <2>2. spc' # "down"
    BY <1>6, <2>1 DEF ServerRecv, ServerRecvOrphan, processMsg, Enrol
  <2> QED BY <1>1, <1>2, <2>1, <2>2 DEF Stored
<1>7. CASE ServerCrash
  <2>1. spc # "down" /\ spc' = "down" /\ UNCHANGED <<file, readable>>
    BY <1>7 DEF ServerCrash
  <2>2. devId \in DOMAIN devInfos /\ devInfos[devId] = k
    BY <1>2, <2>1 DEF Stored
  <2>3. ASSUME readable PROVE devId \in DOMAIN file /\ file[devId] = k
    <3>1. CASE spc \in {"idle", "startWrite"}
      BY <1>2, <2>2, <3>1 DEF KeyInv, FileInv
    <3>2. CASE spc \in {"write", "added"}
      <4>1. file = With(devInfos, pending.dev, pending.key) /\ pending.dev # devId
        BY <1>2, <2>2, <3>2 DEF KeyInv, FileInv, PendingInv
      <4> QED BY <2>2, <4>1 DEF With
    <3> QED BY <2>1, <3>1, <3>2 DEF TypeOK, ServerTypeOK
  <2> QED BY <1>1, <2>1, <2>3 DEF Stored
<1> QED BY <1>3, <1>4, <1>5, <1>6, <1>7 DEF Server

\* A step of the server that answers nothing on the node's socket leaves the
\* node's part of the invariant as it is.
LEMMA ServerOther ==
    ASSUME TypeOK, TypeOK', KeyInv, Server \/ ServerCrash,
           UNCHANGED nodeVars,
           sock # None => reply'[sock] = reply[sock],
           sock # None => request'[sock] \in {request[sock], None},
           (spc' \in {"write", "added"} /\ pending'.slot = sock /\ sock # None)
               => pending' = pending /\ spc \in {"write", "added"},
           forgot => forgot'
    PROVE  (key # NoKey => Stored(key))' /\ ExchangeInv' /\ SessionInv'
<1>1. key' # NoKey => Stored(key)'
  BY StoredKept DEF KeyInv, nodeVars
<1>2. ASSUME pc = "dhWait" PROVE ExchangeInv'
  <2>1. sock \in held /\ sock # None
    BY <1>2, NamesAssumption DEF TypeOK, SocketTypeOK
  <2>2. PICK k : k = <<priv, reply[sock].pub>>
    OBVIOUS
  <2>3. reply[sock] # None => Stored(k)'
    BY <1>2, <2>2, StoredKept DEF KeyInv, ExchangeInv
  <2>4. k = <<priv', reply'[sock'].pub>> /\ reply'[sock'] = reply[sock]
    BY <2>1, <2>2 DEF nodeVars
  <2>5. reply'[sock'] # None => Stored(<<priv, reply[sock].pub>>)'
    BY <2>3, <2>4
  <2>6. request'[sock'] \in {request[sock], None} /\ key' = key /\ devId' = devId
        /\ priv' = priv
    BY <2>1 DEF nodeVars
  <2>7. (spc' \in {"write", "added"} /\ pending'.slot = sock')
          => pending' = pending /\ spc \in {"write", "added"} /\ pending.slot = sock
    BY <2>1 DEF nodeVars
  <2> QED BY <1>2, <2>5, <2>6, <2>7 DEF KeyInv, ExchangeInv
<1>3. ASSUME pc = "nonceWait" PROVE SessionInv'
  <2>1. sock \in held /\ sock # None
    BY <1>3, NamesAssumption DEF TypeOK, SocketTypeOK
  <2>2. UNCHANGED <<pc, key, devId, sock>> /\ reply'[sock] = reply[sock]
        /\ request'[sock] \in {request[sock], None}
    BY <2>1 DEF nodeVars
  <2>3. ~forgot' => pending'.slot # sock
    <3>1. CASE spc' \in {"write", "added"}
      BY <1>3, <2>1, <3>1 DEF KeyInv, SessionInv
    <3>2. CASE spc' \notin {"write", "added"}
      BY <2>1, <3>2 DEF TypeOK, ServerTypeOK, NoPending
    <3> QED BY <3>1, <3>2
  <2> QED BY <1>3, <2>2, <2>3 DEF KeyInv, SessionInv
<1>4. pc # "dhWait" => ExchangeInv'
  BY DEF ExchangeInv, nodeVars
<1>5. pc # "nonceWait" => SessionInv'
  BY DEF KeyInv, SessionInv, nodeVars
<1> QED BY <1>1, <1>2, <1>3, <1>4, <1>5

\* A message that the server processes keeps file and registry together.
LEMMA ProcessMsgFile ==
    ASSUME TypeOK, KeyInv, spc = "idle", NEW m, NEW s, processMsg(m, s),
           UNCHANGED <<devInfos, forgot>>
    PROVE  FileInv' /\ PendingInv'
<1>1. CASE m.dev \notin DOMAIN devInfos
  <2>1. PICK b \in Privs : Enrol(m, s, b)
    BY <1>1 DEF processMsg
  <2>2. pending'.dev = m.dev
    BY <2>1 DEF Enrol
  <2>3. ~forgot => readable /\ file = devInfos
    BY DEF KeyInv, FileInv
  <2>4. ~forgot => spc' = "write" /\ file' = With(devInfos, pending'.dev, pending'.key)
    BY <2>1, <2>2, <2>3 DEF Enrol
  <2> QED BY <1>1, <2>2, <2>4 DEF FileInv, PendingInv
<1>2. CASE m.dev \in DOMAIN devInfos
  <2>1. UNCHANGED <<spc, file, readable, pending>>
    BY <1>2 DEF processMsg
  <2> QED BY <2>1 DEF KeyInv, FileInv, PendingInv
<1> QED BY <1>1, <1>2

\* The server receives what the node has just sent, or anything else.
LEMMA ServerRecvKeeps ==
    ASSUME TypeOK, TypeOK', KeyInv, NEW s \in Sockets, ServerRecv(s)
    PROVE  KeyInv'
<1>1. FileInv' /\ PendingInv'
  BY ProcessMsgFile DEF ServerRecv
<1>2. /\ spc = "idle" /\ request[s] # None /\ processMsg(request[s], s)
      /\ UNCHANGED nodeVars /\ UNCHANGED <<devInfos, forgot>>
      /\ request' = [request EXCEPT ![s] = None]
      /\ request \in [Sockets -> Requests \cup {None}]
      /\ reply \in [Sockets -> Replies \cup {None}]
      /\ sock \in Sockets \cup {None}
  BY DEF ServerRecv, TypeOK, SocketTypeOK
<1>3. PICK m : m = request[s] /\ m \in Requests
  BY <1>2
<1>4. Server
  BY DEF Server
<1>5. key' # NoKey => Stored(key)'
  BY <1>2, <1>4, StoredKept DEF KeyInv, nodeVars
<1>6. CASE s # sock
  <2>1. sock # None => reply'[sock] = reply[sock] /\ request'[sock] = request[sock]
    BY <1>2, <1>6 DEF processMsg
  <2>2. (spc' \in {"write", "added"} /\ pending'.slot = sock)
          => pending' = pending /\ spc \in {"write", "added"}
    BY <1>2, <1>6 DEF processMsg, Enrol
  <2> QED BY <1>1, <1>2, <1>4, <2>1, <2>2, ServerOther DEF KeyInv
<1>7. CASE s = sock /\ pc = "dhWait"
  <2>1. m.kind = "dh" /\ m.dev = devId /\ m.pub = priv
    BY <1>2, <1>3, <1>7 DEF KeyInv, ExchangeInv, TypeOK, SocketTypeOK
  <2>2. reply' = reply
    BY <1>2, <1>3, <2>1 DEF processMsg, Decrypts
  <2>3. PICK k : k = <<priv, reply[sock].pub>>
    OBVIOUS
  <2>4. reply[sock] # None => Stored(k)'
    BY <1>4, <1>7, <2>3, StoredKept DEF KeyInv, ExchangeInv
  <2>5. k = <<priv', reply'[sock'].pub>>
    BY <1>2, <2>2, <2>3 DEF nodeVars
  <2>6. reply'[sock'] # None => Stored(<<priv, reply[sock].pub>>)'
    BY <1>2, <2>2, <2>4, <2>5 DEF nodeVars
  <2>7. spc' \in {"write", "added"}
          => pending'.dev = devId /\ pending'.key = <<priv, pending'.pub>>
    BY <1>2, <1>3, <2>1 DEF processMsg, Enrol, Shared
  <2>8. request'[sock'] = None /\ UNCHANGED <<key, devId, priv, pc>>
    BY <1>2, <1>7 DEF nodeVars
  <2>9. ExchangeInv'
    BY <1>7, <2>6, <2>7, <2>8 DEF KeyInv, ExchangeInv
  <2>10. SessionInv'
    BY <1>7, <2>8 DEF SessionInv
  <2> QED BY <1>1, <1>5, <2>9, <2>10 DEF KeyInv
<1>8. CASE s = sock /\ pc = "nonceWait"
  <2>1. m = [kind |-> "nonce", dev |-> devId, key |-> key] /\ key # NoKey
    BY <1>2, <1>3, <1>8 DEF KeyInv, SessionInv
  <2>2. ASSUME ~forgot
        PROVE  /\ pending'.slot # sock
               /\ reply'[sock] # None => reply'[sock] = [kind |-> "nonce", key |-> key]
    <3>1. devId \in DOMAIN devInfos /\ devInfos[devId] = key
      BY <1>2, <2>1, <2>2 DEF KeyInv, Stored
    <3>2. pending' = pending
      BY <1>2, <1>3, <2>1, <3>1 DEF processMsg
    <3>3. reply' = [reply EXCEPT ![s] = NonceReply(m)] \/ reply' = reply
      BY <1>2, <1>3, <2>1, <3>1 DEF processMsg
    <3>4. NonceReply(m) = [kind |-> "nonce", key |-> key]
      BY <2>1, <3>1 DEF NonceReply
    <3> QED BY <1>2, <1>8, <2>2, <3>2, <3>3, <3>4 DEF KeyInv, SessionInv
  <2>3. UNCHANGED <<pc, key, devId, sock, forgot>> /\ request'[sock] = None
    BY <1>2, <1>8 DEF nodeVars
  <2>4. SessionInv'
    BY <1>8, <2>1, <2>2, <2>3 DEF SessionInv
  <2>5. ExchangeInv'
    BY <1>8, <2>3 DEF ExchangeInv
  <2> QED BY <1>1, <1>5, <2>4, <2>5 DEF KeyInv
<1>9. CASE pc \notin {"dhWait", "nonceWait"}
  <2>1. ExchangeInv' /\ SessionInv'
    BY <1>2, <1>9 DEF KeyInv, ExchangeInv, SessionInv, nodeVars
  <2> QED BY <1>1, <1>5, <2>1 DEF KeyInv
<1> QED BY <1>6, <1>7, <1>8, <1>9

\* The node closes sockets and goes back to the top of its loop.
LEMMA ToTopKeeps ==
    ASSUME TypeOK, KeyInv, pc' = "top",
           pending'.dev = pending.dev, pending'.key = pending.key,
           UNCHANGED <<spc, devInfos, file, readable, forgot>>,
           key' # NoKey => Stored(key)'
    PROVE  KeyInv'
<1>1. FileInv' /\ PendingInv'
  BY ServerInvFrame
<1>2. ExchangeInv' /\ SessionInv'
  BY DEF ExchangeInv, SessionInv
<1> QED BY <1>1, <1>2 DEF KeyInv

\* Every step keeps the invariant.
LEMMA KeyInvKept == TypeOK /\ TypeOK' /\ KeyInv /\ [Next]_vars => KeyInv'
<1> SUFFICES ASSUME TypeOK, TypeOK', KeyInv, [Next]_vars PROVE KeyInv'
  OBVIOUS
<1>1. CASE UNCHANGED vars
  BY <1>1 DEF vars, nodeVars, connVars, serverVars, KeyInv, Stored, FileInv,
      PendingInv, ExchangeInv, SessionInv
<1>2. ASSUME Boot PROVE KeyInv'
  <2>1. /\ CloseSockets(held) /\ pc' = "top" /\ key' = NoKey
        /\ UNCHANGED <<spc, devInfos, file, readable, forgot>>
    BY <1>2 DEF Boot
  <2> QED BY <2>1, CloseSocketsPending, ToTopKeeps
<1>3. CASE ExchangeCut \/ CloseSession
  <2>1. /\ CloseSockets({sock}) /\ {sock} \in SUBSET held /\ pc' = "top"
        /\ UNCHANGED <<key, devId, spc, devInfos, file, readable, forgot>>
    BY <1>3 DEF ExchangeCut, CloseSession, TypeOK, SocketTypeOK
  <2>2. key' # NoKey => Stored(key)'
    BY <2>1, StoredFrame DEF KeyInv
  <2> QED BY <2>1, <2>2, CloseSocketsPending, ToTopKeeps
<1>4. CASE ExchangeFails \/ RecvBroadcast \/ ConnectFail
  <2>1. pc' = "top" /\ UNCHANGED <<key, devId, serverVars>>
    BY <1>4 DEF ExchangeFails, RecvBroadcast, ConnectFail
  <2>2. key' # NoKey => Stored(key)'
    BY <2>1, StoredFrame DEF KeyInv, serverVars
  <2> QED BY <2>1, <2>2, ToTopKeeps DEF serverVars
<1>5. CASE OpenDiscovery \/ RecvForeign
  <2>1. pc' \in {"discover", "stuck"} /\ UNCHANGED <<key, devId, serverVars>>
    BY <1>5 DEF OpenDiscovery, RecvForeign
  <2>2. key' # NoKey => Stored(key)'
    BY <2>1, StoredFrame DEF KeyInv, serverVars
  <2>3. FileInv' /\ PendingInv'
    BY <2>1, ServerInvFrame DEF serverVars
  <2> QED BY <2>1, <2>2, <2>3 DEF KeyInv, ExchangeInv, SessionInv
<1>6. CASE RecvPublicKey
  <2>1. /\ pc' = "top" /\ UNCHANGED <<devId, serverVars>>
        /\ key' = <<priv, reply[sock].pub>> /\ pc = "dhWait" /\ reply[sock] # None
    BY <1>6 DEF RecvPublicKey, Shared
  <2>2. PICK k : k = <<priv, reply[sock].pub>>
    OBVIOUS
  <2>3. Stored(k)
    BY <2>1, <2>2 DEF KeyInv, ExchangeInv
  <2>4. key' # NoKey => Stored(key)'
    BY <2>1, <2>2, <2>3, StoredFrame DEF serverVars
  <2> QED BY <2>1, <2>4, ToTopKeeps DEF serverVars
<1>7. CASE RecvNonce
  <2>1. /\ pc = "nonceWait" /\ reply[sock] # None
        /\ UNCHANGED <<key, devId, serverVars>>
        /\ pc' = IF reply[sock] = [kind |-> "nonce", key |-> key]
                 THEN "session" ELSE "bogus"
    BY <1>7 DEF RecvNonce
  <2>2. key' # NoKey => Stored(key)'
    BY <2>1, StoredFrame DEF KeyInv, serverVars
  <2>3. FileInv' /\ PendingInv'
    BY <2>1, ServerInvFrame DEF serverVars
  <2>4. ExchangeInv' /\ SessionInv'
    BY <2>1 DEF KeyInv, ExchangeInv, SessionInv, serverVars
  <2> QED BY <2>2, <2>3, <2>4 DEF KeyInv
<1>8. ASSUME NEW s \in Sockets, StartExchange(s) \/ StartSession(s) PROVE KeyInv'
  <2>1. PICK msg : Opens(s, msg)
    BY <1>8 DEF StartExchange, StartSession
  <2>2. /\ UNCHANGED <<key, devId, serverVars>>
        /\ s \notin held /\ sock' = s /\ reply'[s] = None /\ pending'.slot # s
    BY <2>1, NamesAssumption
       DEF Opens, serverVars, TypeOK, SocketTypeOK, ServerTypeOK, NoPending
  <2>3. key' # NoKey => Stored(key)'
    BY <2>2, StoredFrame DEF KeyInv, serverVars
  <2>4. FileInv' /\ PendingInv'
    BY <2>2, ServerInvFrame DEF serverVars
  <2>5. CASE StartExchange(s)
    <3>1. PICK a \in Privs : priv' = a /\ Opens(s, [kind |-> "dh", dev |-> devId, pub |-> a])
      BY <2>5 DEF StartExchange
    <3>2. request'[s] = [kind |-> "dh", dev |-> devId, pub |-> priv']
      BY <3>1 DEF Opens, TypeOK, SocketTypeOK
    <3>3. pc' = "dhWait" /\ key = NoKey
      BY <2>5 DEF StartExchange
    <3>4. ExchangeInv'
      BY <2>2, <3>2, <3>3 DEF ExchangeInv
    <3>5. SessionInv'
      BY <3>3 DEF SessionInv
    <3> QED BY <2>3, <2>4, <3>4, <3>5 DEF KeyInv
  <2>6. CASE StartSession(s)
    <3>1. request'[s] = [kind |-> "nonce", dev |-> devId, key |-> key]
      BY <2>6 DEF StartSession, Opens, TypeOK, SocketTypeOK
    <3>2. pc' = "nonceWait" /\ key # NoKey
      BY <2>6 DEF StartSession
    <3>3. ExchangeInv' /\ SessionInv'
      BY <2>2, <3>1, <3>2 DEF ExchangeInv, SessionInv
    <3> QED BY <2>3, <2>4, <3>3 DEF KeyInv
  <2> QED BY <1>8, <2>5, <2>6
<1>9. ASSUME NEW s \in Sockets, ServerRecv(s) PROVE KeyInv'
  BY <1>9, ServerRecvKeeps
<1>10. ASSUME NEW m \in orphans, ServerRecvOrphan(m) PROVE KeyInv'
  <2>1. /\ spc = "idle" /\ processMsg(m, None) /\ UNCHANGED nodeVars
        /\ UNCHANGED <<devInfos, forgot, request>>
    BY <1>10 DEF ServerRecvOrphan
  <2>2. FileInv' /\ PendingInv'
    BY <2>1, ProcessMsgFile
  <2>3. reply' = reply
    BY <2>1 DEF processMsg
  <2>4. spc' \in {"write", "added"} => pending'.slot = None
    BY <2>1 DEF processMsg, Enrol
  <2>5. Server
    BY <1>10 DEF Server
  <2> QED BY <2>1, <2>2, <2>3, <2>4, <2>5, ServerOther DEF KeyInv
<1>11. CASE ServerStart
  <2>1. FileInv' /\ PendingInv'
    BY <1>11 DEF ServerStart, FileInv, PendingInv
  <2>2. UNCHANGED nodeVars /\ UNCHANGED <<request, reply, pending>> /\ (forgot => forgot')
        /\ spc' \notin {"write", "added"}
    BY <1>11 DEF ServerStart, connVars
  <2>3. Server
    BY <1>11 DEF Server
  <2> QED BY <2>1, <2>2, <2>3, ServerOther DEF KeyInv
<1>12. CASE WriteFile
  <2>1. FileInv' /\ PendingInv'
    BY <1>12 DEF WriteFile, KeyInv, FileInv, PendingInv
  <2>2. UNCHANGED nodeVars /\ UNCHANGED <<request, reply, pending, forgot>>
        /\ (spc' \in {"write", "added"} => spc \in {"write", "added"})
    BY <1>12 DEF WriteFile, connVars
  <2>3. Server
    BY <1>12 DEF Server
  <2> QED BY <2>1, <2>2, <2>3, ServerOther DEF KeyInv
<1>13. CASE ServerCrash
  <2>1. FileInv' /\ PendingInv'
    BY <1>13 DEF ServerCrash, FileInv, PendingInv
  <2>2. UNCHANGED nodeVars /\ UNCHANGED <<reply, forgot>> /\ spc' = "down"
        /\ (sock # None => request'[sock] = None)
    BY <1>13 DEF ServerCrash, TypeOK, SocketTypeOK
  <2> QED BY <1>13, <2>1, <2>2, ServerOther DEF KeyInv
<1>14. CASE FinishEnrol
  <2>1. /\ spc = "added" /\ spc' = "idle" /\ UNCHANGED nodeVars
        /\ UNCHANGED <<request, file, readable, forgot>>
        /\ devInfos' = With(devInfos, pending.dev, pending.key)
        /\ pending' = NoPending
    BY <1>14 DEF FinishEnrol
  <2>2. FileInv' /\ PendingInv'
    BY <2>1 DEF KeyInv, FileInv, PendingInv
  <2>3. Server
    BY <1>14 DEF Server
  <2>4. reply \in [Sockets -> Replies \cup {None}] /\ sock \in Sockets \cup {None}
        /\ pending.slot \in Sockets \cup {None}
    BY <2>1 DEF TypeOK, SocketTypeOK, ServerTypeOK
  <2>5. CASE pending.slot # sock \/ sock = None
    <3>1. sock # None => reply'[sock] = reply[sock]
      BY <1>14, <2>4, <2>5 DEF FinishEnrol
    <3> QED BY <2>1, <2>2, <2>3, <3>1, ServerOther DEF KeyInv
  <2>6. CASE pending.slot = sock /\ sock # None
    <3>1. key' # NoKey => Stored(key)'
      BY <2>1, <2>3, StoredKept DEF KeyInv, nodeVars
    <3>2. reply'[sock] = [kind |-> "dh", pub |-> pending.pub]
      BY <1>14, <2>4, <2>6 DEF FinishEnrol
    <3>3. CASE pc = "dhWait"
      <4>1. pending.dev = devId /\ pending.key = <<priv, pending.pub>>
        BY <2>1, <2>6, <3>3 DEF KeyInv, ExchangeInv
      <4>2. devId \in DOMAIN devInfos' /\ devInfos'[devId] = <<priv, pending.pub>>
        BY <2>1, <4>1 DEF With
      <4>3. reply'[sock'].pub = pending.pub /\ UNCHANGED <<pc, key, devId, priv, sock>>
        BY <2>1, <3>2 DEF nodeVars
      <4>4. Stored(<<priv, reply[sock].pub>>)'
        BY <2>1, <4>2, <4>3 DEF Stored
      <4>5. request'[sock'] = request[sock]
        BY <2>1, <4>3
      <4>6. ExchangeInv'
        BY <2>1, <3>3, <4>3, <4>4, <4>5 DEF KeyInv, ExchangeInv
      <4>7. SessionInv'
        BY <3>3, <4>3 DEF SessionInv
      <4> QED BY <2>2, <3>1, <4>6, <4>7 DEF KeyInv
    <3>4. CASE pc # "dhWait"
      <4>1. ExchangeInv'
        BY <2>1, <3>4 DEF ExchangeInv, nodeVars
      <4>2. SessionInv'
        BY <2>1, <2>6, <3>4 DEF KeyInv, SessionInv, nodeVars, NoPending
      <4> QED BY <2>2, <3>1, <4>1, <4>2 DEF KeyInv
    <3> QED BY <3>3, <3>4
  <2> QED BY <2>5, <2>6
<1> QED
  BY <1>1, <1>2, <1>3, <1>4, <1>5, <1>6, <1>7, <1>8, <1>9, <1>10, <1>11, <1>12, <1>13,
     <1>14
     DEF Next, Node, Network, Server, PowerCycle, DiscoveryReboot

\* The inductive invariant holds.
THEOREM KeyInvHolds == Spec => [](TypeOK /\ KeyInv)
<1>1. Init => TypeOK /\ KeyInv
  BY TypesInit DEF Init, KeyInv, Stored, FileInv, PendingInv, ExchangeInv, SessionInv
<1>2. TypeOK /\ KeyInv /\ [Next]_vars => (TypeOK /\ KeyInv)'
  BY TypesKept, KeyInvKept
<1> QED BY <1>1, <1>2, PTL DEF Spec

\* Once the node has a key, a running server that has not forgotten its devices
\* knows the node under that key: for any number of sockets, keys and faults.
THEOREM KeyAgreement == Spec => []KeysAgree
<1>1. TypeOK /\ KeyInv => KeysAgree
  BY DEF KeyInv, Stored, KeysAgree
<1> QED BY <1>1, KeyInvHolds, PTL

\* The node never opens a session with a nonce that it could not decrypt, unless
\* the server has forgotten its devices.
THEOREM SessionsAuthentic == Spec => []NoBogusSession
<1>1. TypeOK /\ KeyInv => NoBogusSession
  BY DEF KeyInv, SessionInv, NoBogusSession
<1> QED BY <1>1, KeyInvHolds, PTL

-----------------------------------------------------------------------------
(***************************************************************************)
(* Every reboot has a cause.  As long as there were exactly as many        *)
(* faults as reboots, nothing has gone wrong since the last one; then the  *)
(* server has not heard of the node's new identity before the node's first *)
(* message, answers that one, and no more than one socket stays open.      *)
(***************************************************************************)

\* The devices that the server knows, has saved, is adding or will still hear of
\* on connections that are closed.
Heard == DOMAIN devInfos \cup DOMAIN file \cup {pending.dev} \cup {m.dev : m \in orphans}

\* No message and no entry is from a later boot.
PastDevices ==
    /\ \A d \in Heard : d <= devId
    /\ \A s \in Sockets : request[s] # None => request[s].dev <= devId

\* What is known as long as nothing has gone wrong since the node booted.
Calm ==
    /\ (key = NoKey /\ pc # "dhWait") => held = {} /\ devId \notin Heard
    /\ pc = "dhWait" =>
          /\ held = {sock} /\ sock \in alive
          /\ \/ request[sock] # None /\ devId \notin Heard
             \/ request[sock] = None /\ (reply[sock] # None \/ pending.slot = sock)
    /\ \A s, t \in held \ {sock} : s = t
    /\ pc \in {"nonceWait", "session", "bogus"} => key # NoKey

RebootInv ==
    /\ devId <= faults + 1
    /\ PastDevices
    /\ devId = faults + 1 => Calm

\* Closing sockets makes the server hear later of what was on its way.
LEMMA HeardClosing ==
    ASSUME TypeOK, NEW S \in SUBSET held, CloseSockets(S), UNCHANGED <<devInfos, file>>
    PROVE  /\ \A d \in Heard' : d \in Heard \/ \E s \in S : request[s] # None /\ d = request[s].dev
           /\ \A s \in Sockets : request'[s] # None => request'[s] = request[s]
<1>1. pending'.dev = pending.dev
  BY CloseSocketsPending
<1>2. orphans' = orphans \cup {request[s] : s \in {t \in S : request[t] # None}}
  BY DEF CloseSockets
<1>3. \A s \in Sockets : request'[s] # None => request'[s] = request[s]
  BY DEF CloseSockets
<1> QED BY <1>1, <1>2, <1>3 DEF Heard

\* A message that is processed may add its device.
LEMMA HeardProcessing ==
    ASSUME NEW m, NEW s, processMsg(m, s), UNCHANGED devInfos, orphans' \subseteq orphans
    PROVE  \A d \in Heard' : d \in Heard \/ d = m.dev
<1>1. CASE m.dev \notin DOMAIN devInfos
  <2>1. PICK b \in Privs : Enrol(m, s, b)
    BY <1>1 DEF processMsg
  <2>2. pending'.dev = m.dev
    BY <2>1 DEF Enrol
  <2>3. \A d \in DOMAIN file' : d \in DOMAIN file \/ d = m.dev
    BY <2>1 DEF Enrol, With
  <2> QED BY <2>2, <2>3 DEF Heard
<1>2. CASE m.dev \in DOMAIN devInfos
  BY <1>2 DEF processMsg, Heard
<1> QED BY <1>1, <1>2

\* What the server hears of in the steps that receive no message.
LEMMA HeardServer ==
    ASSUME ServerStart \/ WriteFile \/ FinishEnrol \/ ServerCrash
    PROVE  \A d \in Heard' : d \in Heard \/ d = 0
<1>1. CASE ServerStart
  <2>1. devInfos' = file \/ devInfos' = Empty
    BY <1>1 DEF ServerStart
  <2> QED BY <1>1, <2>1 DEF ServerStart, connVars, Heard, Empty
<1>2. CASE WriteFile
  BY <1>2 DEF WriteFile, connVars, Heard
<1>3. CASE FinishEnrol
  <2>1. \A d \in DOMAIN devInfos' : d \in DOMAIN devInfos \/ d = pending.dev
    BY <1>3 DEF FinishEnrol, With
  <2> QED BY <1>3, <2>1 DEF FinishEnrol, Heard, NoPending
<1>4. CASE ServerCrash
  BY <1>4 DEF ServerCrash, Heard, Empty, NoPending
<1> QED BY <1>1, <1>2, <1>3, <1>4

\* Device IDs and numbers of faults are numbers.
LEMMA Counts ==
    ASSUME TypeOK
    PROVE  /\ devId \in Nat /\ devId # 0 /\ faults \in Nat
           /\ \A d \in Heard : d \in Nat
           /\ \A s \in Sockets : request[s] # None => request[s].dev \in Nat
<1>1. devId \in Nat /\ devId # 0 /\ faults \in Nat
  BY BoundsAssumption DEF TypeOK, NodeTypeOK, DevIds
<1>2. DOMAIN devInfos \subseteq Nat /\ DOMAIN file \subseteq Nat
  BY DEF TypeOK, ServerTypeOK, IsRegistry, DevIds
<1>3. pending.dev \in Nat
  <2>1. CASE spc \in {"write", "added"}
    <3>1. pending \in [slot : held \cup {None}, dev : DevIds, key : Keys, pub : Privs]
      BY <2>1 DEF TypeOK, ServerTypeOK
    <3> QED BY <3>1 DEF DevIds
  <2>2. CASE spc \notin {"write", "added"}
    BY <2>2 DEF TypeOK, ServerTypeOK, NoPending
  <2> QED BY <2>1, <2>2
<1>4. \A m \in Requests : m.dev \in Nat
  BY Fields DEF DevIds
<1>5. orphans \subseteq Requests /\ \A s \in Sockets : request[s] # None => request[s] \in Requests
  BY DEF TypeOK, SocketTypeOK
<1> QED BY <1>1, <1>2, <1>3, <1>4, <1>5 DEF Heard

\* A node that boots has an identity nobody has heard of.
LEMMA BootCalm ==
    ASSUME TypeOK, PastDevices, Boot
    PROVE  PastDevices' /\ Calm'
<1>1. /\ pc' = "top" /\ devId' = devId + 1 /\ key' = NoKey /\ CloseSockets(held)
      /\ UNCHANGED <<devInfos, file>> /\ held' = {}
  BY DEF Boot, CloseSockets
<1>2. /\ \A d \in Heard' : d \in Nat /\ d <= devId
      /\ \A s \in Sockets : request'[s] # None => request'[s].dev \in Nat /\ request'[s].dev <= devId
  <2>1. held \in SUBSET held /\ held \subseteq Sockets
    BY DEF TypeOK, SocketTypeOK
  <2>2. /\ \A d \in Heard' : d \in Heard \/ \E s \in held : request[s] # None /\ d = request[s].dev
        /\ \A s \in Sockets : request'[s] # None => request'[s] = request[s]
    BY <1>1, <2>1, HeardClosing
  <2> QED BY <2>1, <2>2, Counts DEF PastDevices
<1>3. devId \in Nat
  BY Counts
<1>4. \A d \in Nat : d <= devId => d <= devId + 1 /\ d # devId + 1
  BY <1>3
<1>5. PastDevices'
  BY <1>1, <1>2, <1>4 DEF PastDevices
<1>6. devId' \notin Heard'
  BY <1>1, <1>2, <1>4
<1> QED BY <1>1, <1>5, <1>6 DEF Calm

\* No entry or message of a later boot comes up.
LEMMA PastDevicesKept ==
    ASSUME TypeOK, PastDevices, [Next]_vars
    PROVE  PastDevices'
<1>1. CASE Boot
  BY <1>1, BootCalm
<1>2. CASE ExchangeCut \/ CloseSession
  <2>1. /\ CloseSockets({sock}) /\ {sock} \in SUBSET held
        /\ UNCHANGED <<devId, devInfos, file>>
    BY <1>2 DEF ExchangeCut, CloseSession, TypeOK, SocketTypeOK
  <2>2. /\ \A d \in Heard' : d \in Heard \/ \E s \in {sock} : request[s] # None /\ d = request[s].dev
        /\ \A s \in Sockets : request'[s] # None => request'[s] = request[s]
    BY <2>1, HeardClosing
  <2>3. sock \in Sockets
    BY <2>1 DEF TypeOK, SocketTypeOK
  <2> QED BY <2>1, <2>2, <2>3 DEF PastDevices
<1>3. ASSUME NEW s \in Sockets, StartExchange(s) \/ StartSession(s) PROVE PastDevices'
  <2>1. PICK msg : Opens(s, msg) /\ msg.dev = devId
    <3>1. CASE StartExchange(s)
      <4>1. PICK a \in Privs : Opens(s, [kind |-> "dh", dev |-> devId, pub |-> a])
        BY <3>1 DEF StartExchange
      <4>2. [kind |-> "dh", dev |-> devId, pub |-> a].dev = devId
        OBVIOUS
      <4> QED BY <4>1, <4>2
    <3>2. CASE StartSession(s)
      <4>1. Opens(s, [kind |-> "nonce", dev |-> devId, key |-> key])
        BY <3>2 DEF StartSession
      <4>2. [kind |-> "nonce", dev |-> devId, key |-> key].dev = devId
        OBVIOUS
      <4> QED BY <4>1, <4>2
    <3> QED BY <1>3, <3>1, <3>2
  <2>2. /\ request' = [request EXCEPT ![s] = msg]
        /\ UNCHANGED <<devId, devInfos, file, pending, orphans>>
    BY <2>1 DEF Opens, serverVars
  <2>3. Heard' = Heard /\ devId <= devId
    BY <2>2, Counts DEF Heard
  <2>4. \A t \in Sockets : request'[t] = IF t = s THEN msg ELSE request[t]
    BY <2>2 DEF TypeOK, SocketTypeOK
  <2> QED BY <2>1, <2>2, <2>3, <2>4 DEF PastDevices
<1>4. CASE \/ OpenDiscovery \/ ConnectFail \/ RecvPublicKey \/ ExchangeFails
           \/ RecvNonce \/ RecvBroadcast \/ RecvForeign \/ UNCHANGED vars
  <2>1. UNCHANGED <<devId, request, devInfos, file, pending, orphans>>
    BY <1>4 DEF OpenDiscovery, ConnectFail, RecvPublicKey, ExchangeFails, RecvNonce,
       RecvBroadcast, RecvForeign, vars, nodeVars, connVars, serverVars
  <2> QED BY <2>1 DEF PastDevices, Heard
<1>5. CASE ServerStart \/ WriteFile \/ FinishEnrol \/ ServerCrash
  <2>1. /\ devId' = devId
        /\ \A s \in Sockets : request'[s] # None => request'[s] = request[s]
    BY <1>5 DEF ServerStart, WriteFile, FinishEnrol, ServerCrash, nodeVars, connVars
  <2>2. 0 <= devId
    BY Counts
  <2> QED BY <1>5, <2>1, <2>2, HeardServer DEF PastDevices
<1>6. ASSUME NEW s \in Sockets, ServerRecv(s) PROVE PastDevices'
  <2>1. /\ processMsg(request[s], s) /\ request[s] # None
        /\ UNCHANGED <<devId, devInfos, orphans>>
        /\ request' = [request EXCEPT ![s] = None]
    BY <1>6 DEF ServerRecv, nodeVars
  <2>2. \A d \in Heard' : d \in Heard \/ d = request[s].dev
    BY <2>1, HeardProcessing
  <2>3. \A t \in Sockets : request'[t] # None => request'[t] = request[t]
    BY <2>1 DEF TypeOK, SocketTypeOK
  <2> QED BY <2>1, <2>2, <2>3 DEF PastDevices
<1>7. ASSUME NEW m \in orphans, ServerRecvOrphan(m) PROVE PastDevices'
  <2>1. processMsg(m, None) /\ UNCHANGED <<devId, devInfos, request>> /\ orphans' \subseteq orphans
    BY <1>7 DEF ServerRecvOrphan, nodeVars
  <2>2. \A d \in Heard' : d \in Heard \/ d = m.dev
    BY <2>1, HeardProcessing
  <2>3. m.dev \in Heard
    BY DEF Heard
  <2> QED BY <2>1, <2>2, <2>3 DEF PastDevices
<1> QED
  BY <1>1, <1>2, <1>3, <1>4, <1>5, <1>6, <1>7
     DEF Next, Node, Network, Server, PowerCycle, DiscoveryReboot

\* A step that is neither a fault nor a reboot leaves the node calm.
LEMMA CalmNode ==
    ASSUME TypeOK, KeyInv, Calm, Node, faults' = faults, ~DiscoveryReboot
    PROVE  Calm'
<1>1. CASE OpenDiscovery \/ ConnectFail
  BY <1>1 DEF OpenDiscovery, ConnectFail, connVars, serverVars, Calm, Heard
<1>2. ASSUME NEW s \in Sockets, StartExchange(s) \/ StartSession(s) PROVE Calm'
  <2>1. PICK msg : Opens(s, msg)
    BY <1>2 DEF StartExchange, StartSession
  <2>2. /\ pc = "top" /\ s \notin held /\ held' = held \cup {s} /\ sock' = s /\ s \in alive'
        /\ request'[s] = msg
        /\ UNCHANGED <<devId, key, reply, devInfos, file, pending, orphans>>
    BY <2>1 DEF Opens, serverVars, TypeOK, SocketTypeOK
  <2>3. Heard' = Heard
    BY <2>2 DEF Heard
  <2>4. sock = None /\ None \notin held
    BY <2>2, NamesAssumption DEF TypeOK, SocketTypeOK
  <2>5. CASE StartExchange(s)
    <3>1. key = NoKey /\ pc' = "dhWait" /\ held = {} /\ devId \notin Heard
      BY <2>2, <2>5 DEF StartExchange, Calm
    <3>2. request'[s] # None
      <4>1. PICK a \in Privs : Opens(s, [kind |-> "dh", dev |-> devId, pub |-> a])
        BY <2>5 DEF StartExchange
      <4>2. [kind |-> "dh", dev |-> devId, pub |-> a] # None
        BY MessagesAssumption DEF Requests, TypeOK, NodeTypeOK
      <4> QED BY <4>1, <4>2 DEF Opens, TypeOK, SocketTypeOK
    <3> QED BY <2>2, <2>3, <3>1, <3>2 DEF Calm
  <2>6. CASE StartSession(s)
    <3>1. key # NoKey /\ pc' = "nonceWait"
      BY <2>6 DEF StartSession
    <3> QED BY <2>2, <2>4, <3>1 DEF Calm
  <2> QED BY <1>2, <2>5, <2>6
<1>3. CASE RecvPublicKey
  <2>1. /\ pc = "dhWait" /\ pc' = "top" /\ sock' = None /\ held' = held
        /\ key' = Shared(priv, reply[sock].pub) /\ reply[sock] # None
    BY <1>3 DEF RecvPublicKey
  <2>2. priv \in Privs /\ reply[sock].pub \in Privs
    BY <2>1, Fields DEF TypeOK, SocketTypeOK
  <2>3. key' # NoKey
    BY <2>1, <2>2, SharedKey, NamesAssumption DEF Keys
  <2> QED BY <2>1, <2>3 DEF Calm
<1>4. CASE ExchangeFails
  <2>1. pc = "dhWait" /\ Unanswered
    <3>1. faults \in Nat
      BY Counts
    <3> QED BY <1>4, <3>1 DEF ExchangeFails, Fault
  <2> QED BY <2>1 DEF Unanswered, Calm
<1>5. CASE ExchangeCut
  BY <1>5 DEF ExchangeCut, Calm
<1>6. CASE RecvNonce
  BY <1>6 DEF RecvNonce, Calm
<1>7. CASE CloseSession
  BY <1>7 DEF CloseSession, CloseSockets, Calm
<1> QED BY <1>1, <1>2, <1>3, <1>4, <1>5, <1>6, <1>7 DEF Node

\* The server hears of a node's new identity in the node's first message, and
\* answers that.
LEMMA CalmServer ==
    ASSUME TypeOK, KeyInv, Calm, Server
    PROVE  Calm'
<1>1. UNCHANGED nodeVars /\ alive' = alive
  BY DEF Server, ServerStart, WriteFile, FinishEnrol, ServerRecv, ServerRecvOrphan, connVars
<1>2. devId # 0
  BY Counts
<1>3. ASSUME (key = NoKey /\ pc # "dhWait") => devId \notin Heard',
             pc = "dhWait" =>
                \/ request'[sock] # None /\ devId \notin Heard'
                \/ request'[sock] = None /\ (reply'[sock] # None \/ pending'.slot = sock)
      PROVE  Calm'
  BY <1>1, <1>3 DEF Calm, nodeVars
<1>4. CASE ServerStart \/ WriteFile
  <2>1. UNCHANGED <<request, reply, pending>>
    BY <1>4 DEF ServerStart, WriteFile, connVars
  <2>2. devId \notin Heard => devId \notin Heard'
    BY <1>2, <1>4, HeardServer
  <2> QED BY <1>3, <2>1, <2>2 DEF Calm
<1>5. CASE FinishEnrol
  <2>1. devId \notin Heard => devId \notin Heard'
    BY <1>2, <1>5, HeardServer
  <2>2. /\ request' = request
        /\ reply' = IF pending.slot = None THEN reply
                    ELSE [reply EXCEPT ![pending.slot] = [kind |-> "dh", pub |-> pending.pub]]
    BY <1>5 DEF FinishEnrol
  <2>3. ASSUME pc = "dhWait", request[sock] = None PROVE reply'[sock] # None
    <3>1. reply \in [Sockets -> Replies \cup {None}] /\ sock \in Sockets /\ sock # None
      BY <2>3, NamesAssumption DEF TypeOK, SocketTypeOK
    <3>2. reply[sock] # None \/ pending.slot = sock
      BY <2>3 DEF Calm
    <3>3. [kind |-> "dh", pub |-> pending.pub] # None
      <4>1. pending \in [slot : held \cup {None}, dev : DevIds, key : Keys, pub : Privs]
        BY <1>5 DEF FinishEnrol, TypeOK, ServerTypeOK
      <4> QED BY <4>1, MessagesAssumption DEF Replies
    <3> QED BY <2>2, <3>1, <3>2, <3>3
  <2> QED BY <1>3, <2>1, <2>2, <2>3 DEF Calm
<1>6. ASSUME NEW m \in orphans, ServerRecvOrphan(m) PROVE Calm'
  <2>1. /\ spc = "idle" /\ processMsg(m, None)
        /\ UNCHANGED <<devInfos, request>> /\ orphans' \subseteq orphans
    BY <1>6 DEF ServerRecvOrphan
  <2>2. \A d \in Heard' : d \in Heard \/ d = m.dev
    BY <2>1, HeardProcessing
  <2>3. m.dev \in Heard
    BY DEF Heard
  <2>4. pending = NoPending /\ reply' = reply
    BY <2>1 DEF TypeOK, ServerTypeOK, processMsg
  <2>5. pc = "dhWait" => sock # None
    BY NamesAssumption DEF TypeOK, SocketTypeOK
  <2> QED BY <1>3, <2>1, <2>2, <2>3, <2>4, <2>5 DEF Calm, NoPending
<1>7. ASSUME NEW s \in Sockets, ServerRecv(s) PROVE Calm'
  <2>1. /\ spc = "idle" /\ processMsg(request[s], s) /\ request[s] # None
        /\ UNCHANGED <<devInfos, orphans>>
        /\ request' = [request EXCEPT ![s] = None]
    BY <1>7 DEF ServerRecv
  <2>2. s \in held
    BY <2>1 DEF TypeOK, SocketTypeOK
  <2>3. CASE key = NoKey /\ pc # "dhWait"
    BY <2>2, <2>3 DEF Calm
  <2>4. CASE pc = "dhWait"
    <3>1. s = sock /\ request[s].dev = devId /\ devId \notin DOMAIN devInfos
      BY <2>1, <2>2, <2>4 DEF Calm, KeyInv, ExchangeInv, Heard
    <3>2. pending'.slot = s
      BY <2>1, <3>1 DEF processMsg, Enrol
    <3>3. request'[s] = None
      BY <2>1 DEF TypeOK, SocketTypeOK
    <3> QED BY <1>3, <2>4, <3>1, <3>2, <3>3
  <2> QED BY <1>3, <2>3, <2>4
<1> QED BY <1>4, <1>5, <1>6, <1>7 DEF Server

\* Every step keeps the invariant: with nothing gone wrong since it booted the
\* node has a socket for its discovery.
LEMMA RebootInvKept == TypeOK /\ TypeOK' /\ KeyInv /\ RebootInv /\ [Next]_vars => RebootInv'
<1> SUFFICES ASSUME TypeOK, TypeOK', KeyInv, RebootInv, [Next]_vars PROVE RebootInv'
  OBVIOUS
<1>1. PastDevices'
  BY PastDevicesKept DEF RebootInv
<1>2. devId \in Nat /\ faults \in Nat
  BY Counts
<1>3. CASE PowerCycle
  <2>1. Boot /\ faults' = faults + 1
    BY <1>3 DEF PowerCycle, Fault
  <2>2. devId' = devId + 1 /\ Calm'
    BY <2>1, BootCalm DEF RebootInv, Boot
  <2> QED BY <1>1, <1>2, <2>1, <2>2 DEF RebootInv
<1>4. CASE DiscoveryReboot
  <2>1. Boot /\ faults' = faults /\ pc = "top" /\ held = Sockets
    BY <1>4 DEF DiscoveryReboot
  <2>2. devId' = devId + 1 /\ Calm'
    BY <2>1, BootCalm DEF RebootInv, Boot
  <2>3. ~Calm
    <3>1. sock = None /\ None \notin Sockets
      BY <2>1, NamesAssumption DEF TypeOK, SocketTypeOK
    <3>2. PICK s \in Sockets, t \in Sockets : s # t
      BY SocketsAssumption
    <3> QED BY <2>1, <3>1, <3>2 DEF Calm
  <2>4. devId <= faults
    BY <1>2, <2>3 DEF RebootInv
  <2> QED BY <1>1, <1>2, <2>1, <2>2, <2>4 DEF RebootInv
<1>5. ASSUME devId' = devId, faults' = faults, Calm => Calm' PROVE RebootInv'
  BY <1>1, <1>5 DEF RebootInv
<1>6. ASSUME devId' = devId, faults' = faults + 1 PROVE RebootInv'
  BY <1>1, <1>2, <1>6 DEF RebootInv
<1>7. CASE Node /\ ~DiscoveryReboot
  <2>1. devId' = devId /\ (faults' = faults \/ faults' = faults + 1)
    BY <1>7 DEF Node, OpenDiscovery, ConnectFail, StartExchange, StartSession, Opens,
       RecvPublicKey, ExchangeFails, Fault, ExchangeCut, RecvNonce, CloseSession
  <2> QED BY <1>5, <1>6, <1>7, <2>1, CalmNode
<1>8. CASE Server
  <2>1. devId' = devId /\ faults' = faults
    BY <1>8 DEF Server, ServerStart, WriteFile, FinishEnrol, ServerRecv,
       ServerRecvOrphan, nodeVars
  <2> QED BY <1>5, <1>8, <2>1, CalmServer
<1>9. CASE ServerCrash
  <2>1. devId' = devId /\ faults' = faults + 1
    BY <1>9 DEF ServerCrash, Fault, nodeVars
  <2> QED BY <1>6, <2>1
<1>10. CASE RecvBroadcast \/ RecvForeign \/ UNCHANGED vars
  <2>1. /\ UNCHANGED <<devId, faults, key, held, sock, connVars, serverVars>>
        /\ pc' = pc \/ (pc = "discover" /\ pc' \in {"top", "stuck"})
    BY <1>10 DEF RecvBroadcast, RecvForeign, vars, nodeVars
  <2>2. Calm => Calm'
    BY <2>1 DEF Calm, Heard, connVars, serverVars
  <2> QED BY <1>5, <2>1, <2>2
<1> QED BY <1>3, <1>4, <1>7, <1>8, <1>9, <1>10 DEF Next, Network

\* RebootsHaveCauses: every boot after the first has a fault of its own before it,
\* for any number of sockets from two on and any number of faults.
THEOREM RebootsCaused == Spec => []RebootsHaveCauses
<1>1. Init => TypeOK /\ KeyInv /\ RebootInv
  <2> SUFFICES ASSUME Init PROVE TypeOK /\ KeyInv /\ RebootInv
    OBVIOUS
  <2>1. TypeOK /\ KeyInv
    BY TypesInit DEF Init, KeyInv, Stored, FileInv, PendingInv, ExchangeInv, SessionInv
  <2>2. Heard = {0}
    BY DEF Init, Heard, Empty, NoPending
  <2> QED BY <2>1, <2>2 DEF Init, RebootInv, PastDevices, Calm
<1>2. TypeOK /\ KeyInv /\ RebootInv /\ [Next]_vars => (TypeOK /\ KeyInv /\ RebootInv)'
  BY TypesKept, KeyInvKept, RebootInvKept
<1>3. RebootInv => RebootsHaveCauses
  BY DEF RebootInv, RebootsHaveCauses
<1> QED BY <1>1, <1>2, <1>3, PTL DEF Spec
=============================================================================
