----------------------------- MODULE Enrolment -----------------------------
(***************************************************************************)
(* How a node becomes known to the server: it finds the server by its UDP  *)
(* broadcast, connects, exchanges Diffie-Hellman public keys and from then *)
(* on opens sessions with the shared key.  Modelled from socketThread.c    *)
(* and client.c (node), processMsg, saveDevInfoToConfigFile and            *)
(* loadInServerSettings in server.c.                                       *)
(*                                                                         *)
(* There is one node: the server treats devices independently of each      *)
(* other.  The node has few sockets and does not close the one used for a  *)
(* key exchange.  Faults are answers later than the node's receive         *)
(* timeout, crashes of the server between any two of its steps and power   *)
(* cycles of the node.                                                     *)
(*                                                                         *)
(* A private key stands for its public key too; the secret that node key a *)
(* and server key b lead to is the pair <<a, b>>.  A message decrypts with *)
(* the key it was encrypted with and no other.  What follows the nonces of *)
(* a session is the subject of module Session.                             *)
(***************************************************************************)
EXTENDS Naturals

CONSTANTS
    Sockets,       \* the node's sockets (CONFIG_LWIP_MAX_SOCKETS of them)
    Privs,         \* private keys
    MaxReconnect,  \* MAX_RECONNECT_ATTEMPTS
    Foreign,       \* other datagrams are broadcast on the server's port
    MaxFaults,     \* bound on the number of faults
    Junk,          \* the public key read from a message that has none
    NoKey,         \* no key has been established
    None           \* no message, no socket

ASSUME BoundsAssumption == MaxReconnect \in Nat /\ MaxFaults \in Nat
\* sdkconfig:747: CONFIG_LWIP_MAX_SOCKETS=10.
ASSUME SocketsAssumption == \E s, t \in Sockets : s # t
ASSUME SwitchAssumption == Foreign \in BOOLEAN
ASSUME NamesAssumption ==
    /\ None \notin Sockets
    /\ NoKey \notin (Privs \cup {Junk}) \X Privs

VARIABLES
    \* Node.
    pc,         \* where the socket thread is
    ipKnown,    \* mainControllerIp is not "NONE"
    attempts,   \* reconnectAttempts
    devId,      \* localNodeSettings.devId: the number of the boot it is from
    key,        \* pointerToKey, NoKey while no encryption context exists
    priv,       \* privateDHKeyBuffer
    held,       \* open sockets of the node
    sock,       \* socketMain
    \* Connections, by the socket of the node.
    alive,      \* connections that the server has not dropped
    request,    \* the message on its way to the server, or None
    reply,      \* the message on its way to the node, or None
    orphans,    \* messages received from connections the node has closed
    \* Server.
    spc,        \* where the server is
    devInfos,   \* known devices and their keys
    file,       \* what deviceInfos.json contains, once it is written
    readable,   \* the file is completely written
    pending,    \* the exchange in progress
    \* History and bounds.
    forgot,     \* the server has started without a readable file
    faults      \* number of faults so far

nodeVars == <<pc, ipKnown, attempts, devId, key, priv, held, sock>>
connVars == <<alive, request, reply, orphans>>
serverVars == <<spc, devInfos, file, readable, pending, forgot>>
vars == <<nodeVars, connVars, serverVars, faults>>

-----------------------------------------------------------------------------
DevIds   == Nat \ {0}
Keys     == (Privs \cup {Junk}) \X Privs
Requests == [kind : {"dh"}, dev : DevIds, pub : Privs]
            \cup [kind : {"nonce"}, dev : DevIds, key : Keys]
Replies  == [kind : {"dh"}, pub : Privs] \cup [kind : {"nonce"}, key : Keys]

ASSUME MessagesAssumption == None \notin Requests \cup Replies

\* A partial function from device IDs to keys: devInfos, and the file.
IsRegistry(reg) ==
    /\ DOMAIN reg \subseteq DevIds
    /\ reg \in [DOMAIN reg -> Keys]
Empty == [d \in {} |-> NoKey]
With(reg, d, k) == [e \in DOMAIN reg \cup {d} |-> IF e = d THEN k ELSE reg[e]]

NoPending == [slot |-> None, dev |-> 0, key |-> NoKey, pub |-> None]

Init ==
    /\ pc = "top" /\ ipKnown = FALSE /\ attempts = 0
    /\ devId = 1 /\ key = NoKey /\ priv = None
    /\ held = {} /\ sock = None
    /\ alive = {}
    /\ request = [s \in Sockets |-> None]
    /\ reply = [s \in Sockets |-> None]
    /\ orphans = {}
    /\ spc = "down" /\ devInfos = Empty
    /\ file = Empty /\ readable = TRUE /\ pending = NoPending
    /\ forgot = FALSE /\ faults = 0

Fault == faults < MaxFaults /\ faults' = faults + 1

-----------------------------------------------------------------------------
(***************************************************************************)
(* The node.                                                               *)
(***************************************************************************)

\* The node gives up the sockets S.  What they carried to the server may still
\* arrive there; what they carried to the node is lost.  (The wrong version
\* lacks the call of close.)
CloseSocketsLeak(S) ==
    /\ sock' = None
    /\ UNCHANGED <<held, alive, request, reply, orphans, pending>>
CloseSockets(S) ==
    /\ held' = held \ S
    /\ sock' = None
    /\ alive' = alive \ S
    /\ orphans' = orphans \cup {request[s] : s \in {t \in S : request[t] # None}}
    /\ request' = [s \in Sockets |-> IF s \in S THEN None ELSE request[s]]
    /\ reply' = [s \in Sockets |-> IF s \in S THEN None ELSE reply[s]]
    /\ pending' = IF pending.slot \in S THEN [pending EXCEPT !.slot = None]
                  ELSE pending

\* A node that starts loads its settings; loadInNodeSettings always restores
\* the factory settings first, which erases the key and makes a new devId.
Boot ==
    /\ pc' = "top" /\ ipKnown' = FALSE /\ attempts' = 0
    /\ devId' = devId + 1 /\ key' = NoKey /\ priv' = None
    /\ CloseSockets(held)
    /\ UNCHANGED <<spc, devInfos, file, readable, forgot>>

PowerCycle == Fault /\ Boot

\* Discovery: a UDP socket is opened, or the node reboots if there is none.
OpenDiscovery ==
    /\ pc = "top" /\ ~ipKnown
    /\ held # Sockets
    /\ pc' = "discover"
    /\ UNCHANGED <<ipKnown, attempts, devId, key, priv, held, sock, connVars,
                   serverVars, faults>>
DiscoveryReboot ==
    /\ pc = "top" /\ ~ipKnown
    /\ held = Sockets
    /\ Boot
    /\ UNCHANGED faults

Listening == spc \notin {"down", "startWrite"}

\* The server's broadcast arrives.
RecvBroadcast ==
    /\ pc = "discover"
    /\ Listening
    /\ ipKnown' = TRUE
    /\ pc' = "top"
    /\ UNCHANGED <<attempts, devId, key, priv, held, sock, connVars, serverVars,
                   faults>>

\* Some other datagram arrives.  The socket is closed before the datagram is
\* looked at, so every later recvfrom fails and the thread tries for ever.
RecvForeign ==
    /\ Foreign
    /\ pc = "discover"
    /\ pc' = "stuck"
    /\ UNCHANGED <<ipKnown, attempts, devId, key, priv, held, sock, connVars,
                   serverVars, faults>>

\* connect() succeeds on socket s and msg is sent.
Opens(s, msg) ==
    /\ pc = "top" /\ ipKnown
    /\ Listening
    /\ s \notin held
    /\ held' = held \cup {s}
    /\ sock' = s
    /\ alive' = alive \cup {s}
    /\ request' = [request EXCEPT ![s] = msg]
    /\ UNCHANGED <<ipKnown, attempts, devId, key, reply, orphans, serverVars,
                   faults>>

StartExchange(s) ==
    /\ key = NoKey
    /\ \E a \in Privs :
          /\ priv' = a
          /\ Opens(s, [kind |-> "dh", dev |-> devId, pub |-> a])
    /\ pc' = "dhWait"
StartSession(s) ==
    /\ key # NoKey
    /\ Opens(s, [kind |-> "nonce", dev |-> devId, key |-> key])
    /\ pc' = "nonceWait"
    /\ UNCHANGED priv

\* No connection: no free socket, nobody listens, or the network is too slow.
\* After too many failures, in a row or not (the counter is reset only here),
\* the address of the server is forgotten.  (Wrong versions reset only one of
\* counter and address.)
ConnectFailNoReset ==
    /\ pc = "top" /\ ipKnown
    /\ attempts' = attempts + 1
    /\ ipKnown' = (attempts + 1 <= MaxReconnect)
    /\ UNCHANGED <<pc, devId, key, priv, held, sock, connVars, serverVars,
                   faults>>
ConnectFailKeepsIp ==
    /\ pc = "top" /\ ipKnown
    /\ attempts' = IF attempts + 1 > MaxReconnect THEN 0 ELSE attempts + 1
    /\ UNCHANGED <<pc, ipKnown, devId, key, priv, held, sock, connVars,
                   serverVars, faults>>
ConnectFail ==
    /\ pc = "top" /\ ipKnown
    /\ attempts' = IF attempts + 1 > MaxReconnect THEN 0 ELSE attempts + 1
    /\ ipKnown' = (attempts + 1 <= MaxReconnect)
    /\ UNCHANGED <<pc, devId, key, priv, held, sock, connVars, serverVars,
                   faults>>

\* processMsg without connInfo: the server's public key.  The socket stays open.
Shared(a, b) == <<a, b>>
RecvPublicKey ==
    /\ pc = "dhWait"
    /\ reply[sock] # None
    /\ key' = Shared(priv, reply[sock].pub)
    /\ reply' = [reply EXCEPT ![sock] = None]
    /\ sock' = None
    /\ pc' = "top"
    /\ UNCHANGED <<ipKnown, attempts, devId, priv, held, alive, request, orphans,
                   serverVars, faults>>

\* The server has not answered and is not about to.
Unanswered ==
    request[sock] = None /\ reply[sock] = None /\ pending.slot # sock

\* recvAll ends with -1: a timeout, which is a fault if the answer is only
\* late, or a connection reset.  The socket stays open.
ExchangeFails ==
    /\ pc = "dhWait"
    /\ IF Unanswered THEN UNCHANGED faults ELSE Fault
    /\ pc' = "top"
    /\ sock' = None
    /\ UNCHANGED <<ipKnown, attempts, devId, key, priv, held, connVars,
                   serverVars>>

\* recvAll ends with 1, and has closed the socket: the server is gone.
ExchangeCut ==
    /\ pc = "dhWait"
    /\ sock \notin alive /\ reply[sock] = None
    /\ CloseSockets({sock})
    /\ pc' = "top"
    /\ UNCHANGED <<ipKnown, attempts, devId, key, priv, spc, devInfos, file,
                   readable, forgot, faults>>

\* processMsg with a connInfo takes what it receives for the server's nonce.
\* Whether it could be decrypted is not checked: if not, the nonce is what the
\* decryption buffer held before.
RecvNonce ==
    /\ pc = "nonceWait"
    /\ reply[sock] # None
    /\ pc' = IF reply[sock] = [kind |-> "nonce", key |-> key]
             THEN "session" ELSE "bogus"
    /\ reply' = [reply EXCEPT ![sock] = None]
    /\ UNCHANGED <<ipKnown, attempts, devId, key, priv, held, sock, alive,
                   request, orphans, serverVars, faults>>

\* The end of a cycle with a key: a timeout or the end of the session.
CloseSession ==
    /\ pc \in {"nonceWait", "session", "bogus"}
    /\ CloseSockets({sock})
    /\ pc' = "top"
    /\ UNCHANGED <<ipKnown, attempts, devId, key, priv, spc, devInfos, file,
                   readable, forgot, faults>>

-----------------------------------------------------------------------------
(***************************************************************************)
(* The server.  saveDevInfoToConfigFile reads the file, changes or adds    *)
(* the entry and writes the whole file anew: while it is being written it  *)
(* cannot be read.  A file that cannot be read is not written either.      *)
(***************************************************************************)

\* main: settings are loaded, then the entry of a test device is saved (it is
\* left out here; what matters is that the file is written).
ServerStart ==
    /\ spc = "down"
    /\ IF readable
       THEN /\ devInfos' = file
            /\ readable' = FALSE
            /\ spc' = "startWrite"
            /\ UNCHANGED forgot
       ELSE /\ devInfos' = Empty
            /\ forgot' = TRUE
            /\ spc' = "idle"
            /\ UNCHANGED readable
    /\ UNCHANGED <<nodeVars, connVars, file, pending, faults>>

\* The rest of saveDevInfoToConfigFile.
WriteFile ==
    /\ spc \in {"startWrite", "write"}
    /\ readable' = TRUE
    /\ spc' = IF spc = "write" THEN "added" ELSE "idle"
    /\ UNCHANGED <<nodeVars, connVars, devInfos, file, pending, forgot, faults>>

\* processMsg for a device that is not known: the message is taken for a key
\* exchange, and the entry is saved before it is used and before the server's
\* public key is sent.  (The wrong version adds the device without saving it.)
EnrolUnsaved(m, s, b) ==
    /\ pending' = [slot |-> s, dev |-> m.dev, pub |-> b,
                   key |-> Shared(IF m.kind = "dh" THEN m.pub ELSE Junk, b)]
    /\ spc' = "added"
    /\ UNCHANGED <<file, readable>>
Enrol(m, s, b) ==
    /\ pending' = [slot |-> s, dev |-> m.dev, pub |-> b,
                   key |-> Shared(IF m.kind = "dh" THEN m.pub ELSE Junk, b)]
    /\ IF readable
       THEN /\ spc' = "write"
            /\ file' = With(file, m.dev, pending'.key)
            /\ readable' = FALSE
       ELSE /\ spc' = "added"
            /\ UNCHANGED <<file, readable>>

\* The message can be decrypted with the device's key.
Decrypts(m) == m.kind = "nonce" /\ m.key = devInfos[m.dev]

\* The server's nonce, encrypted with the key found for the device.  (In the
\* wrong version the search leaves the key of the first device behind.)
NonceReplyFirst(m) ==
    [kind |-> "nonce",
     key |-> devInfos[CHOOSE d \in DOMAIN devInfos :
                         \A e \in DOMAIN devInfos : d <= e]]
NonceReply(m) == [kind |-> "nonce", key |-> devInfos[m.dev]]

\* processMsg for message m from socket s, or from no socket any more.
processMsg(m, s) ==
    IF m.dev \notin DOMAIN devInfos
    THEN /\ \E b \in Privs : Enrol(m, s, b)
         /\ UNCHANGED reply
    ELSE /\ IF Decrypts(m) /\ s # None
            THEN reply' = [reply EXCEPT ![s] = NonceReply(m)]
            ELSE UNCHANGED reply
         /\ UNCHANGED <<spc, file, readable, pending>>

ServerRecv(s) ==
    /\ spc = "idle"
    /\ request[s] # None
    /\ processMsg(request[s], s)
    /\ request' = [request EXCEPT ![s] = None]
    /\ UNCHANGED <<nodeVars, alive, orphans, devInfos, forgot, faults>>
ServerRecvOrphan(m) ==
    /\ spc = "idle"
    /\ orphans' = orphans \ {m}
    /\ processMsg(m, None)
    /\ UNCHANGED <<nodeVars, alive, request, devInfos, forgot, faults>>

\* The rest of the exchange: the entry is added and the public key sent.
FinishEnrol ==
    /\ spc = "added"
    /\ devInfos' = With(devInfos, pending.dev, pending.key)
    /\ reply' = IF pending.slot = None THEN reply
                ELSE [reply EXCEPT ![pending.slot] = [kind |-> "dh", pub |-> pending.pub]]
    /\ pending' = NoPending
    /\ spc' = "idle"
    /\ UNCHANGED <<nodeVars, alive, request, orphans, file, readable, forgot,
                   faults>>

\* The server process dies.  What it has sent may still reach the node.
ServerCrash ==
    /\ spc # "down"
    /\ Fault
    /\ spc' = "down" /\ devInfos' = Empty /\ pending' = NoPending
    /\ alive' = {}
    /\ request' = [s \in Sockets |-> None]
    /\ orphans' = {}
    /\ UNCHANGED <<nodeVars, reply, file, readable, forgot>>

-----------------------------------------------------------------------------
Node ==
    \/ OpenDiscovery \/ DiscoveryReboot
    \/ \E s \in Sockets : StartExchange(s) \/ StartSession(s)
    \/ ConnectFail
    \/ RecvPublicKey \/ ExchangeFails \/ ExchangeCut
    \/ RecvNonce \/ CloseSession
Network == RecvBroadcast \/ RecvForeign \/ PowerCycle
Server ==
    \/ ServerStart \/ WriteFile \/ FinishEnrol
    \/ \E s \in Sockets : ServerRecv(s)
    \/ \E m \in orphans : ServerRecvOrphan(m)

Next == Node \/ Network \/ Server \/ ServerCrash

Spec == Init /\ [][Next]_vars

\* The threads of both programs go on, the server's broadcasts are received, and
\* the network lets a connection, a first message and an answer through in time
\* every now and then.
Fairness ==
    /\ WF_vars(Node) /\ WF_vars(Server) /\ WF_vars(RecvBroadcast)
    /\ SF_vars(\E s \in Sockets : StartExchange(s) \/ StartSession(s))
    /\ SF_vars(pc = "nonceWait" /\ ServerRecv(sock))
    /\ SF_vars(RecvPublicKey) /\ SF_vars(RecvNonce)
FairSpec == Spec /\ Fairness

-----------------------------------------------------------------------------
NodeTypeOK ==
    /\ pc \in {"top", "discover", "stuck", "dhWait", "nonceWait", "session", "bogus"}
    /\ ipKnown \in BOOLEAN
    /\ attempts \in 0 .. MaxReconnect
    /\ devId \in DevIds
    /\ key \in Keys \cup {NoKey}
    /\ priv \in Privs \cup {None}
SocketTypeOK ==
    /\ held \subseteq Sockets
    /\ IF pc \in {"dhWait", "nonceWait", "session", "bogus"}
       THEN sock \in held ELSE sock = None
    /\ alive \subseteq held
    /\ request \in [Sockets -> Requests \cup {None}]
    /\ reply \in [Sockets -> Replies \cup {None}]
    /\ \A s \in Sockets \ held : request[s] = None /\ reply[s] = None
    /\ pc = "dhWait" => /\ priv \in Privs
                        /\ request[sock] # None => request[sock].kind = "dh"
                        /\ reply[sock] # None => reply[sock].kind = "dh"
    /\ orphans \subseteq Requests
ServerTypeOK ==
    /\ spc \in {"down", "startWrite", "idle", "write", "added"}
    /\ IsRegistry(devInfos) /\ IsRegistry(file)
    /\ readable \in BOOLEAN
    /\ IF spc \in {"write", "added"}
       THEN pending \in [slot : held \cup {None}, dev : DevIds, key : Keys,
                         pub : Privs]
       ELSE pending = NoPending
    /\ forgot \in BOOLEAN

\* Types, among them that the socket thread is between socket() and close()
\* exactly where it waits or is in a session, that what it waits for in an
\* exchange is a public key, and that the server has an exchange in hand exactly
\* from the save to the answer.
TypeOK ==
    /\ NodeTypeOK
    /\ SocketTypeOK
    /\ ServerTypeOK
    /\ faults \in 0 .. MaxFaults

\* Once the node has a key, a running server knows the node under that very
\* key, whatever exchanges were repeated, answered late or cut off, and however
\* often the server has crashed, unless it has found its file unreadable: the
\* entry is saved and added before the server's public key is sent.
KeysAgree ==
    (key # NoKey /\ spc # "down" /\ ~forgot)
        => devId \in DOMAIN devInfos /\ devInfos[devId] = key

\* The node ignores the result of decryption, yet never opens a session with a
\* nonce that it could not decrypt unless the server forgot the node.
NoBogusSession == ~forgot => pc # "bogus"

\* The node runs out of sockets and reboots (which costs it its identity) only
\* as the consequence of some fault: every boot after the first has its own.
RebootsHaveCauses == devId <= faults + 1

\* A node always gets back into a session, even if the answer of a key exchange
\* has been lost and the server ignores all further ones: the sockets that
\* these leave open run out, so that connections and then discovery fail, and
\* the node reboots with a new identity.
SelfHealing == [](~forgot /\ pc # "stuck") => []<>(pc = "session")

-----------------------------------------------------------------------------
(***************************************************************************)
(* What a comment of the code says and the code does not do.               *)
(***************************************************************************)

\* socketThread: "First wait to find ip of the server from a UDP broadcast
\* message".  The wait ends: broadcasts come every three seconds.
DiscoveryEnds == []<>ipKnown
=============================================================================
