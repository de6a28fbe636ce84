--------------------------- MODULE WebSocketClient ---------------------------
(***************************************************************************)
(* The server's link to the remote service: the websocket thread           *)
(* (webSocketThread.c), with the report of the devices (DeviceReport) that *)
(* it sends and that it builds while the epoll thread changes the list.    *)
(*                                                                         *)
(* The thread is a loop around lws_service, which runs the callbacks of    *)
(* the connection one at a time.  The remote service is not part of the    *)
(* repository: it answers credentials with state 0 or 1, may drop the      *)
(* authentication with state 0, sends requests while it considers the      *)
(* connection authenticated, and closes the connection when it likes.      *)
(*                                                                         *)
(* Abstractions.  A message is its state and its action, or that it is     *)
(* credentials or a report; what deviceCommand does is RequestCommand of   *)
(* Session.  Sequence numbers are left out: nobody in the repository reads *)
(* them.                                                                   *)
(***************************************************************************)
EXTENDS DeviceReport

CONSTANT MaxInFlight  \* bound: messages on the way in one direction

ASSUME MaxInFlightAssumption == MaxInFlight \in Nat \ {0}

VARIABLES
    web_socket,               \* "NULL", "connecting" or "open"
    connectionAuthenticated,  \* 0 no, 1 yes, 2 in progress
    writable,                 \* a WRITEABLE callback has been asked for
    toRemote, toClient,       \* messages on the way
    remoteAuth,               \* the remote service's view of the connection
    \* History, read by no action.
    owed                      \* getDeviceInfo was acted upon and not answered

linkVars == <<web_socket, connectionAuthenticated, writable, toRemote,
              toClient, remoteAuth, owed>>
vars == <<linkVars, reportVars, listVars>>

Init ==
    /\ ReportInit
    /\ web_socket = "NULL"
    /\ connectionAuthenticated = 0
    /\ writable = FALSE
    /\ toRemote = <<>> /\ toClient = <<>>
    /\ remoteAuth = FALSE
    /\ owed = FALSE

-----------------------------------------------------------------------------
(***************************************************************************)
(* The thread.                                                             *)
(***************************************************************************)

\* One round of the loop up to lws_service: connect, if there is no connection
\* (and the second has changed), and ask for WRITEABLE to authenticate.  (The
\* wrong version goes on asking while authentication is in progress.)
LoopAsksAgain ==
    /\ report.at = "idle"
    /\ \/ web_socket = "NULL" /\ web_socket' = "connecting"
       \/ web_socket # "NULL" /\ UNCHANGED web_socket
    /\ writable' = (writable \/ connectionAuthenticated # 1)
    /\ UNCHANGED <<connectionAuthenticated, toRemote, toClient, remoteAuth,
                   owed, reportVars, listVars>>
Loop ==
    /\ report.at = "idle"
    /\ \/ web_socket = "NULL" /\ web_socket' = "connecting"
       \/ web_socket # "NULL" /\ UNCHANGED web_socket
    /\ writable' = (writable \/ connectionAuthenticated = 0)
    /\ UNCHANGED <<connectionAuthenticated, toRemote, toClient, remoteAuth,
                   owed, reportVars, listVars>>

Established ==
    /\ report.at = "idle"
    /\ web_socket = "connecting"
    /\ web_socket' = "open"
    /\ UNCHANGED <<connectionAuthenticated, writable, toRemote, toClient,
                   remoteAuth, owed, reportVars, listVars>>

\* CLOSED, CLIENT_CLOSED and CONNECTION_ERROR; what was on the way is lost.
\* (The wrong version only forgets the socket.)
ClosedKeepsAuth ==
    /\ report.at = "idle"
    /\ web_socket # "NULL"
    /\ web_socket' = "NULL"
    /\ writable' = FALSE
    /\ toRemote' = <<>> /\ toClient' = <<>>
    /\ remoteAuth' = FALSE /\ owed' = FALSE
    /\ UNCHANGED <<connectionAuthenticated, reportVars, listVars>>
Closed ==
    /\ report.at = "idle"
    /\ web_socket # "NULL"
    /\ web_socket' = "NULL"
    /\ connectionAuthenticated' = 0
    /\ writable' = FALSE
    /\ toRemote' = <<>> /\ toClient' = <<>>
    /\ remoteAuth' = FALSE /\ owed' = FALSE
    /\ UNCHANGED <<reportVars, listVars>>

\* WRITEABLE: send credentials, or begin a report (actionRequest is GetDeviceData
\* from the start and never changes).  (The wrong version does not note that
\* authentication is in progress.)
WriteableForgets ==
    /\ report.at = "idle"
    /\ web_socket = "open" /\ writable
    /\ Len(toRemote) < MaxInFlight
    /\ writable' = FALSE
    /\ IF connectionAuthenticated = 0
       THEN /\ toRemote' = Append(toRemote, "credentials")
            /\ UNCHANGED <<reportVars, listVars>>
       ELSE /\ StartReport
            /\ UNCHANGED toRemote
    /\ UNCHANGED <<web_socket, connectionAuthenticated, toClient,
                   remoteAuth, owed>>
Writeable ==
    /\ report.at = "idle"
    /\ web_socket = "open" /\ writable
    /\ Len(toRemote) < MaxInFlight
    /\ writable' = FALSE
    /\ IF connectionAuthenticated = 0
       THEN /\ connectionAuthenticated' = 2
            /\ toRemote' = Append(toRemote, "credentials")
            /\ UNCHANGED <<reportVars, listVars>>
       ELSE /\ StartReport
            /\ UNCHANGED <<connectionAuthenticated, toRemote>>
    /\ UNCHANGED <<web_socket, toClient, remoteAuth, owed>>
SendReport ==
    /\ FinishReport
    /\ toRemote' = Append(toRemote, "report")
    /\ owed' = FALSE
    /\ UNCHANGED <<web_socket, connectionAuthenticated, writable, toClient,
                   remoteAuth>>

\* RECEIVE.  A message without a state is ignored, state 0 and 1 set the
\* authentication, and unless that is 0 now the action is carried out.  (The
\* wrong version does not look at state 0.)
AuthAfterIgnoringZero(m) ==
    IF m.state = "1" THEN 1 ELSE connectionAuthenticated
AuthAfter(m) ==
    CASE m.state = "0" -> 0
      [] m.state = "1" -> 1
      [] OTHER         -> connectionAuthenticated
\* Whether getDeviceInfo is carried out: it asks for WRITEABLE.
Asks(m) == m.state # "missing" /\ AuthAfter(m) # 0 /\ m.action = "getDeviceInfo"
Receive ==
    /\ report.at = "idle"
    /\ web_socket = "open" /\ toClient # <<>>
    /\ LET m == Head(toClient)
       IN  /\ connectionAuthenticated' = AuthAfter(m)
           /\ writable' = (writable \/ Asks(m))
           /\ owed' = (/\ AuthAfter(m) # 0
                       /\ owed \/ (m.state # "missing" /\ m.action = "getDeviceInfo"))
    /\ toClient' = Tail(toClient)
    /\ UNCHANGED <<web_socket, toRemote, remoteAuth, reportVars, listVars>>

-----------------------------------------------------------------------------
(***************************************************************************)
(* The remote service.                                                     *)
(***************************************************************************)
RemoteSends(m) ==
    /\ Len(toClient) < MaxInFlight
    /\ toClient' = Append(toClient, m)

\* Requests carry state 1; getDeviceInfo, which has an effect here, also comes
\* with another state or with none.
Requests == [state : {"1"}, action : {"deviceCommand", "getDeviceInfo"}]
            \cup [state : {"other", "missing"}, action : {"getDeviceInfo"}]

RemoteAnswer(ok) ==
    /\ toRemote # <<>> /\ Head(toRemote) = "credentials"
    /\ remoteAuth' = ok
    /\ RemoteSends([state |-> IF ok THEN "1" ELSE "0", action |-> "none"])
    /\ toRemote' = Tail(toRemote)
    /\ UNCHANGED <<web_socket, connectionAuthenticated, writable, owed,
                   reportVars, listVars>>
RemoteTakesReport ==
    /\ toRemote # <<>> /\ Head(toRemote) = "report"
    /\ toRemote' = Tail(toRemote)
    /\ UNCHANGED <<web_socket, connectionAuthenticated, writable, toClient,
                   remoteAuth, owed, reportVars, listVars>>
RemoteRequests(m) ==
    /\ remoteAuth
    /\ RemoteSends(m)
    /\ UNCHANGED <<web_socket, connectionAuthenticated, writable, toRemote,
                   remoteAuth, owed, reportVars, listVars>>
RemoteExpires ==
    /\ remoteAuth
    /\ remoteAuth' = FALSE
    /\ RemoteSends([state |-> "0", action |-> "none"])
    /\ UNCHANGED <<web_socket, connectionAuthenticated, writable, toRemote,
                   owed, reportVars, listVars>>

-----------------------------------------------------------------------------
WebsocketThread ==
    \/ Loop \/ Established \/ Writeable \/ Receive \/ SendReport
    \/ Report /\ UNCHANGED linkVars
Remote ==
    \/ \E ok \in BOOLEAN : RemoteAnswer(ok)
    \/ RemoteTakesReport \/ RemoteExpires \/ Closed
    \/ \E m \in Requests : RemoteRequests(m)
Next == WebsocketThread \/ Remote \/ (EpollThread /\ UNCHANGED linkVars)

Spec == Init /\ [][Next]_vars

\* The thread goes on as long as it has something to do, and lws_service runs
\* the callbacks that are due; the remote service reads what it is sent and does
\* not reject credentials for ever.
FairSpec ==
    /\ Spec
    /\ WF_vars(WebsocketThread)
    /\ WF_vars(RemoteTakesReport)
    /\ SF_vars(RemoteAnswer(TRUE))

-----------------------------------------------------------------------------
(***************************************************************************)
(* Properties.                                                             *)
(***************************************************************************)

\* Type correctness.
TypeOK ==
    /\ ListTypeOK
    /\ web_socket \in {"NULL", "connecting", "open"}
    /\ connectionAuthenticated \in 0 .. 2
    /\ writable \in BOOLEAN /\ remoteAuth \in BOOLEAN /\ owed \in BOOLEAN
    /\ \A k \in DOMAIN toRemote : toRemote[k] \in {"credentials", "report"}
    /\ \A k \in DOMAIN toClient : toClient[k].state \in {"0", "1", "other", "missing"}

\* The messages on the way that can change what one side thinks of the other.
Credentials == {k \in DOMAIN toRemote : toRemote[k] = "credentials"}
Rulings == {k \in DOMAIN toClient : toClient[k].state \in {"0", "1"}}

\* Credentials are sent once: no second time before the remote service has
\* answered (connectionAuthenticated = 2), whatever the loop asks for.
CredentialsOnce ==
    /\ \A j, k \in Credentials : j = k
    /\ Credentials # {} => ~remoteAuth /\ connectionAuthenticated = 2

\* Once nothing is on the way, both sides agree on whether the connection is
\* authenticated, and authentication is not left in progress, through any
\* number of requests, expiries, closings and new connections.
ViewsAgree ==
    Credentials = {} /\ Rulings = {} =>
        connectionAuthenticated = (IF remoteAuth THEN 1 ELSE 0)

\* A request for the devices that was accepted is going to be answered, unless
\* the connection closes or its authentication is withdrawn; and no report is
\* sent that was not asked for, although WRITEABLE begins one whenever the
\* connection does not count as unauthenticated: a callback that the loop asked
\* for in order to authenticate never comes late enough for that.
ReportsOnRequest ==
    /\ owed => writable \/ report.at # "idle"
    /\ report.at # "idle" => owed

\* A connection gets authenticated or closes, also after rejections.
Authenticates ==
    (web_socket = "open") ~> (connectionAuthenticated = 1 \/ web_socket = "NULL")
=============================================================================
