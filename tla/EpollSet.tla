------------------------------ MODULE EpollSet ------------------------------
(***************************************************************************)
(* The event loop of the server's epoll thread (epollRecievingThread.c):   *)
(* two listening sockets that are watched edge-triggered and accept one    *)
(* connection per event, connections that are watched level-triggered, and *)
(* the list connectionsInfo, keyed by descriptors that are used again.     *)
(*                                                                         *)
(* The kernel's part (epoll, accept queues, descriptors) is external: a    *)
(* connection that arrives makes its listening socket ready once, and      *)
(* arrivals between two calls of epoll_wait are reported as one event.     *)
(* What a received message does is in RecvAll, Session and Enrolment: here *)
(* a connection has bytes to read or has none.                             *)
(***************************************************************************)
EXTENDS Naturals, Sequences, FiniteSets, SequencesExt

CONSTANTS
    NodeConns, LanConns,  \* connections to the two ports, each made once
    Fds,                  \* descriptors the process may have open for them
    None

Listeners == {"node", "lan"}
Conns == NodeConns \cup LanConns
Port(c) == IF c \in NodeConns THEN "node" ELSE "lan"

ASSUME ConnsAssumption == NodeConns \cap LanConns = {} /\ None \notin Conns
ASSUME FdsAssumption == IsFiniteSet(Fds) /\ Fds \cap (Listeners \cup {None}) = {}

VARIABLES
    \* The kernel and the peers.
    backlog,    \* connections of each listening socket that wait for accept
    edge,       \* listening sockets with an arrival to be reported
    opened,     \* the connection behind each descriptor, or None
    watched,    \* descriptors of connections in the epoll set
    input,      \* connections with bytes to read
    ended,      \* how the peer has ended a connection: "no", "closed", "reset"
    \* The thread.
    events,     \* events of the last epoll_wait that are still to be processed:
                \* socket, whether an error is reported, as history the connection
    sockNodeRemote,
    connectionsInfo,  \* entries: descriptor and, as history, its connection
    thread,     \* "running" or "exited"
    \* History, read by no action.
    merged      \* arrivals that were reported together with another one

kernelVars == <<backlog, edge, opened, watched, input, ended>>
threadVars == <<events, sockNodeRemote, connectionsInfo, thread>>
vars == <<kernelVars, threadVars, merged>>

\* sockNodeRemote is not initialized: it may be a number that a connection will
\* get, or an "other".
Init ==
    /\ backlog = [l \in Listeners |-> <<>>]
    /\ edge = {}
    /\ opened = [f \in Fds |-> None]
    /\ watched = {}
    /\ input = {}
    /\ ended = [c \in Conns |-> "no"]
    /\ events = <<>>
    /\ sockNodeRemote \in Fds \cup {"other"}
    /\ connectionsInfo = {}
    /\ thread = "running"
    /\ merged = [l \in Listeners |-> 0]

Pending == {c \in Conns : \E k \in DOMAIN backlog[Port(c)] : backlog[Port(c)][k] = c}
Open == {opened[f] : f \in Fds} \ {None}

-----------------------------------------------------------------------------
(***************************************************************************)
(* The peers.                                                              *)
(***************************************************************************)
Began(c) == c \in Pending \cup Open \cup input \/ ended[c] # "no"

Connect(c) ==
    /\ ~Began(c)
    /\ backlog' = [backlog EXCEPT ![Port(c)] = Append(@, c)]
    /\ edge' = edge \cup {Port(c)}
    /\ merged' = [merged EXCEPT ![Port(c)] = IF Port(c) \in edge THEN @ + 1 ELSE @]
    /\ UNCHANGED <<opened, watched, input, ended, threadVars>>
Send(c) ==
    /\ c \in (Pending \cup Open) \ input
    /\ ended[c] = "no"
    /\ input' = input \cup {c}
    /\ UNCHANGED <<backlog, edge, opened, watched, ended, threadVars, merged>>
End(c, how) ==
    /\ c \in Pending \cup Open
    /\ ended[c] = "no"
    /\ ended' = [ended EXCEPT ![c] = how]
    /\ UNCHANGED <<backlog, edge, opened, watched, input, threadVars, merged>>

-----------------------------------------------------------------------------
(***************************************************************************)
(* The thread.                                                             *)
(***************************************************************************)

\* epoll_wait reports the listening sockets with an arrival since the last call
\* and every watched connection with bytes, an end or an error, in any order.
ReadyConns == {f \in watched : opened[f] \in input \/ ended[opened[f]] # "no"}
Ready == {[socket |-> l, error |-> FALSE, conn |-> None] : l \in edge} \cup
         {[socket |-> f, error |-> (ended[opened[f]] = "reset"), conn |-> opened[f]] :
             f \in ReadyConns}
EpollWait ==
    /\ thread = "running" /\ events = <<>>
    /\ Ready # {}
    /\ events' \in SetToSeqs(Ready)
    /\ edge' = {}
    /\ UNCHANGED <<backlog, opened, watched, input, ended, sockNodeRemote,
                   connectionsInfo, thread, merged>>

\* The loop over the events.  (The wrong version looks at one event only.)
NextEventOnly(s, error) ==
    /\ thread = "running" /\ events # <<>>
    /\ s = Head(events).socket /\ error = Head(events).error
    /\ events' = <<>>
NextEvent(s, error) ==
    /\ thread = "running" /\ events # <<>>
    /\ s = Head(events).socket /\ error = Head(events).error
    /\ events' = Tail(events)

\* A descriptor is closed, which takes it out of the epoll set, and its
\* connInfo removed (close1; close in recvAll and removeConnInfo).  (The wrong
\* version leaves the connInfo.)
CloseOnly(f) ==
    /\ opened' = [opened EXCEPT ![f] = None]
    /\ watched' = watched \ {f}
    /\ input' = input \ {opened[f]}
    /\ UNCHANGED connectionsInfo
Close1(f) ==
    /\ opened' = [opened EXCEPT ![f] = None]
    /\ watched' = watched \ {f}
    /\ input' = input \ {opened[f]}
    /\ connectionsInfo' = {i \in connectionsInfo : i.socket # f}

\* EPOLLHUP or EPOLLERR: the connection is closed unread.  (The wrong version
\* closes the connection accepted last.)
HandleErrorLast(f) ==
    /\ f \in Fds /\ NextEvent(f, TRUE)
    /\ \E g \in Fds : g = sockNodeRemote /\ Close1(g)
    /\ UNCHANGED <<backlog, edge, ended, sockNodeRemote, thread, merged>>
HandleError(f) ==
    /\ f \in Fds /\ NextEvent(f, TRUE)
    /\ Close1(f)
    /\ UNCHANGED <<backlog, edge, ended, sockNodeRemote, thread, merged>>

\* EPOLLIN: recvAll reads what is there, unless the connection has been reset
\* in the meantime; at the end of the stream the connection is closed.
HandleInput(f) ==
    /\ f \in Fds /\ NextEvent(f, FALSE)
    /\ opened[f] \in input \/ ended[opened[f]] = "reset"
    /\ input' = input \ {opened[f]}
    /\ UNCHANGED <<backlog, edge, opened, watched, ended, sockNodeRemote,
                   connectionsInfo, thread, merged>>
HandleEnd(f) ==
    /\ f \in Fds /\ NextEvent(f, FALSE)
    /\ opened[f] \notin input /\ ended[opened[f]] = "closed"
    /\ Close1(f)
    /\ UNCHANGED <<backlog, edge, ended, sockNodeRemote, thread, merged>>

\* accept1: the oldest waiting connection gets a free descriptor and a connInfo.
\* The listening sockets are blocking: with none waiting the thread would hang.
Accept1(l, f) ==
    /\ backlog[l] # <<>>
    /\ opened[f] = None
    /\ backlog' = [backlog EXCEPT ![l] = Tail(@)]
    /\ opened' = [opened EXCEPT ![f] = Head(backlog[l])]
    /\ connectionsInfo' = connectionsInfo \cup {[socket |-> f, conn |-> Head(backlog[l])]}

\* A connection from a node is watched.  (The wrong version makes the mistake of
\* HandleLan: it adds the former descriptor.)
HandleNodeFormer(f) ==
    /\ NextEvent("node", FALSE)
    /\ Accept1("node", f)
    /\ sockNodeRemote' = f
    /\ watched' = watched \cup ({sockNodeRemote} \cap Fds)
    /\ UNCHANGED <<edge, input, ended, thread, merged>>
HandleNode(f) ==
    /\ NextEvent("node", FALSE)
    /\ Accept1("node", f)
    /\ sockNodeRemote' = f
    /\ watched' = watched \cup {f}
    /\ UNCHANGED <<edge, input, ended, thread, merged>>

\* For a connection from the LAN the descriptor in sockNodeRemote is added to
\* the epoll set instead.  If the new one has the same number all is well; else
\* that one is in the set already or is closed, epoll_ctl fails and the thread
\* exits (or, with a number that never was a connection's, something else is
\* added and the connection is never read).
HandleLan(f) ==
    /\ NextEvent("lan", FALSE)
    /\ Accept1("lan", f)
    /\ watched' = watched \cup ({f} \cap {sockNodeRemote})
    /\ \/ sockNodeRemote # f /\ thread' = "exited"
       \/ sockNodeRemote \in {f, "other"} /\ UNCHANGED thread
    /\ UNCHANGED <<edge, input, ended, sockNodeRemote, merged>>

\* No descriptor is left: accept fails and the thread exits.
AcceptFails(l) ==
    /\ l \in Listeners /\ NextEvent(l, FALSE)
    /\ \A f \in Fds : opened[f] # None
    /\ thread' = "exited"
    /\ UNCHANGED <<kernelVars, sockNodeRemote, connectionsInfo, merged>>

-----------------------------------------------------------------------------
Peers == \E c \in Conns : Connect(c) \/ Send(c) \/ End(c, "closed") \/ End(c, "reset")
Thread ==
    \/ EpollWait
    \/ \E f \in Fds : \/ HandleError(f) \/ HandleInput(f) \/ HandleEnd(f)
                      \/ HandleNode(f) \/ HandleLan(f)
    \/ \E l \in Listeners : AcceptFails(l)
Next == Peers \/ Thread

Spec == Init /\ [][Next]_vars

\* The thread waits only in epoll_wait.
FairSpec == Spec /\ WF_vars(Thread)

-----------------------------------------------------------------------------
(***************************************************************************)
(* Properties.                                                             *)
(***************************************************************************)

\* Type correctness.
TypeOK ==
    /\ backlog \in [Listeners -> Seq(Conns)]
    /\ edge \subseteq Listeners
    /\ opened \in [Fds -> Conns \cup {None}]
    /\ watched \subseteq {f \in Fds : opened[f] # None}
    /\ input \subseteq Pending \cup Open
    /\ ended \in [Conns -> {"no", "closed", "reset"}]
    /\ sockNodeRemote \in Fds \cup {"other"}
    /\ thread \in {"running", "exited"}
    /\ merged \in [Listeners -> Nat]

\* The connections that wait are accounted for: one for the arrival that is to
\* be reported, one for the event that is to be processed, and one for each
\* arrival that was reported together with another: those stay behind, however
\* many events follow.  In particular an event never finds nothing to accept,
\* which would block the thread.
InEvents(l) == \E k \in DOMAIN events : events[k].socket = l
BacklogAccounted ==
    thread = "running" =>
        \A l \in Listeners :
            Len(backlog[l]) = merged[l] + (IF l \in edge THEN 1 ELSE 0)
                                        + (IF InEvents(l) THEN 1 ELSE 0)

\* Every open connection has exactly one connInfo, its own, although
\* descriptors are used again: no connection inherits the session of a former
\* one (accept1, close1, removeConnInfo).  And as long as the thread runs, every
\* node that is connected is watched.
InfosMatchSockets ==
    /\ connectionsInfo =
          {[socket |-> f, conn |-> opened[f]] : f \in {g \in Fds : opened[g] # None}}
    /\ thread = "running" =>
          \A f \in Fds : opened[f] \in NodeConns => f \in watched

\* An event that is still to be processed is about the connection that caused
\* it: its descriptor has not been closed and given to another one by an event
\* before it in the same batch.
EventsCurrent ==
    \A k \in DOMAIN events :
        events[k].socket \in Fds => opened[events[k].socket] = events[k].conn

\* A node that connects is accepted, unless two arrived together or the thread
\* has exited.
NodesAccepted ==
    \A c \in NodeConns :
        c \in Pending ~> c \notin Pending \/ merged["node"] > 0 \/ thread = "exited"
=============================================================================
